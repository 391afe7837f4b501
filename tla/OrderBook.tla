-------------------------------- MODULE OrderBook --------------------------------
(***************************************************************************)
(* The order book as the code keeps it: for each symbol a heap of bids and *)
(* a heap of asks (internal/matching/heap.go), driven by container/heap.   *)
(* It implements LimitBook, which knows only the set of resting orders,    *)
(* kept here as a history variable.                                        *)
(***************************************************************************)
EXTENDS LimitBook

VARIABLES
  bids,  \* bids[s]: the BidHeap of symbol s, orders by number
  asks   \* asks[s]: the AskHeap

heaps    == <<bids, asks>>
heapVars == <<bookVars, heaps>>

Elements(h) == {h[i] : i \in DOMAIN h}
Resting == UNION {Elements(bids[s]) \cup Elements(asks[s]) : s \in Symbols}

HeapInit ==
  /\ Init
  /\ bids = [s \in Symbols |-> <<>>]
  /\ asks = [s \in Symbols |-> <<>>]
-------------------------------------------------------------------------------
(* container/heap, with indices from 1 *)

(* A sift: a heap, and the index the loop has reached.                     *)
Sifts == Seq(Nat) \X (Nat \ {0})

Swap(h, i, j) == [h EXCEPT ![i] = h[j], ![j] = h[i]]

Up[s \in Sifts] ==
  LET h == s[1]
      j == s[2] IN
  IF j \in 2 .. Len(h) /\ Less(h[j], h[j \div 2]) THEN Up[<<Swap(h, j, j \div 2), j \div 2>>]
  ELSE h

LesserChild(h, i) ==
  IF 2 * i + 1 <= Len(h) /\ Less(h[2 * i + 1], h[2 * i]) THEN 2 * i + 1 ELSE 2 * i

Down[s \in Sifts] ==
  LET h == s[1]
      i == s[2]
      j == LesserChild(h, i) IN
  IF j <= Len(h) /\ Less(h[j], h[i]) THEN Down[<<Swap(h, i, j), j>>] ELSE h

Push(h, i) == Up[<<Append(h, i), Len(h) + 1>>]

(* Slip: the last element takes the place of the first, and stays there. *)
PopUnsifted(h) == SubSeq(Swap(h, 1, Len(h)), 1, Len(h) - 1)

Pop(h) == Down[<<SubSeq(Swap(h, 1, Len(h)), 1, Len(h) - 1), 1>>]
-------------------------------------------------------------------------------
(* Match and Insert *)

(* handleOrder up to the call of Match.                                    *)
Take(k) == Accept(k) /\ UNCHANGED heaps

(* The heap an order is matched against.                                   *)
Against(i) == IF order[i].side = "BUY" THEN asks[order[i].symbol] ELSE bids[order[i].symbol]

(* heap.Pop or heap.Push on one side of symbol s; the resting orders are   *)
(* what is in the heaps.                                                   *)
SetHeap(side, s, h) ==
  /\ IF side = "BUY" THEN bids' = [bids EXCEPT ![s] = h] /\ UNCHANGED asks
     ELSE asks' = [asks EXCEPT ![s] = h] /\ UNCHANGED bids
  /\ book' = Resting'

(* Slip: a maker that is filled is not popped. *)
MatchTopNotPopped ==
  /\ incoming # 0
  /\ remaining > 0
  /\ Against(incoming) # <<>>
  /\ LET top == Against(incoming)[1]
         q == MinQty(remaining, RemainingQty(top)) IN
     /\ Crosses(incoming, top)
     /\ trades' = Append(trades, Trade(incoming, top, q))
     /\ order' = [order EXCEPT ![top].filled = @ + q]
     /\ remaining' = remaining - q
  /\ UNCHANGED <<book, heaps, incoming, unmet>>

(* Slip: FilledQty is set to the quantity of the last trade. *)
MatchTopOverwrites ==
  /\ incoming # 0
  /\ remaining > 0
  /\ Against(incoming) # <<>>
  /\ LET top == Against(incoming)[1]
         q == MinQty(remaining, RemainingQty(top)) IN
     /\ Crosses(incoming, top)
     /\ trades' = Append(trades, Trade(incoming, top, q))
     /\ order' = [order EXCEPT ![top].filled = q]
     /\ remaining' = remaining - q
     /\ IF RemainingQty(top) # q THEN UNCHANGED <<book, heaps>>
        ELSE SetHeap(order[top].side, order[top].symbol, Pop(Against(incoming)))
  /\ UNCHANGED <<incoming, unmet>>

(* One iteration of the loop of matchBuy or matchSell.                     *)
MatchTop ==
  /\ incoming # 0
  /\ remaining > 0
  /\ Against(incoming) # <<>>
  /\ LET top == Against(incoming)[1]
         q == MinQty(remaining, RemainingQty(top)) IN
     /\ Crosses(incoming, top)
     /\ trades' = Append(trades, Trade(incoming, top, q))
     /\ order' = [order EXCEPT ![top].filled = @ + q]
     /\ remaining' = remaining - q
     /\ IF RemainingQty(top) # q THEN UNCHANGED <<book, heaps>>
        ELSE SetHeap(order[top].side, order[top].symbol, Pop(Against(incoming)))
  /\ UNCHANGED <<incoming, unmet>>

(* The heap an order is inserted into.                                     *)
Own(i) == IF order[i].side = "BUY" THEN bids[order[i].symbol] ELSE asks[order[i].symbol]

PushRest ==
  /\ incoming # 0
  /\ \/ remaining = 0
     \/ Against(incoming) = <<>>
     \/ Against(incoming) # <<>> /\ ~Crosses(incoming, Against(incoming)[1])
  /\ IF RemainingQty(incoming) <= 0 THEN UNCHANGED <<book, heaps>>
     ELSE SetHeap(order[incoming].side, order[incoming].symbol, Push(Own(incoming), incoming))
  /\ unmet' = Append(unmet, remaining)
  /\ incoming' = 0
  /\ remaining' = 0
  /\ UNCHANGED <<order, trades>>

HeapNext ==
  \/ Len(order) < MaxOrders /\ \E k \in Kind : Take(k)
  \/ MatchTop
  \/ PushRest
  \/ Quiet /\ UNCHANGED heaps

HeapSpec == HeapInit /\ [][HeapNext]_heapVars
-------------------------------------------------------------------------------
(* Properties *)

(* The heaps implement the set of resting orders: the top is always a best *)
(* order, nothing gets lost or stays behind in a sift.                     *)
ImplementsLimitBook == Spec

(* In a trade the order that arrived later is the taker, the other one the *)
(* maker that was resting.                                                 *)
Taker(t) == IF trades[t].buy < trades[t].sell THEN trades[t].sell ELSE trades[t].buy
Maker(t) == IF trades[t].buy < trades[t].sell THEN trades[t].buy ELSE trades[t].sell

(* A pop that explains why m is matched before i: while both were resting, *)
(* an order as good as i or better was used up, and heap.Pop moved the     *)
(* last element of the heap to its root.                                   *)
Overtaken(i, m) ==
  \E t \in DOMAIN trades :
    /\ RemainingQty(Maker(t)) = 0
    /\ order[Maker(t)].side = order[i].side
    /\ order[Maker(t)].symbol = order[i].symbol
    /\ ~Less(i, Maker(t))
    /\ m < Taker(t)

(* Orders carry no time (Accept), and the heaps are not stable, so equal   *)
(* prices are not served in the order of arrival.  But no order overtakes  *)
(* by being inserted: one that came later is matched before one of the     *)
(* same price only if an order was popped since both rest, and up to the   *)
(* first pop of a side the first to arrive is the first to be matched.     *)
TradesOvertakeByPop ==
  Len(trades') > Len(trades) =>
    LET t == trades'[Len(trades')]
        maker == IF t.buy = incoming THEN t.sell ELSE t.buy IN
    \A i \in Opposite(incoming) :
      i < maker /\ order[i].price = order[maker].price => Overtaken(i, maker)

OvertakingOnlyByPop == [][TradesOvertakeByPop]_heapVars
================================================================================
