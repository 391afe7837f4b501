-------------------------------- MODULE LimitBook --------------------------------
(***************************************************************************)
(* What the order book of the matching engine promises: an incoming order  *)
(* trades with the best resting order of the other side, one trade at a    *)
(* time and at the resting order's price, until nothing crosses or nothing *)
(* is left; then it is inserted (internal/matching/{orderbook,engine}.go). *)
(*                                                                         *)
(* The resting orders are a set; OrderBook keeps them in heaps and         *)
(* implements this module.                                                 *)
(***************************************************************************)
EXTENDS Integers, Sequences, FiniteSets, Functions

CONSTANTS
  Sides,       \* {"BUY", "SELL"}, and what else a message may say
  Symbols,
  Prices,
  Quantities,
  MaxOrders    \* bound: orders that arrive

ASSUME BookAssumption ==
  /\ {"BUY", "SELL"} \subseteq Sides
  /\ Prices \subseteq Int
  /\ Quantities \subseteq Int
  /\ MaxOrders \in Nat

(* A message, and the order object the engine makes of it.                 *)
Kind == [side : Sides, symbol : Symbols, price : Prices, qty : Quantities]
Order == [side : Sides, symbol : Symbols, price : Prices, qty : Quantities,
          filled : Int, created : Nat]

VARIABLES
  order,      \* order[i]: the i-th accepted order
  book,       \* the resting orders
  incoming,   \* the order being matched, 0 if none
  remaining,  \* its quantity not matched yet (a local of Match)
  trades,     \* history: the trades made so far
  unmet       \* history: unmet[i] is what remained of i when Match returned

bookVars == <<order, book, incoming, remaining, trades, unmet>>

Init ==
  /\ order = <<>>
  /\ book = {}
  /\ incoming = 0
  /\ remaining = 0
  /\ trades = <<>>
  /\ unmet = <<>>
-------------------------------------------------------------------------------
(* validateOrder.  Its last check, FilledQty > Quantity, cannot fail: like *)
(* CreatedAt, no message has a FilledQty.                                  *)
Valid(k) == k.price > 0 /\ k.qty > 0 /\ k.side \in {"BUY", "SELL"}

RemainingQty(i) == order[i].qty - order[i].filled

(* Slip: !After instead of Before. *)
LessOrSame(m, n) ==
  IF order[m].price = order[n].price THEN order[m].created <= order[n].created
  ELSE IF order[m].side = "BUY" THEN order[m].price > order[n].price
  ELSE order[m].price < order[n].price

(* Slip: the comparison of the other side's heap. *)
LessReversed(m, n) ==
  IF order[m].price = order[n].price THEN order[m].created < order[n].created
  ELSE IF order[m].side = "BUY" THEN order[m].price < order[n].price
  ELSE order[m].price > order[n].price

(* BidHeap.Less and AskHeap.Less, for two orders of one side.              *)
Less(m, n) ==
  IF order[m].price = order[n].price THEN order[m].created < order[n].created
  ELSE IF order[m].side = "BUY" THEN order[m].price > order[n].price
  ELSE order[m].price < order[n].price

Opposite(i) == {m \in book : /\ order[m].side # order[i].side
                             /\ order[m].symbol = order[i].symbol}
Best(S) == {m \in S : \A n \in S : ~Less(n, m)}

Crosses(i, m) ==
  IF order[i].side = "BUY" THEN order[i].price >= order[m].price
  ELSE order[i].price <= order[m].price

(* Slip: the larger of the two. *)
MinQtySwapped(a, b) == IF a < b THEN b ELSE a

MinQty(a, b) == IF a < b THEN a ELSE b

(* Slip: at the price of the incoming order. *)
TradeAtLimit(i, m, q) ==
  IF order[i].side = "BUY" THEN [buy |-> i, sell |-> m, price |-> order[i].price, qty |-> q]
  ELSE [buy |-> m, sell |-> i, price |-> order[i].price, qty |-> q]

(* One trade, at the maker's price.                                        *)
Trade(i, m, q) ==
  IF order[i].side = "BUY" THEN [buy |-> i, sell |-> m, price |-> order[m].price, qty |-> q]
  ELSE [buy |-> m, sell |-> i, price |-> order[m].price, qty |-> q]

(* A valid order arrives.  CreatedAt is the zero time in all of them: the  *)
(* payload of an order.placed event has no such field (order/service.go).  *)
Accept(k) ==
  /\ incoming = 0
  /\ Valid(k)
  /\ order' = Append(order, [side |-> k.side, symbol |-> k.symbol, price |-> k.price,
                             qty |-> k.qty, filled |-> 0, created |-> 0])
  /\ incoming' = Len(order) + 1
  /\ remaining' = k.qty
  /\ UNCHANGED <<book, trades, unmet>>

(* One iteration of the loop of matchBuy or matchSell, with maker m.       *)
Fill(m) ==
  LET q == MinQty(remaining, RemainingQty(m)) IN
  /\ trades' = Append(trades, Trade(incoming, m, q))
  /\ order' = [order EXCEPT ![m].filled = @ + q]
  /\ remaining' = remaining - q
  /\ book' = IF RemainingQty(m) = q THEN book \ {m} ELSE book
  /\ UNCHANGED <<incoming, unmet>>

MatchBest ==
  /\ incoming # 0
  /\ remaining > 0
  /\ \E m \in Best(Opposite(incoming)) : Crosses(incoming, m) /\ Fill(m)

(* The loop ends.  Match has not updated the order's FilledQty, so what is *)
(* inserted is its whole quantity.                                         *)
Insert ==
  /\ incoming # 0
  /\ \/ remaining = 0
     \/ Opposite(incoming) = {}
     \/ \E m \in Best(Opposite(incoming)) : ~Crosses(incoming, m)
  /\ book' = IF RemainingQty(incoming) > 0 THEN book \cup {incoming} ELSE book
  /\ unmet' = Append(unmet, remaining)
  /\ incoming' = 0
  /\ remaining' = 0
  /\ UNCHANGED <<order, trades>>

(* No more orders arrive.                                                  *)
Quiet == incoming = 0 /\ Len(order) = MaxOrders /\ UNCHANGED bookVars

Next ==
  \/ Len(order) < MaxOrders /\ \E k \in Kind : Accept(k)
  \/ MatchBest
  \/ Insert
  \/ Quiet

Spec == Init /\ [][Next]_bookVars
-------------------------------------------------------------------------------
(* Properties *)

(* The types of the variables.                                             *)
TypeOK ==
  /\ order \in Seq(Order)
  /\ book \subseteq DOMAIN order
  /\ incoming \in {0} \cup DOMAIN order
  /\ remaining \in Nat
  /\ trades \in Seq([buy : DOMAIN order, sell : DOMAIN order, price : Prices, qty : Int])
  /\ unmet \in Seq(Nat)

(* Nobody trades at a price worse than the limit: buyers pay at most, and  *)
(* sellers get at least, what they asked for, and it is the price of the   *)
(* order that was resting.                                                 *)
TradesWithinLimits ==
  \A t \in DOMAIN trades :
    LET buy == order[trades[t].buy]
        sell == order[trades[t].sell] IN
    /\ buy.side = "BUY" /\ sell.side = "SELL" /\ buy.symbol = sell.symbol
    /\ sell.price <= trades[t].price /\ trades[t].price <= buy.price
    /\ trades[t].price = order[IF trades[t].buy < trades[t].sell
                            THEN trades[t].buy ELSE trades[t].sell].price

(* No maker is filled beyond its quantity, an order rests exactly as long  *)
(* as its FilledQty leaves something, and no trade is of nothing: the loop *)
(* of Match always makes progress.                                         *)
MakersBounded ==
  /\ \A i \in DOMAIN order : 0 <= order[i].filled /\ order[i].filled <= order[i].qty
  /\ \A i \in DOMAIN order : (i \in book \/ i = incoming) <=> order[i].filled < order[i].qty
  /\ \A t \in DOMAIN trades : trades[t].qty > 0

(* What order i has bought or sold as the order that arrived, and as the   *)
(* order that rested: in a trade the later of the two is the one arriving. *)
Amounts == [t \in DOMAIN trades |-> trades[t].qty]
Traded(S) == SumFunctionOnSet(Amounts, S)
Taking(i) == {t \in DOMAIN trades : /\ i \in {trades[t].buy, trades[t].sell}
                                   /\ trades[t].buy <= i /\ trades[t].sell <= i}
Making(i) == {t \in DOMAIN trades : i \in {trades[t].buy, trades[t].sell}} \ Taking(i)

(* FilledQty counts exactly what was traded while resting; what was taken  *)
(* on arrival stays within the quantity but is not in FilledQty, so an     *)
(* order can trade up to twice its quantity and never more.                *)
FillsAccounted ==
  \A i \in DOMAIN order :
    /\ Traded(Making(i)) = order[i].filled
    /\ Traded(Taking(i)) = order[i].qty - (IF i = incoming THEN remaining ELSE unmet[i])

(* Resting orders that cross each other do so only because the later one   *)
(* was filled on arrival and inserted all the same: Match never overlooks  *)
(* a counterpart of an order that still needs one.                         *)
CrossedOnlyIfFilled ==
  \A m, n \in book : m < n /\ m \in Opposite(n) /\ Crosses(n, m) => unmet[n] = 0

(* A claim the code does not keep: "Remaining quantity stays in the order  *)
(* for the caller's heap insertion" (orderbook.go:24), so an order never   *)
(* trades more than its quantity.                                          *)
NoOverfill ==
  \A i \in DOMAIN order : Traded(Taking(i) \cup Making(i)) <= order[i].qty
================================================================================
