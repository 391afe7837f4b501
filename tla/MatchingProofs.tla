------------------------------ MODULE MatchingProofs ------------------------------
(***************************************************************************)
(* What the limit book guarantees for every set of symbols, prices and     *)
(* quantities and any number of orders; that the two heaps of the code     *)
(* implement it, whatever is pushed and popped; and what the engine does   *)
(* with it at the end of the pipeline, for any orders, payloads and number *)
(* of messages, failures, stops and crashes.                               *)
(***************************************************************************)
EXTENDS OrderPipeline, OrderBook, SequenceTheorems, Totals

OrdersValid == \A i \in DOMAIN order : Valid(order[i])

(* The order being matched is the latest one and does not rest yet.        *)
Arrival ==
  /\ incoming = 0 => Len(unmet) = Len(order)
  /\ incoming # 0 => /\ incoming = Len(order)
                     /\ Len(unmet) = Len(order) - 1
                     /\ incoming \notin book
                     /\ order[incoming].filled = 0

(* What rests has something left, and nothing is filled beyond its quantity.*)
Rests ==
  \A i \in DOMAIN order : /\ 0 <= order[i].filled /\ order[i].filled <= order[i].qty
                          /\ i \in book => order[i].filled < order[i].qty

(* No trade is of nothing.                                                 *)
Progress == \A t \in DOMAIN trades : trades[t].qty > 0

(* What the loss of the book in a crash leaves true, and all of it.        *)
KeptInv ==
  /\ TypeOK
  /\ OrdersValid
  /\ Arrival
  /\ Rests
  /\ TradesWithinLimits
  /\ CrossedOnlyIfFilled
  /\ FillsAccounted
  /\ Progress

BookInv == KeptInv /\ MakersBounded

TradeType == [buy : DOMAIN order, sell : DOMAIN order, price : Prices, qty : Int]

LEMMA OrderFields ==
  ASSUME TypeOK, NEW i \in DOMAIN order
  PROVE  /\ order[i] \in Order
         /\ order[i].price \in Int /\ order[i].qty \in Int /\ order[i].filled \in Int
<1>1. order[i] \in Order
  BY DEF TypeOK
<1>2. QED
  BY <1>1, BookAssumption DEF Order

LEMMA TradeFields ==
  ASSUME TypeOK, NEW t \in DOMAIN trades
  PROVE  /\ trades[t] \in TradeType
         /\ trades[t].buy \in DOMAIN order /\ trades[t].sell \in DOMAIN order
<1>1. trades \in Seq(TradeType)
  BY DEF TypeOK, TradeType
<1>2. trades[t] \in TradeType
  BY <1>1
<1>3. QED
  BY <1>2 DEF TradeType

LEMMA TradesOf ==
  ASSUME TypeOK
  PROVE  /\ Len(trades) \in Nat /\ DOMAIN trades = 1 .. Len(trades) /\ IsFiniteSet(DOMAIN trades)
         /\ DOMAIN order = 1 .. Len(order) /\ Len(order) \in Nat
         /\ \A t \in DOMAIN trades : /\ Amounts[t] \in Int /\ Amounts[t] = trades[t].qty
                                     /\ trades[t].buy \in DOMAIN order
                                     /\ trades[t].sell \in DOMAIN order
         /\ \A i : /\ Taking(i) \in SUBSET DOMAIN trades /\ IsFiniteSet(Taking(i))
                  /\ Making(i) \in SUBSET DOMAIN trades /\ IsFiniteSet(Making(i))
<1>1. /\ Len(trades) \in Nat /\ DOMAIN trades = 1 .. Len(trades)
      /\ DOMAIN order = 1 .. Len(order) /\ Len(order) \in Nat
  BY DEF TypeOK
<1>2. IsFiniteSet(DOMAIN trades)
  BY <1>1, FS_Interval
<1>3. \A t \in DOMAIN trades : trades[t] \in TradeType
  BY TradeFields
<1>4. \A i : Taking(i) \in SUBSET DOMAIN trades /\ Making(i) \in SUBSET DOMAIN trades
  BY DEF Taking, Making
<1>5. \A i : IsFiniteSet(Taking(i)) /\ IsFiniteSet(Making(i))
  BY <1>2, <1>4, FS_Subset
<1>6. QED
  BY <1>1, <1>2, <1>3, <1>4, <1>5 DEF Amounts, TradeType

(* A sum over trades made earlier does not change.                         *)
LEMMA TradedStays ==
  ASSUME NEW S, IsFiniteSet(S), \A t \in S : Amounts'[t] = Amounts[t]
  PROVE  SumFunctionOnSet(Amounts', S) = Traded(S)
BY SumAgree DEF Traded

(* The trades stay and no order is filled.                                 *)
LEMMA AccountFrame ==
  ASSUME FillsAccounted, UNCHANGED trades,
         DOMAIN order \subseteq DOMAIN order',
         \A i \in DOMAIN order :
           /\ order'[i].filled = order[i].filled /\ order'[i].qty = order[i].qty
           /\ (IF i = incoming' THEN remaining' ELSE unmet'[i])
                = (IF i = incoming THEN remaining ELSE unmet[i]),
         \A i \in DOMAIN order' \ DOMAIN order :
           /\ Taking(i) = {} /\ Making(i) = {} /\ i = incoming'
           /\ order'[i].filled = 0 /\ order'[i].qty = remaining' /\ remaining' \in Int
  PROVE  FillsAccounted'
<1>1. \A i : Traded(Taking(i))' = Traded(Taking(i)) /\ Traded(Making(i))' = Traded(Making(i))
  BY DEF Traded, Amounts, Taking, Making
<1>2. Traded({}) = 0
  BY SumEmpty DEF Traded
<1>3. ASSUME NEW i \in DOMAIN order'
      PROVE  /\ Traded(Making(i))' = order'[i].filled
             /\ Traded(Taking(i))' = order'[i].qty - (IF i = incoming' THEN remaining' ELSE unmet'[i])
  <2>1. CASE i \in DOMAIN order
    BY <1>1, <2>1 DEF FillsAccounted
  <2>2. CASE i \notin DOMAIN order
    BY <1>1, <1>2, <2>2
  <2>3. QED
    BY <2>1, <2>2
<1>4. QED
  BY <1>3 DEF FillsAccounted

(* A trade of q between the incoming order and the maker m.                *)
LEMMA AccountFill ==
  ASSUME TypeOK, TypeOK', FillsAccounted, NEW m \in DOMAIN order, NEW q \in Nat,
         incoming \in DOMAIN order, m < incoming,
         UNCHANGED <<incoming, unmet>>, remaining' = remaining - q, DOMAIN order' = DOMAIN order,
         DOMAIN trades' = DOMAIN trades \cup {Len(trades) + 1},
         \A s \in DOMAIN trades : trades'[s] = trades[s],
         trades'[Len(trades) + 1].qty = q,
         {trades'[Len(trades) + 1].buy, trades'[Len(trades) + 1].sell} = {incoming, m},
         order'[m].filled = order[m].filled + q,
         \A i \in DOMAIN order : i # m => order'[i].filled = order[i].filled,
         \A i \in DOMAIN order : order'[i].qty = order[i].qty
  PROVE  FillsAccounted'
<1> DEFINE t == Len(trades) + 1
           new == trades'[t]
<1>1. /\ t \notin DOMAIN trades /\ DOMAIN trades' = DOMAIN trades \cup {t}
      /\ incoming \in Int /\ m \in Int /\ incoming # m
      /\ DOMAIN order \subseteq Int /\ order[m].filled \in Int
      /\ \A i \in DOMAIN order : order[i].qty \in Int /\ order[i].filled \in Int
      /\ remaining \in Int
  BY TradesOf, OrderFields DEF TypeOK
<1>2. {new.buy, new.sell} = {incoming, m} /\ new.qty = q
  OBVIOUS
<1> HIDE DEF t, new
<1>3. Amounts'[t] = q /\ \A s \in DOMAIN trades : Amounts'[s] = Amounts[s]
  BY <1>1, <1>2 DEF Amounts, new
<1>4. ASSUME NEW i \in DOMAIN order
      PROVE  /\ Taking(i)' = IF i = incoming THEN Taking(i) \cup {t} ELSE Taking(i)
             /\ Making(i)' = IF i = m THEN Making(i) \cup {t} ELSE Making(i)
  <2>1. i \in Int
    BY <1>1
  <2>2. (i \in {new.buy, new.sell} /\ new.buy <= i /\ new.sell <= i) <=> i = incoming
    <3>1. (new.buy = incoming /\ new.sell = m) \/ (new.buy = m /\ new.sell = incoming)
      BY <1>2
    <3>2. QED
      BY <1>1, <2>1, <3>1
  <2>3. i \in {new.buy, new.sell} <=> i = incoming \/ i = m
    BY <1>2
  <2>4. Taking(i)' = IF i = incoming THEN Taking(i) \cup {t} ELSE Taking(i)
    BY <1>1, <2>2 DEF Taking, new
  <2>5. {s \in DOMAIN trades' : i \in {trades'[s].buy, trades'[s].sell}}
          = {s \in DOMAIN trades : i \in {trades[s].buy, trades[s].sell}}
            \cup (IF i = incoming \/ i = m THEN {t} ELSE {})
    BY <1>1, <2>3 DEF new
  <2>6. Making(i)' = IF i = m THEN Making(i) \cup {t} ELSE Making(i)
    BY <1>1, <2>4, <2>5 DEF Making, Taking
  <2>7. QED
    BY <2>4, <2>6
<1>5. ASSUME NEW S \in SUBSET DOMAIN trades
      PROVE  /\ SumFunctionOnSet(Amounts', S) = Traded(S) /\ Traded(S) \in Int
             /\ SumFunctionOnSet(Amounts', S \cup {t}) = Traded(S) + q
  <2>1. /\ IsFiniteSet(S) /\ \A s \in S : Amounts[s] \in Int /\ Amounts'[s] = Amounts[s]
        /\ t \notin S
    BY <1>1, <1>3, TradesOf, FS_Subset
  <2>2. SumFunctionOnSet(Amounts', S) = Traded(S)
    BY <2>1, TradedStays
  <2>3. SumFunctionOnSet(Amounts', S \cup {t}) = SumFunctionOnSet(Amounts', S) + Amounts'[t]
    <3>1. Amounts'[t] \in Int /\ \A s \in S : Amounts'[s] \in Int
      BY <1>3, <2>1
    <3>2. QED
      BY <2>1, <3>1, SumAdd
  <2>4. Traded(S) \in Int
    BY <2>1, SumType DEF Traded
  <2>5. QED
    BY <1>3, <2>2, <2>3, <2>4
<1>6. ASSUME NEW i \in DOMAIN order
      PROVE  /\ Traded(Making(i))' = order'[i].filled
             /\ Traded(Taking(i))' = order'[i].qty - (IF i = incoming' THEN remaining' ELSE unmet'[i])
  <2>1. Taking(i) \in SUBSET DOMAIN trades /\ Making(i) \in SUBSET DOMAIN trades
    BY TradesOf
  <2>2. /\ Traded(Making(i)) = order[i].filled
        /\ Traded(Taking(i)) = order[i].qty - (IF i = incoming THEN remaining ELSE unmet[i])
    BY DEF FillsAccounted
  <2>3. /\ Traded(Making(i))' = SumFunctionOnSet(Amounts', Making(i)')
        /\ Traded(Taking(i))' = SumFunctionOnSet(Amounts', Taking(i)')
    BY DEF Traded
  <2>4. CASE i = m
    <3>1. Traded(Making(i))' = order[i].filled + q /\ Traded(Taking(i))' = Traded(Taking(i))
      BY <1>1, <1>4, <1>5, <2>1, <2>2, <2>3, <2>4
    <3>2. QED
      BY <1>1, <2>2, <2>4, <3>1
  <2>5. CASE i = incoming
    <3>1. Traded(Making(i))' = order[i].filled
      BY <1>1, <1>4, <1>5, <2>1, <2>2, <2>3, <2>5
    <3>2. Traded(Taking(i))' = (order[i].qty - remaining) + q
      BY <1>1, <1>4, <1>5, <2>1, <2>2, <2>3, <2>5
    <3>3. (order[i].qty - remaining) + q = order[i].qty - (remaining - q)
      BY <1>1
    <3>4. QED
      BY <1>1, <2>5, <3>1, <3>2, <3>3
  <2>6. CASE i # m /\ i # incoming
    BY <1>4, <1>5, <2>1, <2>2, <2>3, <2>6
  <2>7. QED
    BY <2>4, <2>5, <2>6
<1>7. QED
  BY <1>6 DEF FillsAccounted

(* What Accept does to the orders.                                         *)
LEMMA AcceptOrders ==
  ASSUME TypeOK, NEW k \in Kind, Accept(k)
  PROVE  LET n == Len(order) + 1 IN
         /\ order' \in Seq(Order) /\ Len(order') = n
         /\ \A i \in DOMAIN order : order'[i] = order[i]
         /\ order'[n] \in Order /\ order'[n].filled = 0 /\ order'[n].qty = k.qty
         /\ Valid(order'[n])
<1> DEFINE new == [side |-> k.side, symbol |-> k.symbol, price |-> k.price, qty |-> k.qty,
                   filled |-> 0, created |-> 0]
<1>1. order' = Append(order, new)
  BY DEF Accept
<1>2. Len(order) \in Nat
  BY DEF TypeOK
<1>3. new \in Order
  BY <1>2 DEF Kind, Order
<1>4. Valid(new)
  BY DEF Accept, Valid
<1>5. new.filled = 0 /\ new.qty = k.qty
  OBVIOUS
<1> HIDE DEF new
<1>6. QED
  BY <1>1, <1>3, <1>4, <1>5, AppendProperties, SMTT(30) DEF TypeOK

(* What Fill does to the orders: it changes the FilledQty of the maker.    *)
LEMMA FillOrders ==
  ASSUME TypeOK, Arrival, Rests, NEW m \in Opposite(incoming), incoming # 0, remaining > 0, Fill(m)
  PROVE  LET q == MinQty(remaining, RemainingQty(m)) IN
         /\ m \in book /\ m \in DOMAIN order /\ m < incoming
         /\ incoming \in DOMAIN order
         /\ q \in Nat /\ q > 0 /\ q <= remaining /\ order[m].filled + q <= order[m].qty
         /\ order' \in Seq(Order) /\ Len(order') = Len(order)
         /\ \A i \in DOMAIN order : i # m => order'[i] = order[i]
         /\ \A i \in DOMAIN order : /\ order'[i].side = order[i].side
                                    /\ order'[i].symbol = order[i].symbol
                                    /\ order'[i].price = order[i].price
                                    /\ order'[i].qty = order[i].qty
         /\ order'[m].filled = order[m].filled + q
<1> DEFINE q == MinQty(remaining, RemainingQty(m))
           new == [order[m] EXCEPT !.filled = @ + q]
<1>1. m \in book /\ m \in DOMAIN order
  BY DEF Opposite, TypeOK
<1>2. /\ order \in Seq(Order) /\ order[m] \in Order
      /\ Len(order) \in Nat /\ DOMAIN order = 1 .. Len(order)
  BY <1>1 DEF TypeOK
<1>3. incoming \in DOMAIN order /\ m < incoming
  BY <1>1, <1>2 DEF TypeOK, Arrival
<1>4. /\ order[m].filled \in Int /\ order[m].qty \in Int
      /\ 0 <= order[m].filled /\ order[m].filled < order[m].qty
  BY <1>1, <1>2, BookAssumption DEF Rests, Order
<1>5. q \in Nat /\ q > 0 /\ q <= remaining /\ order[m].filled + q <= order[m].qty
  <2>1. remaining \in Nat /\ RemainingQty(m) \in Nat /\ RemainingQty(m) > 0
    BY <1>4 DEF TypeOK, RemainingQty
  <2>2. q \in Nat /\ q > 0 /\ q <= remaining /\ q <= RemainingQty(m)
    BY <2>1 DEF MinQty
  <2> HIDE DEF q
  <2>3. QED
    BY <1>4, <2>2 DEF RemainingQty
<1>6. order' = [order EXCEPT ![m] = new]
  BY DEF Fill
<1>7. /\ new \in Order /\ new.filled = order[m].filled + q
      /\ new.side = order[m].side /\ new.symbol = order[m].symbol
      /\ new.price = order[m].price /\ new.qty = order[m].qty
  <2> HIDE DEF q
  <2>1. order[m].filled + q \in Int
    BY <1>4, <1>5
  <2>2. QED
    BY <1>2, <2>1 DEF Order
<1> HIDE DEF new, q
<1>8. /\ order' \in Seq(Order) /\ Len(order') = Len(order)
      /\ \A i \in 1 .. Len(order) : order'[i] = IF i = m THEN new ELSE order[i]
  BY <1>1, <1>2, <1>6, <1>7, ExceptSeq
<1>9. QED
  BY <1>1, <1>2, <1>3, <1>5, <1>7, <1>8 DEF q

LEMMA BookInvInit == Init => BookInv
BY DEF Init, BookInv, KeptInv, TypeOK, OrdersValid, Arrival, Rests, MakersBounded,
       TradesWithinLimits, CrossedOnlyIfFilled, FillsAccounted, Progress

LEMMA KeptAccept ==
  ASSUME KeptInv, NEW k \in Kind, Accept(k)
  PROVE  KeptInv' /\ Len(order') = Len(order) + 1 /\ trades' = trades /\ incoming' # 0
<1> DEFINE n == Len(order) + 1
<1>1. TypeOK
  BY DEF KeptInv
<1>2. /\ order' \in Seq(Order) /\ Len(order') = n
      /\ \A i \in DOMAIN order : order'[i] = order[i]
      /\ order'[n] \in Order /\ order'[n].filled = 0 /\ order'[n].qty = k.qty
      /\ Valid(order'[n])
  BY <1>1, AcceptOrders
<1>3. /\ Len(order) \in Nat /\ DOMAIN order = 1 .. Len(order)
      /\ DOMAIN order' = DOMAIN order \cup {n} /\ n \notin DOMAIN order
  BY <1>1, <1>2 DEF TypeOK
<1>4. /\ incoming = 0 /\ incoming' = n /\ remaining' = k.qty
      /\ book' = book /\ trades' = trades /\ unmet' = unmet
  BY DEF Accept
<1>5. k.qty \in Int /\ k.qty > 0
  BY BookAssumption DEF Accept, Valid, Kind
<1> HIDE DEF n
<1>6. TypeOK'
  <2>1. trades \in Seq(TradeType')
    <3>1. trades \in Seq(TradeType) /\ TradeType \subseteq TradeType'
      BY <1>1, <1>3 DEF TypeOK, TradeType
    <3>2. \A t \in 1 .. Len(trades) : trades[t] \in TradeType'
      BY <3>1, <1>1 DEF TypeOK
    <3>3. QED
      BY <3>1, <3>2
  <2>2. QED
    BY <1>1, <1>2, <1>3, <1>4, <1>5, <2>1 DEF TypeOK, TradeType
<1>7. OrdersValid'
  BY <1>2, <1>3 DEF KeptInv, OrdersValid, Valid
<1>8. Arrival'
  BY <1>1, <1>2, <1>3, <1>4 DEF KeptInv, TypeOK, Arrival, n
<1>9. Rests'
  BY <1>1, <1>2, <1>3, <1>4, <1>5 DEF KeptInv, TypeOK, Rests
<1>10. TradesWithinLimits'
  <2>1. \A t \in DOMAIN trades : trades[t].buy \in DOMAIN order /\ trades[t].sell \in DOMAIN order
    BY <1>1, TradeFields
  <2>2. QED
    BY <1>2, <1>4, <2>1 DEF KeptInv, TradesWithinLimits
<1>11. CrossedOnlyIfFilled'
  <2> SUFFICES ASSUME NEW m \in book, NEW o \in book, m < o,
                      (m \in Opposite(o))', Crosses(o, m)'
               PROVE  unmet[o] = 0
    BY <1>4 DEF CrossedOnlyIfFilled
  <2>1. order'[m] = order[m] /\ order'[o] = order[o]
    BY <1>1, <1>2 DEF TypeOK
  <2>2. m \in Opposite(o) /\ Crosses(o, m)
    BY <2>1 DEF Opposite, Crosses
  <2>3. QED
    BY <2>2 DEF KeptInv, CrossedOnlyIfFilled
<1>12. FillsAccounted'
  <2>1. Taking(n) = {} /\ Making(n) = {}
    BY <1>1, <1>3, TradesOf DEF Taking, Making
  <2>2. incoming \notin DOMAIN order /\ n = incoming'
    BY <1>3, <1>4
  <2>3. /\ \A i \in DOMAIN order : order'[i].filled = order[i].filled /\ order'[i].qty = order[i].qty
        /\ \A i \in DOMAIN order : i # incoming /\ i # incoming' /\ unmet'[i] = unmet[i]
    BY <1>2, <1>3, <1>4, <2>2
  <2>4. remaining' \in Int /\ order'[n].filled = 0 /\ order'[n].qty = remaining'
    BY <1>2, <1>4, <1>5
  <2>5. FillsAccounted /\ UNCHANGED trades /\ DOMAIN order \subseteq DOMAIN order'
    BY <1>3, <1>4 DEF KeptInv
  <2>6. \A i \in DOMAIN order' \ DOMAIN order : i = n
    BY <1>3
  <2>7. QED
    BY <2>1, <2>2, <2>3, <2>4, <2>5, <2>6, AccountFrame
<1>13. Len(order') = Len(order) + 1 /\ incoming' # 0
  BY <1>2, <1>3, <1>4 DEF n
<1>14. Progress'
  BY <1>4 DEF KeptInv, Progress
<1>15. QED
  BY <1>4, <1>6, <1>7, <1>8, <1>9, <1>10, <1>11, <1>12, <1>13, <1>14 DEF KeptInv

LEMMA BookInvAccept ==
  ASSUME BookInv, NEW k \in Kind, Accept(k)
  PROVE  BookInv'
<1> DEFINE n == Len(order) + 1
<1>1. KeptInv /\ KeptInv' /\ MakersBounded /\ TypeOK
  BY KeptAccept DEF BookInv, KeptInv
<1>2. /\ Len(order') = n /\ order' \in Seq(Order)
      /\ \A i \in DOMAIN order : order'[i] = order[i]
      /\ order'[n].filled = 0 /\ order'[n].qty = k.qty
  BY <1>1, AcceptOrders
<1>3. /\ DOMAIN order' = DOMAIN order \cup {n} /\ n \notin DOMAIN order
  BY <1>1, <1>2 DEF TypeOK
<1>4. /\ incoming = 0 /\ incoming' = n /\ book' = book /\ trades' = trades
  BY DEF Accept
<1>5. k.qty \in Int /\ k.qty > 0
  BY BookAssumption DEF Accept, Valid, Kind
<1> HIDE DEF n
<1>6. MakersBounded'
  BY <1>1, <1>2, <1>3, <1>4, <1>5 DEF TypeOK, MakersBounded
<1>7. QED
  BY <1>1, <1>6 DEF BookInv

LEMMA KeptFill ==
  ASSUME KeptInv, NEW m \in Opposite(incoming), incoming # 0, remaining > 0,
         Crosses(incoming, m), Fill(m)
  PROVE  KeptInv' /\ Len(trades') = Len(trades) + 1
<1> DEFINE q == MinQty(remaining, RemainingQty(m))
           t == Trade(incoming, m, q)
<1>1. /\ TypeOK /\ order \in Seq(Order) /\ Len(order) \in Nat
      /\ DOMAIN order = 1 .. Len(order)
  BY DEF KeptInv, TypeOK
<1>2. /\ m \in book /\ m \in DOMAIN order /\ m < incoming
      /\ incoming \in DOMAIN order
      /\ q \in Nat /\ q > 0 /\ q <= remaining /\ order[m].filled + q <= order[m].qty
      /\ order' \in Seq(Order) /\ Len(order') = Len(order)
      /\ \A i \in DOMAIN order : i # m => order'[i] = order[i]
      /\ \A i \in DOMAIN order : /\ order'[i].side = order[i].side
                                 /\ order'[i].symbol = order[i].symbol
                                 /\ order'[i].price = order[i].price
                                 /\ order'[i].qty = order[i].qty
      /\ order'[m].filled = order[m].filled + q
  BY FillOrders DEF KeptInv
<1>3. /\ remaining' = remaining - q /\ incoming' = incoming /\ unmet' = unmet
      /\ trades' = Append(trades, t)
      /\ book' = IF RemainingQty(m) = q THEN book \ {m} ELSE book
  BY DEF Fill
<1>4. DOMAIN order' = DOMAIN order /\ remaining \in Nat /\ book \subseteq DOMAIN order
  BY <1>1, <1>2 DEF TypeOK
<1>5. /\ order[m].side # order[incoming].side /\ order[m].symbol = order[incoming].symbol
      /\ order[m].side \in {"BUY", "SELL"} /\ order[incoming].side \in {"BUY", "SELL"}
  BY <1>2 DEF Opposite, KeptInv, OrdersValid, Valid
<1>6. /\ order[m] \in Order /\ order[incoming] \in Order
      /\ order[m].price \in Int /\ order[incoming].price \in Int
      /\ order[m].qty \in Int /\ order[m].filled \in Int /\ 0 <= order[m].filled
  BY <1>1, <1>2, OrderFields DEF KeptInv, Rests
<1>7. /\ t \in TradeType /\ t.qty = q
      /\ order[t.buy].side = "BUY" /\ order[t.sell].side = "SELL"
      /\ order[t.buy].symbol = order[t.sell].symbol
      /\ order[t.sell].price <= t.price /\ t.price <= order[t.buy].price
      /\ t.price = order[IF t.buy < t.sell THEN t.buy ELSE t.sell].price
  <2> HIDE DEF q
  <2>0. order[m].price \in Prices
    BY <1>6 DEF Order
  <2>1. CASE order[incoming].side = "BUY"
    <3>1. t = [buy |-> incoming, sell |-> m, price |-> order[m].price, qty |-> q]
      BY <2>1 DEF Trade
    <3>2. order[m].price <= order[incoming].price
      BY <1>6, <2>1 DEF Crosses
    <3> HIDE DEF t
    <3>3. QED
      BY <1>1, <1>2, <1>5, <1>6, <2>0, <2>1, <3>1, <3>2 DEF TradeType
  <2>2. CASE order[incoming].side = "SELL"
    <3>1. t = [buy |-> m, sell |-> incoming, price |-> order[m].price, qty |-> q]
      BY <2>2 DEF Trade
    <3>2. order[incoming].price <= order[m].price
      BY <1>6, <2>2 DEF Crosses
    <3> HIDE DEF t
    <3>3. QED
      BY <1>1, <1>2, <1>5, <1>6, <2>0, <2>2, <3>1, <3>2 DEF TradeType
  <2>3. QED
    BY <1>5, <2>1, <2>2
<1> HIDE DEF t
<1>8. /\ trades \in Seq(TradeType) /\ trades' \in Seq(TradeType)
      /\ Len(trades') = Len(trades) + 1 /\ trades'[Len(trades) + 1] = t
      /\ \A s \in DOMAIN trades : trades'[s] = trades[s]
      /\ DOMAIN trades' = DOMAIN trades \cup {Len(trades) + 1}
      /\ \A s \in DOMAIN trades : trades[s] \in TradeType
  <2>1. trades \in Seq(TradeType)
    BY <1>1 DEF TypeOK, TradeType
  <2>2. t \in TradeType /\ trades' = Append(trades, t)
    BY <1>3, <1>7
  <2>3. /\ trades' \in Seq(TradeType) /\ Len(trades') = Len(trades) + 1
        /\ \A s \in 1 .. Len(trades) : trades'[s] = trades[s]
        /\ trades'[Len(trades) + 1] = t
    BY <2>1, <2>2, AppendProperties
  <2>4. QED
    BY <1>1, <2>1, <2>3, TradeFields, SMTT(30)
<1> HIDE DEF q
<1>9. TypeOK'
  BY <1>1, <1>2, <1>3, <1>4, <1>8 DEF TypeOK, TradeType
<1>10. OrdersValid'
  BY <1>2, <1>4 DEF KeptInv, OrdersValid, Valid
<1>11. Arrival'
  BY <1>1, <1>2, <1>3 DEF KeptInv, Arrival
<1>12. Rests'
  <2> SUFFICES ASSUME NEW i \in DOMAIN order
               PROVE  /\ 0 <= order'[i].filled /\ order'[i].filled <= order'[i].qty
                      /\ i \in book' => order'[i].filled < order'[i].qty
    BY <1>4 DEF Rests
  <2>1. CASE i = m
    <3>1. order'[m].filled = order[m].filled + q /\ order'[m].qty = order[m].qty
      BY <1>2
    <3>2. m \in book' => order[m].qty - order[m].filled # q
      BY <1>3 DEF RemainingQty
    <3>3. QED
      BY <1>2, <1>6, <2>1, <3>1, <3>2
  <2>2. CASE i # m
    BY <1>2, <1>3, <1>4, <2>2 DEF KeptInv, Rests
  <2>3. QED
    BY <2>1, <2>2
<1>13. TradesWithinLimits'
  <2>1. \A s \in DOMAIN trades : trades[s].buy \in DOMAIN order /\ trades[s].sell \in DOMAIN order
    BY <1>8 DEF TradeType
  <2>2. t.buy \in DOMAIN order /\ t.sell \in DOMAIN order
    BY <1>7 DEF TradeType
  <2>3. ASSUME NEW s \in DOMAIN trades'
        PROVE  LET buy == order[trades'[s].buy]
                   sell == order[trades'[s].sell] IN
               /\ trades'[s].buy \in DOMAIN order /\ trades'[s].sell \in DOMAIN order
               /\ buy.side = "BUY" /\ sell.side = "SELL" /\ buy.symbol = sell.symbol
               /\ sell.price <= trades'[s].price /\ trades'[s].price <= buy.price
               /\ trades'[s].price = order[IF trades'[s].buy < trades'[s].sell
                                            THEN trades'[s].buy ELSE trades'[s].sell].price
    <3>1. CASE s \in DOMAIN trades
      BY <1>8, <2>1, <3>1 DEF KeptInv, TradesWithinLimits
    <3>2. CASE s = Len(trades) + 1
      BY <1>7, <1>8, <2>2, <3>2
    <3>3. QED
      BY <1>8, <3>1, <3>2
  <2>4. QED
    BY <1>2, <2>3, SMTT(30) DEF TradesWithinLimits
<1>14. CrossedOnlyIfFilled'
  <2> SUFFICES ASSUME NEW a \in book', NEW b \in book', a < b,
                      (a \in Opposite(b))', Crosses(b, a)'
               PROVE  unmet[b] = 0
    BY <1>3 DEF CrossedOnlyIfFilled
  <2>1. a \in book /\ b \in book /\ a \in DOMAIN order /\ b \in DOMAIN order
    BY <1>3, <1>4
  <2>2. a \in Opposite(b) /\ Crosses(b, a)
    BY <1>2, <2>1 DEF Opposite, Crosses
  <2>3. QED
    BY <2>1, <2>2 DEF KeptInv, CrossedOnlyIfFilled
<1>15. FillsAccounted'
  <2>1. {t.buy, t.sell} = {incoming, m}
    BY DEF t, Trade
  <2>2. \A i \in DOMAIN order : i # m => order'[i].filled = order[i].filled
    BY <1>2
  <2>3. QED
    BY <1>1, <1>2, <1>3, <1>4, <1>7, <1>8, <1>9, <2>1, <2>2, AccountFill DEF KeptInv
<1>16. Progress'
  BY <1>2, <1>7, <1>8 DEF KeptInv, Progress
<1>17. QED
  BY <1>8, <1>9, <1>10, <1>11, <1>12, <1>13, <1>14, <1>15, <1>16 DEF KeptInv

LEMMA BookInvFill ==
  ASSUME BookInv, NEW m \in Opposite(incoming), incoming # 0, remaining > 0,
         Crosses(incoming, m), Fill(m)
  PROVE  BookInv'
<1> DEFINE q == MinQty(remaining, RemainingQty(m))
<1>1. /\ KeptInv /\ KeptInv' /\ MakersBounded /\ TypeOK /\ TypeOK'
  BY KeptFill DEF BookInv, KeptInv
<1>2. /\ m \in DOMAIN order /\ m < incoming /\ incoming \in DOMAIN order
      /\ q \in Nat /\ order[m].filled + q <= order[m].qty
      /\ order' \in Seq(Order) /\ Len(order') = Len(order)
      /\ \A i \in DOMAIN order : i # m => order'[i] = order[i]
      /\ order'[m].filled = order[m].filled + q /\ order'[m].qty = order[m].qty
      /\ m \in book
  BY <1>1, FillOrders DEF KeptInv
<1>3. /\ incoming' = incoming
      /\ book' = IF RemainingQty(m) = q THEN book \ {m} ELSE book
  BY DEF Fill
<1>4. DOMAIN order' = DOMAIN order
  BY <1>1, <1>2 DEF TypeOK
<1>5. order[m].qty \in Int /\ order[m].filled \in Int /\ m # incoming
  BY <1>1, <1>2, OrderFields DEF TypeOK
<1> HIDE DEF q
<1>6. \A i \in DOMAIN order' : 0 <= order'[i].filled /\ order'[i].filled <= order'[i].qty
  BY <1>1 DEF KeptInv, Rests
<1>7. ASSUME NEW i \in DOMAIN order'
      PROVE  (i \in book' \/ i = incoming') <=> order'[i].filled < order'[i].qty
  <2>1. CASE i = m
    <3>1. m \in book' <=> order[m].qty - order[m].filled # q
      BY <1>2, <1>3 DEF RemainingQty
    <3>2. order'[m].filled < order'[m].qty <=> order[m].qty - order[m].filled # q
      BY <1>2, <1>5
    <3>3. QED
      BY <1>3, <1>5, <2>1, <3>1, <3>2
  <2>2. CASE i # m
    BY <1>1, <1>2, <1>3, <1>4, <2>2 DEF MakersBounded
  <2>3. QED
    BY <2>1, <2>2
<1>8. \A s \in DOMAIN trades' : trades'[s].qty > 0
  BY <1>1 DEF KeptInv, Progress
<1>9. MakersBounded'
  BY <1>6, <1>7, <1>8 DEF MakersBounded
<1>10. QED
  BY <1>1, <1>9 DEF BookInv

(* If the best order of the other side does not cross, none does.          *)
LEMMA BestDecides ==
  ASSUME KeptInv, incoming # 0, NEW b \in Best(Opposite(incoming)), ~Crosses(incoming, b),
         NEW m \in Opposite(incoming)
  PROVE  ~Crosses(incoming, m)
<1>1. /\ b \in DOMAIN order /\ m \in DOMAIN order /\ incoming \in DOMAIN order
      /\ order[b].side # order[incoming].side /\ order[m].side # order[incoming].side
      /\ ~Less(m, b)
  BY DEF KeptInv, TypeOK, Best, Opposite
<1>2. /\ order[b].price \in Int /\ order[m].price \in Int /\ order[incoming].price \in Int
      /\ order[b].side \in {"BUY", "SELL"} /\ order[m].side \in {"BUY", "SELL"}
      /\ order[incoming].side \in {"BUY", "SELL"}
  BY <1>1, OrderFields DEF KeptInv, OrdersValid, Valid
<1>3. QED
  BY <1>1, <1>2 DEF Less, Crosses

LEMMA KeptInsert == KeptInv /\ Insert => KeptInv'
<1> SUFFICES ASSUME KeptInv, Insert PROVE KeptInv'
  OBVIOUS
<1>1. /\ TypeOK /\ Len(order) \in Nat /\ DOMAIN order = 1 .. Len(order)
      /\ Len(unmet) \in Nat /\ DOMAIN unmet = 1 .. Len(unmet)
  BY DEF KeptInv, TypeOK
<1>2. /\ incoming \in DOMAIN order /\ incoming = Len(order) /\ Len(unmet) = incoming - 1
      /\ incoming \notin book /\ order[incoming].filled = 0
  BY DEF Insert, KeptInv, TypeOK, Arrival
<1>3. order[incoming].qty \in Int /\ order[incoming].qty > 0
  BY <1>1, <1>2, OrderFields DEF KeptInv, OrdersValid, Valid
<1>4. /\ book' = book \cup {incoming} /\ incoming' = 0 /\ remaining' = 0
      /\ order' = order /\ trades' = trades /\ unmet' = Append(unmet, remaining)
  BY <1>2, <1>3 DEF Insert, RemainingQty
<1>5. /\ unmet' \in Seq(Nat) /\ Len(unmet') = incoming /\ unmet'[incoming] = remaining
      /\ \A i \in DOMAIN unmet : unmet'[i] = unmet[i]
  <2>1. unmet \in Seq(Nat) /\ remaining \in Nat /\ Len(unmet) + 1 = incoming
    BY <1>1, <1>2 DEF TypeOK
  <2>2. /\ unmet' \in Seq(Nat) /\ Len(unmet') = Len(unmet) + 1
        /\ unmet'[Len(unmet) + 1] = remaining
        /\ \A i \in 1 .. Len(unmet) : unmet'[i] = unmet[i]
    BY <1>4, <2>1, AppendProperties
  <2>3. QED
    BY <1>1, <2>1, <2>2
<1>6. TypeOK'
  BY <1>1, <1>2, <1>4, <1>5 DEF TypeOK
<1>7. OrdersValid' /\ TradesWithinLimits' /\ Progress'
  BY <1>4 DEF KeptInv, OrdersValid, TradesWithinLimits, Valid, Progress
<1>8. Arrival'
  BY <1>2, <1>4, <1>5 DEF Arrival
<1>9. Rests'
  BY <1>1, <1>2, <1>3, <1>4 DEF KeptInv, Rests
<1>10. CrossedOnlyIfFilled'
  <2> SUFFICES ASSUME NEW m \in book', NEW n \in book', m < n,
                      (m \in Opposite(n))', Crosses(n, m)'
               PROVE  unmet'[n] = 0
    BY DEF CrossedOnlyIfFilled
  <2>1. /\ order[m].side # order[n].side /\ order[m].symbol = order[n].symbol
        /\ Crosses(n, m)
    BY <1>4 DEF Opposite, Crosses
  <2>2. m \in book
    BY <1>1, <1>2, <1>4 DEF TypeOK
  <2>3. CASE n = incoming
    <3>1. m \in Opposite(incoming) /\ Crosses(incoming, m)
      BY <2>1, <2>2, <2>3 DEF Opposite
    <3>2. remaining = 0
      BY <3>1, BestDecides DEF Insert
    <3>3. QED
      BY <1>5, <2>3, <3>2
  <2>4. CASE n # incoming
    <3>1. n \in book /\ n \in DOMAIN unmet
      BY <1>1, <1>2, <1>4, <2>4 DEF TypeOK
    <3>2. m \in Opposite(n)
      BY <2>1, <2>2 DEF Opposite
    <3>3. QED
      BY <1>5, <2>1, <2>2, <3>1, <3>2 DEF KeptInv, CrossedOnlyIfFilled
  <2>5. QED
    BY <2>3, <2>4
<1>11. FillsAccounted'
  <2>1. \A i \in DOMAIN order : i # incoming => i \in DOMAIN unmet
    BY <1>1, <1>2
  <2>2. \A i \in DOMAIN order : (IF i = incoming' THEN remaining' ELSE unmet'[i])
                                  = (IF i = incoming THEN remaining ELSE unmet[i])
    BY <1>1, <1>2, <1>4, <1>5, <2>1
  <2>3. QED
    BY <1>4, <2>2, AccountFrame DEF KeptInv
<1>12. QED
  BY <1>6, <1>7, <1>8, <1>9, <1>10, <1>11 DEF KeptInv

LEMMA BookInvInsert == BookInv /\ Insert => BookInv'
<1> SUFFICES ASSUME BookInv, Insert PROVE BookInv'
  OBVIOUS
<1>1. KeptInv /\ KeptInv' /\ MakersBounded
  BY KeptInsert DEF BookInv
<1>2. incoming \in DOMAIN order /\ order[incoming].filled = 0 /\ incoming' = 0 /\ 0 \notin DOMAIN order
  BY <1>1 DEF Insert, KeptInv, TypeOK, Arrival
<1>3. order[incoming].qty \in Int /\ order[incoming].qty > 0
  BY <1>1, <1>2, OrderFields DEF KeptInv, OrdersValid, Valid
<1>4. book' = book \cup {incoming} /\ UNCHANGED <<order, trades>>
  BY <1>2, <1>3 DEF Insert, RemainingQty
<1>5. MakersBounded'
  BY <1>1, <1>2, <1>4 DEF MakersBounded
<1>6. QED
  BY <1>1, <1>5 DEF BookInv

(* A crash or a shutdown loses the resting orders.                         *)
LEMMA KeptForget == KeptInv /\ ForgetBook => KeptInv'
<1> SUFFICES ASSUME KeptInv, ForgetBook PROVE KeptInv'
  OBVIOUS
<1>1. /\ book' = {} /\ incoming' = 0 /\ remaining' = 0 /\ UNCHANGED <<order, trades>>
      /\ unmet' = IF incoming = 0 THEN unmet ELSE Append(unmet, remaining)
  BY DEF ForgetBook
<1>2. /\ TypeOK /\ Len(order) \in Nat /\ DOMAIN order = 1 .. Len(order)
      /\ unmet \in Seq(Nat) /\ remaining \in Nat
      /\ Len(unmet) \in Nat /\ DOMAIN unmet = 1 .. Len(unmet)
  BY DEF KeptInv, TypeOK
<1>3. /\ unmet' \in Seq(Nat) /\ Len(unmet') = Len(order)
      /\ \A i \in DOMAIN order : unmet'[i] = IF i = incoming THEN remaining ELSE unmet[i]
  <2>1. CASE incoming = 0
    BY <1>1, <1>2, <2>1 DEF KeptInv, Arrival
  <2>2. CASE incoming # 0
    <3>1. incoming = Len(order) /\ Len(unmet) + 1 = incoming /\ unmet' = Append(unmet, remaining)
      BY <1>1, <1>2, <2>2 DEF KeptInv, Arrival
    <3>2. /\ unmet' \in Seq(Nat) /\ Len(unmet') = Len(unmet) + 1
          /\ unmet'[Len(unmet) + 1] = remaining
          /\ \A i \in 1 .. Len(unmet) : unmet'[i] = unmet[i]
      BY <1>2, <3>1, AppendProperties
    <3>3. \A i \in DOMAIN order : i # incoming => i \in 1 .. Len(unmet)
      BY <1>2, <3>1
    <3>4. QED
      BY <3>1, <3>2, <3>3
  <2>3. QED
    BY <2>1, <2>2
<1>4. TypeOK'
  BY <1>1, <1>2, <1>3 DEF TypeOK
<1>5. OrdersValid' /\ TradesWithinLimits' /\ CrossedOnlyIfFilled' /\ Rests' /\ Arrival' /\ Progress'
  BY <1>1, <1>3 DEF KeptInv, OrdersValid, TradesWithinLimits, CrossedOnlyIfFilled, Rests, Arrival, Valid, Progress
<1>6. FillsAccounted'
  <2>1. ASSUME NEW i \in DOMAIN order
        PROVE  (IF i = incoming' THEN remaining' ELSE unmet'[i])
                 = (IF i = incoming THEN remaining ELSE unmet[i])
    <3>1. i # incoming'
      BY <1>1, <1>2
    <3>2. QED
      BY <1>3, <3>1
  <2>2. QED
    BY <1>1, <2>1, AccountFrame DEF KeptInv
<1>7. QED
  BY <1>4, <1>5, <1>6 DEF KeptInv

LEMMA KeptUnchanged == KeptInv /\ UNCHANGED bookVars => KeptInv'
<1> SUFFICES ASSUME KeptInv, UNCHANGED bookVars PROVE KeptInv'
  OBVIOUS
<1>1. TypeOK' /\ OrdersValid' /\ Arrival' /\ Rests' /\ TradesWithinLimits' /\ CrossedOnlyIfFilled' /\ Progress'
  BY DEF bookVars, KeptInv, TypeOK, OrdersValid, Arrival, Rests, TradesWithinLimits,
         CrossedOnlyIfFilled, Opposite, Crosses, Valid, Progress
<1>2. FillsAccounted'
  BY AccountFrame DEF bookVars, KeptInv
<1>3. QED
  BY <1>1, <1>2 DEF KeptInv

LEMMA BookInvStep == BookInv /\ [Next]_bookVars => BookInv'
<1> SUFFICES ASSUME BookInv, [Next]_bookVars PROVE BookInv'
  OBVIOUS
<1>1. ASSUME NEW k \in Kind, Accept(k) PROVE BookInv'
  BY <1>1, BookInvAccept
<1>2. CASE MatchBest
  <2>1. PICK m \in Best(Opposite(incoming)) : Crosses(incoming, m) /\ Fill(m)
    BY <1>2 DEF MatchBest
  <2>2. m \in Opposite(incoming) /\ incoming # 0 /\ remaining > 0
    BY <1>2 DEF MatchBest, Best
  <2>3. QED
    BY <2>1, <2>2, BookInvFill
<1>3. CASE Insert
  BY <1>3, BookInvInsert
<1>4. CASE UNCHANGED bookVars
  BY <1>4, KeptUnchanged DEF bookVars, BookInv, MakersBounded
<1>5. QED
  BY <1>1, <1>2, <1>3, <1>4 DEF Next, Quiet

LEMMA BookInvariant == Spec => []BookInv
  BY BookInvInit, BookInvStep, PTL DEF Spec

(* Every variable of the book keeps its type.                              *)
THEOREM BookTypeCorrect == Spec => []TypeOK
  BY BookInvariant, PTL DEF BookInv, KeptInv

(* Nobody ever trades at a price worse than the limit of the order.        *)
THEOREM LimitsRespected == Spec => []TradesWithinLimits
  BY BookInvariant, PTL DEF BookInv, KeptInv

(* No maker is overfilled, a filled one leaves the book, and every trade   *)
(* makes progress.                                                         *)
THEOREM MakersNeverOverfilled == Spec => []MakersBounded
  BY BookInvariant, PTL DEF BookInv, KeptInv

(* The resting orders cross only where a filled order was inserted again.  *)
THEOREM CrossingExplained == Spec => []CrossedOnlyIfFilled
  BY BookInvariant, PTL DEF BookInv, KeptInv

(* What an order took on arrival and what it gave while resting are both   *)
(* accounted for, the second by its FilledQty, the first by nothing but    *)
(* what was left when Match returned.                                      *)
THEOREM FillsAddUp == Spec => []FillsAccounted
  BY BookInvariant, PTL DEF BookInv, KeptInv
-------------------------------------------------------------------------------
(* Loops.  A recursive function that goes from t to next[t] until it is in *)
(* Stops, and then returns out[t].                                         *)

SolvesLoop(g, D, Stops, next, out) ==
  g = [t \in D |-> IF t \in Stops THEN out[t] ELSE g[next[t]]]

(* Whatever the loop does, there is such a function: it returns what the   *)
(* first stop among the states it reaches says, if there is one.           *)
LEMMA LoopSolved ==
  ASSUME NEW D, NEW Stops, NEW next \in [D -> D], NEW out
  PROVE  \E g : SolvesLoop(g, D, Stops, next, out)
<1> DEFINE Closed(t, R) == t \in R /\ \A r \in R \ Stops : next[r] \in R
           Reach(t) == {r \in D : \A R \in SUBSET D : Closed(t, R) => r \in R}
           Last(t) == CHOOSE r : r \in Reach(t) \cap Stops
           g == [t \in D |-> out[Last(t)]]
<1>1. ASSUME NEW t \in D, t \in Stops
      PROVE  Last(t) = t
  <2>1. Closed(t, {t}) /\ {t} \in SUBSET D
    BY <1>1
  <2>2. Reach(t) \cap Stops = {t}
    BY <1>1, <2>1
  <2> HIDE DEF Reach
  <2>3. QED
    BY <2>2
<1>2. ASSUME NEW t \in D, t \notin Stops
      PROVE  Last(t) = Last(next[t])
  <2>1. next[t] \in D
    OBVIOUS
  <2>2. ASSUME NEW r \in Reach(t) \cap Stops
        PROVE  r \in Reach(next[t])
    <3>1. ASSUME NEW R \in SUBSET D, Closed(next[t], R)
          PROVE  r \in R
      <4>1. Closed(t, R \cup {t}) /\ R \cup {t} \in SUBSET D
        BY <1>2, <3>1
      <4>2. r \in R \cup {t}
        BY <4>1
      <4>3. QED
        BY <1>2, <4>2
    <3>2. QED
      BY <3>1
  <2>3. ASSUME NEW r \in Reach(next[t])
        PROVE  r \in Reach(t)
    BY <1>2, <2>1
  <2>4. Reach(t) \cap Stops = Reach(next[t]) \cap Stops
    BY <2>2, <2>3
  <2> HIDE DEF Reach
  <2>5. QED
    BY <2>4
<1>3. \A t \in D : g[t] = IF t \in Stops THEN out[t] ELSE g[next[t]]
  <2> HIDE DEF Last
  <2>1. QED
    BY <1>1, <1>2
<1>4. g = [t \in D |-> IF t \in Stops THEN out[t] ELSE g[next[t]]]
  <2> HIDE DEF Last
  <2>1. g = [t \in D |-> g[t]]
    OBVIOUS
  <2> HIDE DEF g
  <2>2. QED
    BY <1>3, <2>1
<1>5. QED
  BY <1>4 DEF SolvesLoop

(* A set of naturals has a least element.                                  *)
LEMMA LeastNatural ==
  ASSUME NEW B \in SUBSET Nat, B # {}
  PROVE  \E n \in B : \A k \in B : n <= k
<1>1. PICK b \in B : TRUE
  OBVIOUS
<1> DEFINE U == 0 .. b
           C == {0 .. k : k \in {x \in B : x <= b}}
<1>2. IsFiniteSet(U)
  BY FS_Interval
<1>3. C \in SUBSET (SUBSET U) /\ C # {}
  OBVIOUS
<1>4. PICK S \in C : \A T \in C : T \subseteq S => T = S
  <2> HIDE DEF U, C
  <2>1. QED
    BY <1>2, <1>3, SmallestSet
<1>5. PICK n \in B : n <= b /\ S = 0 .. n
  OBVIOUS
<1>6. ASSUME NEW k \in B PROVE n <= k
  <2>1. SUFFICES ASSUME k < n PROVE FALSE
    OBVIOUS
  <2>2. 0 .. k \in C /\ 0 .. k \subseteq S
    BY <1>5, <2>1
  <2>3. 0 .. k = S
    <3> HIDE DEF C
    <3>1. QED
      BY <1>4, <2>2
  <2>4. n \in 0 .. n
    BY <1>5
  <2>5. n \in 0 .. k
    BY <1>5, <2>3, <2>4
  <2>6. QED
    BY <2>1, <2>5
<1>7. QED
  BY <1>6

(* A loop that gets closer to its end with each round, and keeps I, ends   *)
(* in a stop in I.                                                         *)
LEMMA LoopEnds ==
  ASSUME NEW D, NEW Stops, NEW next, NEW out, NEW g, SolvesLoop(g, D, Stops, next, out),
         NEW I \in SUBSET D, \A t \in I \ Stops : next[t] \in I,
         NEW left \in [D -> Nat], \A t \in I \ Stops : left[next[t]] < left[t],
         NEW start \in I
  PROVE  \E t \in I \cap Stops : g[start] = out[t]
<1> DEFINE B == {t \in I : ~ \E s \in I \cap Stops : g[t] = out[s]}
           N == {left[t] : t \in B}
<1>1. \A t \in I : g[t] = IF t \in Stops THEN out[t] ELSE g[next[t]]
  BY DEF SolvesLoop
<1>2. ASSUME B # {} PROVE FALSE
  <2>1. N \in SUBSET Nat /\ N # {}
    BY <1>2
  <2>2. PICK n \in N : \A k \in N : n <= k
    <3> HIDE DEF N
    <3>1. QED
      BY <2>1, LeastNatural
  <2>3. PICK t \in B : n = left[t]
    OBVIOUS
  <2>4. t \in I \ Stops
    BY <1>1
  <2>5. next[t] \in I /\ left[next[t]] < left[t] /\ g[t] = g[next[t]]
    BY <1>1, <2>4
  <2>6. next[t] \in B
    BY <2>5
  <2>7. left[next[t]] \in N /\ left[t] \in Nat /\ left[next[t]] \in Nat
    BY <2>4, <2>5, <2>6
  <2>8. QED
    BY <2>2, <2>3, <2>5, <2>7
<1>3. QED
  BY <1>2
-------------------------------------------------------------------------------
(* container/heap *)

LEMMA SwapFact ==
  ASSUME NEW h \in Seq(Nat), NEW i \in DOMAIN h, NEW j \in DOMAIN h
  PROVE  /\ Swap(h, i, j) \in Seq(Nat) /\ Len(Swap(h, i, j)) = Len(h)
         /\ DOMAIN Swap(h, i, j) = DOMAIN h
         /\ \A k \in DOMAIN h :
              Swap(h, i, j)[k] = IF k = j THEN h[i] ELSE IF k = i THEN h[j] ELSE h[k]
<1>1. h[i] \in Nat /\ h[j] \in Nat /\ DOMAIN h = 1 .. Len(h) /\ Len(h) \in Nat
  OBVIOUS
<1> DEFINE once == [h EXCEPT ![i] = h[j]]
<1>2. /\ once \in Seq(Nat) /\ Len(once) = Len(h)
      /\ \A k \in 1 .. Len(h) : once[k] = IF k = i THEN h[j] ELSE h[k]
  BY <1>1, ExceptSeq
<1>3. Swap(h, i, j) = [once EXCEPT ![j] = h[i]]
  BY DEF Swap
<1> HIDE DEF once
<1>4. /\ [once EXCEPT ![j] = h[i]] \in Seq(Nat) /\ Len([once EXCEPT ![j] = h[i]]) = Len(h)
      /\ \A k \in 1 .. Len(h) : [once EXCEPT ![j] = h[i]][k] = IF k = j THEN h[i] ELSE once[k]
  BY <1>1, <1>2, ExceptSeq
<1> DEFINE twice == [once EXCEPT ![j] = h[i]]
<1>5. twice \in Seq(Nat) /\ Len(twice) = Len(h) /\ DOMAIN twice = DOMAIN h
  <2>1. twice \in Seq(Nat) /\ Len(twice) = Len(h)
    BY <1>4
  <2> HIDE DEF twice
  <2>2. QED
    BY <1>1, <2>1
<1>6. \A k \in DOMAIN h : twice[k] = IF k = j THEN h[i] ELSE IF k = i THEN h[j] ELSE h[k]
  BY <1>1, <1>2, <1>4
<1> HIDE DEF twice
<1>7. Swap(h, i, j) = twice
  BY <1>3 DEF twice
<1>8. QED
  BY <1>5, <1>6, <1>7

(* The parent of an index.                                                 *)
LEMMA Halves ==
  ASSUME NEW c \in Nat, c >= 2
  PROVE  /\ c \div 2 \in Nat /\ 1 <= c \div 2 /\ c \div 2 < c
         /\ \A i \in Nat : c \div 2 = i <=> c = 2 * i \/ c = 2 * i + 1
OBVIOUS

UpStop == {s \in Sifts : ~ (s[2] \in 2 .. Len(s[1]) /\ Less(s[1][s[2]], s[1][s[2] \div 2]))}
UpNext == [s \in Sifts |-> IF s \in UpStop THEN s ELSE <<Swap(s[1], s[2], s[2] \div 2), s[2] \div 2>>]
DownStop == {s \in Sifts : ~ (LET j == LesserChild(s[1], s[2]) IN
                              j <= Len(s[1]) /\ Less(s[1][j], s[1][s[2]]))}
DownNext == [s \in Sifts |->
              IF s \in DownStop THEN s
              ELSE <<Swap(s[1], s[2], LesserChild(s[1], s[2])), LesserChild(s[1], s[2])>>]
HeapOf == [s \in Sifts |-> s[1]]

LEMMA UpNextType == UpNext \in [Sifts -> Sifts]
<1> SUFFICES ASSUME NEW s \in Sifts, s \notin UpStop
             PROVE  <<Swap(s[1], s[2], s[2] \div 2), s[2] \div 2>> \in Sifts
  BY DEF UpNext
<1> DEFINE h == s[1]
           j == s[2]
<1>1. h \in Seq(Nat) /\ j \in 2 .. Len(h) /\ j \in Nat /\ Len(h) \in Nat
  BY DEF UpStop, Sifts
<1> HIDE DEF h, j
<1>2. j \in DOMAIN h /\ j \div 2 \in DOMAIN h /\ j \div 2 \in Nat \ {0}
  BY <1>1, Halves
<1>3. <<Swap(h, j, j \div 2), j \div 2>> \in Sifts
  BY <1>1, <1>2, SwapFact DEF Sifts
<1>4. QED
  BY <1>3 DEF h, j

LEMMA UpSolves == SolvesLoop(Up, Sifts, UpStop, UpNext, HeapOf)
<1> DEFINE Solves(g) ==
      g = [s \in Sifts |->
             LET h == s[1]
                 j == s[2] IN
             IF j \in 2 .. Len(h) /\ Less(h[j], h[j \div 2]) THEN g[<<Swap(h, j, j \div 2), j \div 2>>]
             ELSE h]
<1>1. ASSUME NEW g
      PROVE  Solves(g) <=> SolvesLoop(g, Sifts, UpStop, UpNext, HeapOf)
  BY DEF SolvesLoop, UpStop, UpNext, HeapOf
<1>2. \E g : Solves(g)
  <2> HIDE DEF Solves
  <2>1. QED
    BY <1>1, UpNextType, LoopSolved
<1>3. Up = CHOOSE g : Solves(g)
  BY DEF Up
<1>4. Solves(Up)
  <2> HIDE DEF Solves
  <2>1. QED
    BY <1>2, <1>3
<1>5. QED
  BY <1>1, <1>4

LEMMA Child ==
  ASSUME NEW h \in Seq(Nat), NEW i \in Nat \ {0}
  PROVE  /\ LesserChild(h, i) \in Nat /\ LesserChild(h, i) > i /\ LesserChild(h, i) >= 2
         /\ LesserChild(h, i) \div 2 = i
<1>1. LesserChild(h, i) = 2 * i \/ LesserChild(h, i) = 2 * i + 1
  BY DEF LesserChild
<1>2. 2 * i \in Nat /\ 2 * i >= 2 /\ 2 * i > i
  OBVIOUS
<1>3. LesserChild(h, i) \in Nat /\ LesserChild(h, i) > i /\ LesserChild(h, i) >= 2
  BY <1>1, <1>2
<1>4. QED
  BY <1>1, <1>3, Halves

LEMMA DownNextType == DownNext \in [Sifts -> Sifts]
<1> SUFFICES ASSUME NEW s \in Sifts, s \notin DownStop
             PROVE  <<Swap(s[1], s[2], LesserChild(s[1], s[2])), LesserChild(s[1], s[2])>> \in Sifts
  BY DEF DownNext
<1> DEFINE h == s[1]
           i == s[2]
           j == LesserChild(h, i)
<1>1. h \in Seq(Nat) /\ i \in Nat \ {0} /\ Len(h) \in Nat
  BY DEF Sifts
<1>2. j <= Len(h)
  BY DEF DownStop
<1>3. j \in Nat \ {0} /\ j > i
  <2> HIDE DEF h, i
  <2>1. QED
    BY <1>1, Child
<1>4. i \in DOMAIN h /\ j \in DOMAIN h
  BY <1>1, <1>2, <1>3
<1> HIDE DEF h, i, j
<1>5. <<Swap(h, i, j), j>> \in Sifts
  BY <1>1, <1>3, <1>4, SwapFact DEF Sifts
<1>6. QED
  BY <1>5 DEF h, i, j

LEMMA DownSolves == SolvesLoop(Down, Sifts, DownStop, DownNext, HeapOf)
<1> DEFINE Solves(g) ==
      g = [s \in Sifts |->
             LET h == s[1]
                 i == s[2]
                 j == LesserChild(h, i) IN
             IF j <= Len(h) /\ Less(h[j], h[i]) THEN g[<<Swap(h, i, j), j>>] ELSE h]
<1>1. ASSUME NEW g
      PROVE  Solves(g) <=> SolvesLoop(g, Sifts, DownStop, DownNext, HeapOf)
  BY DEF SolvesLoop, DownStop, DownNext, HeapOf
<1>2. \E g : Solves(g)
  <2> HIDE DEF Solves
  <2>1. QED
    BY <1>1, DownNextType, LoopSolved
<1>3. Down = CHOOSE g : Solves(g)
  BY DEF Down
<1>4. Solves(Down)
  <2> HIDE DEF Solves
  <2>1. QED
    BY <1>2, <1>3
<1>5. QED
  BY <1>1, <1>4

(* The orders of one side, of which Less is a total preorder.              *)
OneSided(E) == E \in SUBSET DOMAIN order /\ \A m, n \in E : order[m].side = order[n].side

LEMMA LessOrders ==
  ASSUME TypeOK, NEW E, OneSided(E)
  PROVE  /\ \A m, n \in E : Less(m, n) => ~Less(n, m)
         /\ \A k, m, n \in E : ~Less(k, m) /\ ~Less(m, n) => ~Less(k, n)
<1>1. ASSUME NEW m \in E
      PROVE  order[m].price \in Int /\ order[m].created \in Int
  <2>1. order[m] \in Order /\ order[m].price \in Int
    BY OrderFields DEF OneSided
  <2>2. order[m].created \in Nat
    BY <2>1 DEF Order
  <2>3. QED
    BY <2>1, <2>2
<1>2. QED
  BY <1>1 DEF OneSided, Less

(* h holds the orders of E, each once.                                     *)
Holds(h, E) ==
  /\ h \in Seq(Nat)
  /\ Elements(h) = E
  /\ \A i, j \in DOMAIN h : h[i] = h[j] => i = j

(* No order is before its parent.                                          *)
Sorted(h) == \A c \in 2 .. Len(h) : ~Less(h[c], h[c \div 2])

LEMMA SwapHolds ==
  ASSUME NEW h, NEW E, Holds(h, E), NEW i \in DOMAIN h, NEW j \in DOMAIN h
  PROVE  Holds(Swap(h, i, j), E)
<1> DEFINE g == Swap(h, i, j)
<1>1. /\ g \in Seq(Nat) /\ DOMAIN g = DOMAIN h
      /\ \A k \in DOMAIN h : g[k] = IF k = j THEN h[i] ELSE IF k = i THEN h[j] ELSE h[k]
  BY SwapFact DEF Holds
<1> HIDE DEF g
<1>2. \A x \in Elements(h) : \E k \in DOMAIN h : g[k] = x
  <2> SUFFICES ASSUME NEW k \in DOMAIN h PROVE \E l \in DOMAIN h : g[l] = h[k]
    BY DEF Elements
  <2>1. g[IF k = i THEN j ELSE IF k = j THEN i ELSE k] = h[k]
    BY <1>1
  <2>2. QED
    BY <2>1
<1>3. Elements(g) = Elements(h)
  BY <1>1, <1>2 DEF Elements
<1>4. \A k, l \in DOMAIN g : g[k] = g[l] => k = l
  BY <1>1 DEF Holds
<1>5. QED
  BY <1>1, <1>3, <1>4 DEF Holds, g

(* The first of a sorted heap is a best order.                             *)
LEMMA TopIsBest ==
  ASSUME TypeOK, NEW h, NEW E, OneSided(E), Holds(h, E), Sorted(h), h # <<>>
  PROVE  h[1] \in E /\ \A m \in E : ~Less(m, h[1])
<1>1. /\ Len(h) \in Nat /\ DOMAIN h = 1 .. Len(h) /\ 1 \in DOMAIN h
      /\ \A i \in DOMAIN h : h[i] \in E
  BY DEF Holds, Elements
<1> DEFINE B == {i \in DOMAIN h : Less(h[i], h[1])}
<1>2. ASSUME B # {} PROVE FALSE
  <2>1. B \in SUBSET Nat
    BY <1>1
  <2>2. PICK n \in B : \A k \in B : n <= k
    <3> HIDE DEF B
    <3>1. QED
      BY <1>2, <2>1, LeastNatural
  <2>3. n \in DOMAIN h /\ Less(h[n], h[1]) /\ n \in Nat
    BY <1>1
  <2>4. n # 1
    BY <1>1, <2>3, LessOrders
  <2>5. n \in 2 .. Len(h)
    BY <1>1, <2>3, <2>4
  <2>6. n \div 2 \in DOMAIN h /\ n \div 2 < n
    BY <1>1, <2>5, Halves
  <2>7. ~Less(h[n], h[n \div 2])
    BY <2>5 DEF Sorted
  <2>8. ~Less(h[n \div 2], h[1])
    BY <1>1, <2>1, <2>2, <2>6
  <2>9. QED
    BY <1>1, <2>3, <2>6, <2>7, <2>8, LessOrders
<1>3. QED
  BY <1>1, <1>2 DEF Holds, Elements
-------------------------------------------------------------------------------
(* Sifting up.  Only the order at s[2] may be before its parent, and its   *)
(* children are not before that parent either.                             *)
UpInv(E) ==
  {s \in Sifts :
    /\ Holds(s[1], E)
    /\ s[2] \in DOMAIN s[1]
    /\ \A c \in 2 .. Len(s[1]) : c # s[2] => ~Less(s[1][c], s[1][c \div 2])
    /\ s[2] >= 2 => \A c \in 2 .. Len(s[1]) :
                      c \div 2 = s[2] => ~Less(s[1][c], s[1][s[2] \div 2])}

LEMMA UpStep ==
  ASSUME TypeOK, NEW E, OneSided(E), NEW h, NEW j, <<h, j>> \in UpInv(E), j \in 2 .. Len(h),
         Less(h[j], h[j \div 2])
  PROVE  <<Swap(h, j, j \div 2), j \div 2>> \in UpInv(E)
<1> DEFINE p == j \div 2
           g == Swap(h, j, p)
<1>1. /\ h \in Seq(Nat) /\ Len(h) \in Nat /\ DOMAIN h = 1 .. Len(h)
      /\ j \in DOMAIN h /\ j \in Nat /\ \A i \in DOMAIN h : h[i] \in E
      /\ Holds(h, E)
  BY DEF UpInv, Holds, Elements
<1>2. /\ \A c \in 2 .. Len(h) : c # j => ~Less(h[c], h[c \div 2])
      /\ \A c \in 2 .. Len(h) : c \div 2 = j => ~Less(h[c], h[p])
  BY DEF UpInv
<1>3. p \in DOMAIN h /\ p < j /\ p \in Nat \ {0}
  BY <1>1, Halves
<1> HIDE DEF p, g
<1>4. /\ g \in Seq(Nat) /\ Len(g) = Len(h) /\ DOMAIN g = DOMAIN h
      /\ \A k \in DOMAIN h : g[k] = IF k = p THEN h[j] ELSE IF k = j THEN h[p] ELSE h[k]
      /\ Holds(g, E)
  <2>1. Holds(g, E)
    BY <1>1, <1>3, SwapHolds DEF g
  <2>2. /\ Swap(h, j, p) \in Seq(Nat) /\ Len(Swap(h, j, p)) = Len(h)
        /\ DOMAIN Swap(h, j, p) = DOMAIN h
        /\ \A k \in DOMAIN h :
             Swap(h, j, p)[k] = IF k = p THEN h[j] ELSE IF k = j THEN h[p] ELSE h[k]
    <3>1. h \in Seq(Nat) /\ j \in DOMAIN h /\ p \in DOMAIN h
      BY <1>1, <1>3
    <3>2. QED
      BY <3>1, SwapFact
  <2>3. QED
    BY <2>1, <2>2 DEF g
<1>5. Less(h[j], h[p]) /\ ~Less(h[p], h[j])
  <2>1. h[j] \in E /\ h[p] \in E
    BY <1>1, <1>3
  <2>2. Less(h[j], h[p])
    BY DEF p
  <2>3. QED
    BY <2>1, <2>2, LessOrders
<1>6. ASSUME NEW c \in 2 .. Len(g), c # p
      PROVE  ~Less(g[c], g[c \div 2])
  <2>1. c \in DOMAIN h /\ c \in 2 .. Len(h) /\ c \div 2 \in DOMAIN h /\ c \div 2 < c
    <3>1. c \in 2 .. Len(h) /\ c \in Nat /\ c >= 2 /\ c <= Len(h)
      BY <1>1, <1>4
    <3>2. c \div 2 \in Nat /\ 1 <= c \div 2 /\ c \div 2 < c
      BY <3>1, Halves
    <3>3. QED
      BY <1>1, <3>1, <3>2
  <2>2. CASE c = j
    BY <1>3, <1>4, <1>5, <2>1, <2>2 DEF p
  <2>3. CASE c # j /\ c \div 2 = j
    <3>1. g[c] = h[c] /\ g[c \div 2] = h[p]
      BY <1>3, <1>4, <1>6, <2>1, <2>3
    <3>2. QED
      BY <1>2, <2>1, <2>3, <3>1
  <2>4. CASE c # j /\ c \div 2 = p
    <3>1. g[c] = h[c] /\ g[c \div 2] = h[j]
      BY <1>3, <1>4, <1>6, <2>1, <2>4
    <3>2. ~Less(h[c], h[p])
      BY <1>2, <2>1, <2>4
    <3>3. QED
      BY <1>1, <1>3, <1>5, <2>1, <3>1, <3>2, LessOrders
  <2>5. CASE c # j /\ c \div 2 # j /\ c \div 2 # p
    <3>1. g[c] = h[c] /\ g[c \div 2] = h[c \div 2]
      BY <1>4, <1>6, <2>1, <2>5
    <3>2. QED
      BY <1>2, <2>1, <2>5, <3>1
  <2>6. QED
    BY <2>2, <2>3, <2>4, <2>5
<1>7. ASSUME p >= 2, NEW c \in 2 .. Len(g), c \div 2 = p
      PROVE  ~Less(g[c], g[p \div 2])
  <2>1. /\ c \in DOMAIN h /\ c \in 2 .. Len(h) /\ p < c
        /\ p \div 2 \in DOMAIN h /\ p \div 2 < p /\ p \in 2 .. Len(h)
    <3>1. p \in 1 .. Len(h) /\ p \in 2 .. Len(h)
      BY <1>1, <1>3, <1>7
    <3>2. p \div 2 \in Nat /\ 1 <= p \div 2 /\ p \div 2 < p
      BY <1>3, <1>7, Halves
    <3>3. c \in Nat /\ c \in 2 .. Len(h) /\ c \div 2 < c
      BY <1>1, <1>4, Halves
    <3>4. c \in DOMAIN h /\ c \in 2 .. Len(h) /\ p < c
      BY <1>1, <1>4, <1>7, <3>3
    <3>5. p \div 2 \in DOMAIN h
      BY <1>1, <1>3, <3>1, <3>2
    <3>6. QED
      BY <3>1, <3>2, <3>4, <3>5
  <2>2. ~Less(h[p], h[p \div 2]) /\ g[p \div 2] = h[p \div 2]
    <3>1. p # j /\ p \div 2 # j /\ p \div 2 # p
      <4>1. p \div 2 \in Nat
        BY <1>1, <2>1
      <4>2. QED
        BY <1>1, <1>3, <2>1, <4>1
    <3>2. ~Less(h[p], h[p \div 2])
      BY <1>2, <2>1, <3>1
    <3>3. g[p \div 2] = h[p \div 2]
      BY <1>4, <2>1, <3>1
    <3>4. QED
      BY <3>2, <3>3
  <2>3. CASE c = j
    BY <1>3, <1>4, <2>1, <2>2, <2>3
  <2>4. CASE c # j
    <3>1. g[c] = h[c]
      <4>1. c # p
        BY <1>3, <2>1
      <4>2. QED
        BY <1>4, <2>1, <2>4, <4>1
    <3>2. ~Less(h[c], h[p])
      BY <1>2, <1>7, <2>1, <2>4
    <3>3. h[c] \in E /\ h[p] \in E /\ h[p \div 2] \in E
      BY <1>1, <1>3, <2>1
    <3>4. ~Less(h[c], h[p \div 2])
      BY <2>2, <3>2, <3>3, LessOrders
    <3>5. QED
      BY <2>2, <3>1, <3>4
  <2>5. QED
    BY <2>3, <2>4
<1>8. <<g, p>> \in Sifts
  BY <1>3, <1>4 DEF Sifts
<1>9. <<g, p>> \in UpInv(E)
  BY <1>3, <1>4, <1>6, <1>7, <1>8 DEF UpInv
<1>10. QED
  BY <1>9 DEF g, p

LEMMA UpSorts ==
  ASSUME TypeOK, NEW E, OneSided(E), NEW s \in UpInv(E)
  PROVE  Holds(Up[s], E) /\ Sorted(Up[s])
<1> DEFINE left == [t \in Sifts |-> t[2]]
<1>1. UpInv(E) \in SUBSET Sifts /\ left \in [Sifts -> Nat]
  BY DEF UpInv, Sifts
<1>2. ASSUME NEW t \in UpInv(E) \ UpStop
      PROVE  UpNext[t] \in UpInv(E) /\ left[UpNext[t]] < left[t]
  <2> DEFINE h == t[1]
             j == t[2]
  <2>1. t = <<h, j>> /\ t \in Sifts
    BY DEF UpInv, Sifts
  <2>2. j \in 2 .. Len(h) /\ Less(h[j], h[j \div 2]) /\ UpNext[t] = <<Swap(h, j, j \div 2), j \div 2>>
    BY <2>1 DEF UpStop, UpNext
  <2>3. Len(h) \in Nat /\ j \in Nat /\ j >= 2
    BY <2>1, <2>2 DEF Sifts
  <2>4. j \div 2 < j
    BY <2>3, Halves
  <2> HIDE DEF h, j
  <2>5. <<Swap(h, j, j \div 2), j \div 2>> \in UpInv(E)
    BY <2>1, <2>2, UpStep
  <2>6. left[UpNext[t]] = j \div 2
    BY <1>1, <2>2, <2>5
  <2>7. QED
    BY <2>1, <2>2, <2>4, <2>5, <2>6 DEF j
<1> HIDE DEF left
<1>3. PICK t \in UpInv(E) \cap UpStop : Up[s] = HeapOf[t]
  BY <1>1, <1>2, UpSolves, LoopEnds
<1>4. t \in Sifts /\ Up[s] = t[1]
  BY <1>1, <1>3 DEF HeapOf
<1>5. Sorted(t[1])
  BY <1>3 DEF UpInv, UpStop, Sorted
<1>6. QED
  BY <1>3, <1>4, <1>5 DEF UpInv

(* heap.Push.                                                              *)
LEMMA PushSorts ==
  ASSUME TypeOK, NEW E, NEW i \in Nat, OneSided(E \cup {i}), i \notin E,
         NEW h, Holds(h, E), Sorted(h)
  PROVE  Holds(Push(h, i), E \cup {i}) /\ Sorted(Push(h, i))
<1> DEFINE g == Append(h, i)
           n == Len(h) + 1
<1>1. /\ h \in Seq(Nat) /\ Len(h) \in Nat /\ DOMAIN h = 1 .. Len(h)
      /\ \A k \in DOMAIN h : h[k] \in E
  BY DEF Holds, Elements
<1>2. /\ g \in Seq(Nat) /\ Len(g) = n /\ DOMAIN g = DOMAIN h \cup {n} /\ n \notin DOMAIN h
      /\ g[n] = i /\ \A k \in DOMAIN h : g[k] = h[k]
      /\ n \in Nat \ {0}
  BY <1>1
<1> HIDE DEF g
<1>3. Holds(g, E \cup {i})
  <2>1. Elements(g) = Elements(h) \cup {i}
    BY <1>2 DEF Elements
  <2>2. \A k, l \in DOMAIN g : g[k] = g[l] => k = l
    BY <1>1, <1>2 DEF Holds
  <2>3. QED
    BY <1>2, <2>1, <2>2 DEF Holds
<1>4. ASSUME NEW c \in 2 .. Len(g)
      PROVE  /\ c # n => ~Less(g[c], g[c \div 2])
             /\ c \div 2 # n
  <2>1. c \in Nat /\ c \div 2 \in Nat /\ 1 <= c \div 2 /\ c \div 2 < c
    BY <1>1, <1>2, Halves
  <2>2. CASE c # n
    <3>1. c \in 2 .. Len(h) /\ c \in DOMAIN h /\ c \div 2 \in DOMAIN h
      BY <1>1, <1>2, <2>1, <2>2
    <3>2. QED
      BY <1>1, <1>2, <2>1, <2>2, <3>1 DEF Sorted
  <2>3. QED
    BY <1>2, <2>1, <2>2
<1>5. <<g, n>> \in UpInv(E \cup {i})
  BY <1>2, <1>3, <1>4 DEF UpInv, Sifts
<1>6. QED
  BY <1>5, UpSorts DEF Push, g
-------------------------------------------------------------------------------
(* Sifting down.  Only the children of the order at s[2] may be before it, *)
(* and they are not before its parent.                                     *)
DownInv(E) ==
  {s \in Sifts :
    /\ Holds(s[1], E)
    /\ \A c \in 2 .. Len(s[1]) : c \div 2 # s[2] => ~Less(s[1][c], s[1][c \div 2])
    /\ s[2] >= 2 => \A c \in 2 .. Len(s[1]) :
                      c \div 2 = s[2] => ~Less(s[1][c], s[1][s[2] \div 2])}

(* Of two children the one chosen is not after the other.                  *)
LEMMA LesserChildLeast ==
  ASSUME TypeOK, NEW E, OneSided(E), NEW h, Holds(h, E), NEW i \in Nat \ {0},
         NEW c \in 2 .. Len(h), c \div 2 = i
  PROVE  /\ LesserChild(h, i) <= Len(h)
         /\ ~Less(h[c], h[LesserChild(h, i)])
<1>1. /\ Len(h) \in Nat /\ DOMAIN h = 1 .. Len(h) /\ \A k \in DOMAIN h : h[k] \in E
      /\ c \in Nat /\ c >= 2 /\ c <= Len(h) /\ c \in DOMAIN h
  BY DEF Holds, Elements
<1>2. c = 2 * i \/ c = 2 * i + 1
  BY <1>1, Halves
<1>3. 2 * i <= Len(h) /\ 2 * i \in DOMAIN h
  BY <1>1, <1>2
<1>4. CASE 2 * i + 1 <= Len(h) /\ Less(h[2 * i + 1], h[2 * i])
  <2>1. LesserChild(h, i) = 2 * i + 1 /\ 2 * i + 1 \in DOMAIN h
    BY <1>1, <1>4 DEF LesserChild
  <2>2. QED
    BY <1>1, <1>2, <1>3, <1>4, <2>1, LessOrders
<1>5. CASE ~(2 * i + 1 <= Len(h) /\ Less(h[2 * i + 1], h[2 * i]))
  <2>1. LesserChild(h, i) = 2 * i
    BY <1>5 DEF LesserChild
  <2>2. c = 2 * i => ~Less(h[c], h[2 * i])
    BY <1>1, LessOrders
  <2>3. c = 2 * i + 1 => ~Less(h[c], h[2 * i])
    BY <1>1, <1>5
  <2>4. QED
    BY <1>2, <1>3, <2>1, <2>2, <2>3
<1>6. QED
  BY <1>4, <1>5

LEMMA DownStep ==
  ASSUME TypeOK, NEW E, OneSided(E), NEW h, NEW i, <<h, i>> \in DownInv(E),
         LesserChild(h, i) <= Len(h), Less(h[LesserChild(h, i)], h[i])
  PROVE  <<Swap(h, i, LesserChild(h, i)), LesserChild(h, i)>> \in DownInv(E)
<1> DEFINE j == LesserChild(h, i)
           g == Swap(h, i, j)
<1>1. /\ h \in Seq(Nat) /\ Len(h) \in Nat /\ DOMAIN h = 1 .. Len(h)
      /\ i \in Nat \ {0} /\ \A k \in DOMAIN h : h[k] \in E
      /\ Holds(h, E)
  BY DEF DownInv, Holds, Elements, Sifts
<1>2. /\ \A c \in 2 .. Len(h) : c \div 2 # i => ~Less(h[c], h[c \div 2])
      /\ i >= 2 => \A c \in 2 .. Len(h) : c \div 2 = i => ~Less(h[c], h[i \div 2])
  BY DEF DownInv
<1>3. j \in Nat \ {0} /\ j > i /\ j >= 2 /\ j \div 2 = i
  BY <1>1, Child
<1>4. ASSUME NEW c \in 2 .. Len(h), c \div 2 = i
      PROVE  ~Less(h[c], h[j])
  BY <1>1, <1>4, LesserChildLeast
<1>5. j \in 2 .. Len(h) /\ j \in DOMAIN h /\ i \in DOMAIN h
  BY <1>1, <1>3
<1>6. Less(h[j], h[i]) /\ ~Less(h[i], h[j])
  BY <1>1, <1>5, LessOrders
<1> HIDE DEF j, g
<1>7. /\ g \in Seq(Nat) /\ Len(g) = Len(h) /\ DOMAIN g = DOMAIN h
      /\ \A k \in DOMAIN h : g[k] = IF k = j THEN h[i] ELSE IF k = i THEN h[j] ELSE h[k]
      /\ Holds(g, E)
  <2>1. Holds(g, E)
    BY <1>1, <1>5, SwapHolds DEF g
  <2>2. /\ Swap(h, i, j) \in Seq(Nat) /\ Len(Swap(h, i, j)) = Len(h)
        /\ DOMAIN Swap(h, i, j) = DOMAIN h
        /\ \A k \in DOMAIN h :
             Swap(h, i, j)[k] = IF k = j THEN h[i] ELSE IF k = i THEN h[j] ELSE h[k]
    <3>1. h \in Seq(Nat) /\ i \in DOMAIN h /\ j \in DOMAIN h
      BY <1>1, <1>5
    <3>2. QED
      BY <3>1, SwapFact
  <2>3. QED
    BY <2>1, <2>2 DEF g
<1>8. ASSUME NEW c \in 2 .. Len(g), c \div 2 # j
      PROVE  ~Less(g[c], g[c \div 2])
  <2>1. c \in DOMAIN h /\ c \in 2 .. Len(h) /\ c \div 2 \in DOMAIN h /\ c \div 2 < c
    BY <1>1, <1>7, Halves
  <2>2. CASE c = j
    BY <1>3, <1>5, <1>6, <1>7, <2>2
  <2>3. CASE c # j /\ c \div 2 = i
    <3>1. g[c] = h[c] /\ g[c \div 2] = h[j]
      BY <1>3, <1>5, <1>7, <2>1, <2>3
    <3>2. QED
      BY <1>4, <2>1, <2>3, <3>1
  <2>4. CASE c = i
    <3>1. g[c] = h[j] /\ g[c \div 2] = h[c \div 2]
      BY <1>3, <1>5, <1>7, <1>8, <2>1, <2>4
    <3>2. i >= 2
      BY <2>1, <2>4
    <3>3. QED
      BY <1>2, <1>3, <1>5, <2>4, <3>1, <3>2
  <2>5. CASE c # j /\ c # i /\ c \div 2 # i
    <3>1. g[c] = h[c] /\ g[c \div 2] = h[c \div 2]
      BY <1>7, <1>8, <2>1, <2>5
    <3>2. QED
      BY <1>2, <2>1, <2>5, <3>1
  <2>6. QED
    BY <2>2, <2>3, <2>4, <2>5
<1>9. ASSUME NEW c \in 2 .. Len(g), c \div 2 = j
      PROVE  ~Less(g[c], g[j \div 2])
  <2>1. c \in DOMAIN h /\ c \in 2 .. Len(h) /\ c \in Nat /\ c \div 2 < c
    BY <1>1, <1>7, Halves
  <2>2. c # j /\ c # i /\ c \div 2 # i
    BY <1>3, <1>9, <2>1
  <2>3. g[c] = h[c] /\ g[j \div 2] = h[j]
    BY <1>3, <1>5, <1>7, <2>1, <2>2
  <2>4. ~Less(h[c], h[j])
    BY <1>2, <1>9, <2>1, <2>2
  <2>5. QED
    BY <2>3, <2>4
<1>10. <<g, j>> \in Sifts
  BY <1>3, <1>7 DEF Sifts
<1>11. <<g, j>> \in DownInv(E)
  BY <1>7, <1>8, <1>9, <1>10 DEF DownInv
<1>12. QED
  BY <1>11 DEF g, j

LEMMA DownSorts ==
  ASSUME TypeOK, NEW E, OneSided(E), NEW s \in DownInv(E)
  PROVE  Holds(Down[s], E) /\ Sorted(Down[s])
<1> DEFINE left == [t \in Sifts |-> IF t[2] <= Len(t[1]) THEN Len(t[1]) - t[2] ELSE 0]
<1>1. DownInv(E) \in SUBSET Sifts /\ left \in [Sifts -> Nat]
  BY DEF DownInv, Sifts
<1>2. ASSUME NEW t \in DownInv(E) \ DownStop
      PROVE  DownNext[t] \in DownInv(E) /\ left[DownNext[t]] < left[t]
  <2> DEFINE h == t[1]
             i == t[2]
             j == LesserChild(h, i)
             g == Swap(h, i, j)
  <2>1. t = <<h, i>> /\ t \in Sifts
    BY DEF DownInv, Sifts
  <2>2. j <= Len(h) /\ Less(h[j], h[i]) /\ DownNext[t] = <<g, j>>
    BY <2>1 DEF DownStop, DownNext
  <2>3. h \in Seq(Nat) /\ Len(h) \in Nat /\ i \in Nat \ {0}
    BY <2>1 DEF Sifts
  <2> HIDE DEF h, i
  <2>4. j \in Nat /\ j > i
    BY <2>3, Child
  <2>5. <<g, j>> \in DownInv(E)
    BY <2>1, <2>2, DownStep
  <2>6. i \in DOMAIN h /\ j \in DOMAIN h
    BY <2>2, <2>3, <2>4
  <2> HIDE DEF j
  <2>7. Len(g) = Len(h)
    BY <2>3, <2>6, SwapFact
  <2> HIDE DEF g
  <2>8. left[<<g, j>>] = Len(h) - j
    BY <1>1, <2>2, <2>5, <2>7
  <2>9. left[t] = Len(h) - i
    BY <2>1, <2>2, <2>3, <2>4 DEF h, i
  <2> HIDE DEF left
  <2>10. QED
    BY <2>2, <2>3, <2>4, <2>5, <2>8, <2>9
<1> HIDE DEF left
<1>3. PICK t \in DownInv(E) \cap DownStop : Down[s] = HeapOf[t]
  BY <1>1, <1>2, DownSolves, LoopEnds
<1>4. t \in Sifts /\ Down[s] = t[1]
  BY <1>1, <1>3 DEF HeapOf
<1>5. Sorted(t[1])
  <2> DEFINE h == t[1]
             i == t[2]
  <2>1. /\ Holds(h, E) /\ i \in Nat \ {0}
        /\ \A c \in 2 .. Len(h) : c \div 2 # i => ~Less(h[c], h[c \div 2])
    BY <1>3, <1>4 DEF DownInv, Sifts
  <2>2. LesserChild(h, i) <= Len(h) => ~Less(h[LesserChild(h, i)], h[i])
    BY <1>3 DEF DownStop
  <2> HIDE DEF h, i
  <2>3. ASSUME NEW c \in 2 .. Len(h), c \div 2 = i
        PROVE  ~Less(h[c], h[i])
    <3>1. /\ h \in Seq(Nat) /\ Len(h) \in Nat /\ DOMAIN h = 1 .. Len(h)
          /\ \A k \in DOMAIN h : h[k] \in E
      BY <2>1 DEF Holds, Elements
    <3>2. LesserChild(h, i) <= Len(h) /\ ~Less(h[c], h[LesserChild(h, i)])
      BY <2>1, <2>3, LesserChildLeast
    <3>3. LesserChild(h, i) \in DOMAIN h /\ c \in DOMAIN h /\ i \in DOMAIN h
      <4>1. LesserChild(h, i) \in Nat /\ LesserChild(h, i) > i
        BY <2>1, <3>1, Child
      <4>2. QED
        BY <2>1, <3>1, <3>2, <4>1
    <3>4. QED
      BY <2>2, <3>1, <3>2, <3>3, LessOrders
  <2>4. QED
    BY <2>1, <2>3 DEF Sorted, h
<1>6. QED
  BY <1>3, <1>4, <1>5 DEF DownInv

LEMMA LastRemoved ==
  ASSUME NEW h \in Seq(Nat), h # <<>>
  PROVE  LET g == SubSeq(h, 1, Len(h) - 1) IN
         /\ g \in Seq(Nat) /\ Len(g) = Len(h) - 1 /\ DOMAIN g = DOMAIN h \ {Len(h)}
         /\ \A k \in DOMAIN g : g[k] = h[k]
<1>1. Len(h) \in Nat /\ Len(h) >= 1 /\ DOMAIN h = 1 .. Len(h) /\ 1 \in 1 .. Len(h) + 1
      /\ Len(h) - 1 \in 0 .. Len(h) /\ Len(h) - 1 \in Nat
  OBVIOUS
<1>2. /\ SubSeq(h, 1, Len(h) - 1) \in Seq(Nat)
      /\ Len(SubSeq(h, 1, Len(h) - 1)) = Len(h) - 1
      /\ \A k \in 1 .. Len(h) - 1 : SubSeq(h, 1, Len(h) - 1)[k] = h[k]
  BY <1>1
<1>3. QED
  BY <1>1, <1>2

(* heap.Pop, of the first order.                                           *)
LEMMA PopSorts ==
  ASSUME TypeOK, NEW E, OneSided(E), NEW h, Holds(h, E), Sorted(h), h # <<>>
  PROVE  Holds(Pop(h), E \ {h[1]}) /\ Sorted(Pop(h))
<1> DEFINE n == Len(h)
           w == Swap(h, 1, n)
           g == SubSeq(w, 1, n - 1)
           F == E \ {h[1]}
<1>1. /\ h \in Seq(Nat) /\ n \in Nat /\ n >= 1 /\ DOMAIN h = 1 .. n
      /\ 1 \in DOMAIN h /\ n \in DOMAIN h
  BY DEF Holds
<1>2. Holds(w, E) /\ w \in Seq(Nat) /\ Len(w) = n /\ w # <<>>
  <2>1. Holds(w, E)
    BY <1>1, SwapHolds
  <2>2. Swap(h, 1, n) \in Seq(Nat) /\ Len(Swap(h, 1, n)) = Len(h)
    BY <1>1, SwapFact
  <2> HIDE DEF w
  <2>3. w \in Seq(Nat) /\ Len(w) = n
    BY <2>2 DEF w
  <2>4. QED
    BY <1>1, <2>1, <2>3
<1>3. \A k \in DOMAIN h : w[k] = IF k = n THEN h[1] ELSE IF k = 1 THEN h[n] ELSE h[k]
  <2>1. h \in Seq(Nat) /\ 1 \in DOMAIN h /\ n \in DOMAIN h
    BY <1>1
  <2> HIDE DEF n
  <2>2. \A k \in DOMAIN h :
          Swap(h, 1, n)[k] = IF k = n THEN h[1] ELSE IF k = 1 THEN h[n] ELSE h[k]
    <3>1. /\ Swap(h, 1, n) \in Seq(Nat) /\ Len(Swap(h, 1, n)) = Len(h)
          /\ DOMAIN Swap(h, 1, n) = DOMAIN h
          /\ \A k \in DOMAIN h :
               Swap(h, 1, n)[k] = IF k = n THEN h[1] ELSE IF k = 1 THEN h[n] ELSE h[k]
      BY <2>1, SwapFact
    <3>2. QED
      BY <3>1
  <2>3. QED
    BY <2>2
<1> HIDE DEF w
<1>4. /\ g \in Seq(Nat) /\ Len(g) = n - 1 /\ DOMAIN g = 1 .. n - 1
      /\ \A k \in DOMAIN g : g[k] = w[k]
  BY <1>1, <1>2, LastRemoved
<1> HIDE DEF g
<1>5. DOMAIN w = DOMAIN h
  BY <1>1, <1>2
<1>6. Holds(g, F)
  <2>1. \A k, l \in DOMAIN w : w[k] = w[l] => k = l
    BY <1>2 DEF Holds
  <2>2. {w[k] : k \in DOMAIN w} = E
    BY <1>2 DEF Holds, Elements
  <2>3. w[n] = h[1]
    BY <1>1, <1>3
  <2>4. DOMAIN w = DOMAIN g \cup {n} /\ n \notin DOMAIN g
    BY <1>1, <1>4, <1>5
  <2>5. {g[k] : k \in DOMAIN g} = E \ {w[n]}
    BY <1>4, <2>1, <2>2, <2>4
  <2>6. \A k, l \in DOMAIN g : g[k] = g[l] => k = l
    BY <1>4, <2>1, <2>4
  <2>7. QED
    BY <1>4, <2>3, <2>5, <2>6 DEF Holds, Elements
<1>7. ASSUME NEW c \in 2 .. Len(g), c \div 2 # 1
      PROVE  ~Less(g[c], g[c \div 2])
  <2>1. c \in 2 .. n /\ c \in Nat /\ c >= 2 /\ c < n
    BY <1>1, <1>4
  <2>2. c \div 2 \in Nat /\ 1 <= c \div 2 /\ c \div 2 < c
    BY <2>1, Halves
  <2>3. c \in DOMAIN g /\ c \div 2 \in DOMAIN g
    BY <1>1, <1>4, <2>1, <2>2
  <2>4. g[c] = h[c] /\ g[c \div 2] = h[c \div 2]
    <3>1. /\ c \in DOMAIN h /\ c # n /\ c # 1
          /\ c \div 2 \in DOMAIN h /\ c \div 2 # n /\ c \div 2 # 1
      <4> HIDE DEF n
      <4>1. c \in 1 .. n /\ c \div 2 \in 1 .. n /\ c # n /\ c # 1 /\ c \div 2 # n
        BY <1>1, <2>1, <2>2
      <4>2. QED
        BY <1>1, <1>7, <4>1
    <3>2. w[c] = h[c] /\ w[c \div 2] = h[c \div 2]
      BY <1>3, <3>1
    <3>3. QED
      BY <1>4, <2>3, <3>2
  <2>5. QED
    BY <2>1, <2>4 DEF Sorted
<1> HIDE DEF F
<1>8. <<g, 1>> \in DownInv(F)
  <2>1. <<g, 1>> \in Sifts
    BY <1>4 DEF Sifts
  <2>2. ~(1 >= 2)
    OBVIOUS
  <2>3. QED
    BY <1>6, <1>7, <2>1, <2>2 DEF DownInv
<1>9. OneSided(F)
  BY DEF OneSided, F
<1>10. Pop(h) = Down[<<g, 1>>]
  BY DEF Pop, g, w
<1>11. QED
  BY <1>8, <1>9, <1>10, DownSorts DEF F
-------------------------------------------------------------------------------
(* The heaps hold the book.                                                *)

Bids(s) == {m \in book : order[m].side = "BUY" /\ order[m].symbol = s}
Asks(s) == {m \in book : order[m].side = "SELL" /\ order[m].symbol = s}

HeapInv ==
  /\ bids \in [Symbols -> Seq(Nat)]
  /\ asks \in [Symbols -> Seq(Nat)]
  /\ \A s \in Symbols : /\ Holds(bids[s], Bids(s)) /\ Sorted(bids[s])
                        /\ Holds(asks[s], Asks(s)) /\ Sorted(asks[s])

(* An accepted order has a side and a symbol of the book.                  *)
LEMMA RestingSides ==
  ASSUME TypeOK, OrdersValid, NEW i \in DOMAIN order
  PROVE  order[i].symbol \in Symbols /\ order[i].side \in {"BUY", "SELL"}
BY OrderFields DEF OrdersValid, Valid, Order

-------------------------------------------------------------------------------
(* A step changes the heap of one side of one symbol, or none.             *)

(* What the heaps are sorted by does not change.                           *)
SameKeys ==
  \A i \in DOMAIN order :
    /\ i \in DOMAIN order'
    /\ order'[i].side = order[i].side /\ order'[i].symbol = order[i].symbol
    /\ order'[i].price = order[i].price /\ order'[i].created = order[i].created

LEMMA SortedKept ==
  ASSUME TypeOK, SameKeys, NEW h, NEW E, E \in SUBSET DOMAIN order, Holds(h, E), Sorted(h)
  PROVE  Sorted(h)'
<1>1. SUFFICES ASSUME NEW c \in 2 .. Len(h) PROVE ~Less(h[c], h[c \div 2])'
  BY DEF Sorted
<1>2. /\ Len(h) \in Nat /\ DOMAIN h = 1 .. Len(h) /\ \A k \in DOMAIN h : h[k] \in DOMAIN order
  BY DEF Holds, Elements
<1>3. c \in DOMAIN h /\ c \div 2 \in DOMAIN h
  <2>1. c \in Nat /\ c >= 2
    BY <1>2
  <2>2. c \div 2 \in Nat /\ 1 <= c \div 2 /\ c \div 2 < c
    BY <2>1, Halves
  <2>3. QED
    BY <1>2, <2>1, <2>2
<1>4. h[c] \in DOMAIN order /\ h[c \div 2] \in DOMAIN order /\ ~Less(h[c], h[c \div 2])
  BY <1>2, <1>3 DEF Sorted
<1>5. QED
  BY <1>4 DEF SameKeys, Less

(* No heap changes.                                                        *)
LEMMA HeapsKept ==
  ASSUME TypeOK, SameKeys, HeapInv, book' = book, UNCHANGED heaps
  PROVE  HeapInv'
<1>1. bids' = bids /\ asks' = asks
  BY DEF heaps
<1>2. ASSUME NEW s \in Symbols
      PROVE  Bids(s)' = Bids(s) /\ Asks(s)' = Asks(s)
  BY DEF SameKeys, TypeOK, Bids, Asks
<1>3. ASSUME NEW s \in Symbols
      PROVE  /\ Holds(bids[s], Bids(s))' /\ Sorted(bids[s])'
             /\ Holds(asks[s], Asks(s))' /\ Sorted(asks[s])'
  <2>1. Bids(s) \in SUBSET DOMAIN order /\ Asks(s) \in SUBSET DOMAIN order
    BY DEF TypeOK, Bids, Asks
  <2>2. /\ Holds(bids[s], Bids(s)) /\ Sorted(bids[s])
        /\ Holds(asks[s], Asks(s)) /\ Sorted(asks[s])
    BY DEF HeapInv
  <2>3. Sorted(bids[s])'
    <3>1. PICK h : h = bids[s]
      OBVIOUS
    <3>2. Sorted(h)'
      BY <2>1, <2>2, <3>1, SortedKept
    <3>3. bids'[s] = h
      BY <1>1, <3>1
    <3>4. QED
      BY <3>2, <3>3 DEF Sorted, Less
  <2>4. Sorted(asks[s])'
    <3>1. PICK h : h = asks[s]
      OBVIOUS
    <3>2. Sorted(h)'
      BY <2>1, <2>2, <3>1, SortedKept
    <3>3. asks'[s] = h
      BY <1>1, <3>1
    <3>4. QED
      BY <3>2, <3>3 DEF Sorted, Less
  <2>5. QED
    BY <1>1, <1>2, <2>2, <2>3, <2>4 DEF Holds, Elements
<1>4. QED
  BY <1>1, <1>3 DEF HeapInv

(* The heap of side d of symbol s becomes h, and the book B.               *)
LEMMA HeapsSet ==
  ASSUME TypeOK, SameKeys, HeapInv, OrdersValid,
         NEW d \in {"BUY", "SELL"}, NEW s \in Symbols, NEW h, SetHeap(d, s, h),
         NEW B \in SUBSET DOMAIN order,
         \A m \in DOMAIN order :
           ~(order[m].side = d /\ order[m].symbol = s) => (m \in B <=> m \in book),
         Holds(h, {m \in B : order[m].side = d /\ order[m].symbol = s}), Sorted(h)
  PROVE  book' = B /\ HeapInv'
<1> DEFINE On(e, r) == {m \in B : order[m].side = e /\ order[m].symbol = r}
<1>1. \A r : On("BUY", r) \in SUBSET DOMAIN order /\ On("SELL", r) \in SUBSET DOMAIN order
  OBVIOUS
<1>2. h \in Seq(Nat)
  BY DEF Holds
<1>3. /\ bids' \in [Symbols -> Seq(Nat)] /\ asks' \in [Symbols -> Seq(Nat)]
      /\ \A r \in Symbols : /\ bids'[r] = IF d = "BUY" /\ r = s THEN h ELSE bids[r]
                            /\ asks'[r] = IF d = "SELL" /\ r = s THEN h ELSE asks[r]
  <2>1. CASE d = "BUY"
    BY <1>2, <2>1 DEF SetHeap, HeapInv
  <2>2. CASE d = "SELL"
    BY <1>2, <2>2 DEF SetHeap, HeapInv
  <2>3. QED
    BY <2>1, <2>2
<1>4. ASSUME NEW r \in Symbols
      PROVE  /\ Holds(bids'[r], On("BUY", r)) /\ Sorted(bids'[r])
             /\ Holds(asks'[r], On("SELL", r)) /\ Sorted(asks'[r])
  <2>1. /\ Holds(bids[r], Bids(r)) /\ Sorted(bids[r])
        /\ Holds(asks[r], Asks(r)) /\ Sorted(asks[r])
    BY DEF HeapInv
  <2>2. ~(d = "BUY" /\ r = s) => On("BUY", r) = Bids(r)
    BY DEF TypeOK, Bids
  <2>3. ~(d = "SELL" /\ r = s) => On("SELL", r) = Asks(r)
    BY DEF TypeOK, Asks
  <2>4. Holds(bids'[r], On("BUY", r)) /\ Sorted(bids'[r])
    BY <1>3, <2>1, <2>2
  <2>5. Holds(asks'[r], On("SELL", r)) /\ Sorted(asks'[r])
    BY <1>3, <2>1, <2>3
  <2>6. QED
    BY <2>4, <2>5
<1>5. book' = B
  <2>1. Resting' = UNION {On("BUY", r) \cup On("SELL", r) : r \in Symbols}
    <3>1. \A r \in Symbols : /\ {bids'[r][i] : i \in DOMAIN bids'[r]} = On("BUY", r)
                             /\ {asks'[r][i] : i \in DOMAIN asks'[r]} = On("SELL", r)
      BY <1>4 DEF Holds, Elements
    <3> HIDE DEF On
    <3>2. QED
      BY <3>1 DEF Resting, Elements
  <2>2. ASSUME NEW m \in B
        PROVE  order[m].symbol \in Symbols /\ order[m].side \in {"BUY", "SELL"}
    BY RestingSides
  <2>3. \A m \in B : m \in On("BUY", order[m].symbol) \cup On("SELL", order[m].symbol)
    BY <2>2
  <2>4. UNION {On("BUY", r) \cup On("SELL", r) : r \in Symbols} = B
    BY <2>2, <2>3
  <2> HIDE DEF On
  <2>5. QED
    BY <2>1, <2>4 DEF SetHeap
<1>6. ASSUME NEW r \in Symbols
      PROVE  Bids(r)' = On("BUY", r) /\ Asks(r)' = On("SELL", r)
  BY <1>5 DEF SameKeys, Bids, Asks
<1>7. ASSUME NEW r \in Symbols
      PROVE  /\ Holds(bids[r], Bids(r))' /\ Sorted(bids[r])'
             /\ Holds(asks[r], Asks(r))' /\ Sorted(asks[r])'
  <2> HIDE DEF On
  <2>1. Sorted(bids[r])'
    <3>1. PICK g : g = bids'[r]
      OBVIOUS
    <3>2. Sorted(g)'
      BY <1>1, <1>4, <3>1, SortedKept
    <3>3. QED
      BY <3>1, <3>2 DEF Sorted, Less
  <2>2. Sorted(asks[r])'
    <3>1. PICK g : g = asks'[r]
      OBVIOUS
    <3>2. Sorted(g)'
      BY <1>1, <1>4, <3>1, SortedKept
    <3>3. QED
      BY <3>1, <3>2 DEF Sorted, Less
  <2>3. QED
    BY <1>4, <1>6, <2>1, <2>2 DEF Holds, Elements
<1>8. QED
  BY <1>3, <1>5, <1>7 DEF HeapInv

(* The heap an order meets holds the resting orders of the other side, and *)
(* its first is a best one.                                                *)
LEMMA AgainstHolds ==
  ASSUME TypeOK, OrdersValid, HeapInv, incoming # 0
  PROVE  /\ Holds(Against(incoming), Opposite(incoming))
         /\ Sorted(Against(incoming)) /\ OneSided(Opposite(incoming))
         /\ Against(incoming) = <<>> => Opposite(incoming) = {}
         /\ Against(incoming) # <<>> =>
              Against(incoming)[1] \in Best(Opposite(incoming))
<1>1. incoming \in DOMAIN order
  BY DEF TypeOK
<1>2. order[incoming].symbol \in Symbols /\ order[incoming].side \in {"BUY", "SELL"}
  BY <1>1, RestingSides
<1>3. \A m \in book : order[m].side \in {"BUY", "SELL"}
  BY RestingSides DEF TypeOK
<1>4. Holds(Against(incoming), Opposite(incoming)) /\ Sorted(Against(incoming))
  <2>1. CASE order[incoming].side = "BUY"
    <3>1. Opposite(incoming) = Asks(order[incoming].symbol)
      BY <1>3, <2>1 DEF Opposite, Asks
    <3>2. QED
      BY <1>2, <2>1, <3>1 DEF HeapInv, Against
  <2>2. CASE order[incoming].side = "SELL"
    <3>1. Opposite(incoming) = Bids(order[incoming].symbol)
      BY <1>3, <2>2 DEF Opposite, Bids
    <3>2. QED
      BY <1>2, <2>2, <3>1 DEF HeapInv, Against
  <2>3. QED
    BY <1>2, <2>1, <2>2
<1>5. OneSided(Opposite(incoming))
  BY <1>2, <1>3 DEF OneSided, Opposite, TypeOK
<1>6. Against(incoming) = <<>> => Opposite(incoming) = {}
  BY <1>4 DEF Holds, Elements
<1>7. Against(incoming) # <<>> => Against(incoming)[1] \in Best(Opposite(incoming))
  BY <1>4, <1>5, TopIsBest DEF Best
<1>8. QED
  BY <1>4, <1>5, <1>6, <1>7
-------------------------------------------------------------------------------
(* Every step of the heaps is a step of the book.                          *)

LEMMA TakeHeaps ==
  ASSUME BookInv, HeapInv, NEW k \in Kind, Take(k)
  PROVE  HeapInv'
<1>1. TypeOK /\ Accept(k) /\ UNCHANGED heaps /\ book' = book
  BY DEF BookInv, KeptInv, Take, Accept
<1>2. SameKeys
  <2>1. /\ order' \in Seq(Order) /\ Len(order') = Len(order) + 1
        /\ \A i \in DOMAIN order : order'[i] = order[i]
    BY <1>1, AcceptOrders
  <2>2. \A i \in DOMAIN order : i \in DOMAIN order'
    BY <1>1, <2>1 DEF TypeOK
  <2>3. QED
    BY <2>1, <2>2 DEF SameKeys
<1>3. QED
  BY <1>1, <1>2, HeapsKept

LEMMA MatchTopHeaps ==
  ASSUME BookInv, HeapInv, MatchTop
  PROVE  /\ HeapInv'
         /\ \E m \in Best(Opposite(incoming)) : Crosses(incoming, m) /\ Fill(m)
         /\ Against(incoming)[1] \in Best(Opposite(incoming))
<1> DEFINE top == Against(incoming)[1]
           q == MinQty(remaining, RemainingQty(top))
<1>1. /\ incoming # 0 /\ remaining > 0 /\ Against(incoming) # <<>> /\ Crosses(incoming, top)
      /\ trades' = Append(trades, Trade(incoming, top, q))
      /\ order' = [order EXCEPT ![top].filled = @ + q]
      /\ remaining' = remaining - q
      /\ IF RemainingQty(top) # q THEN UNCHANGED <<book, heaps>>
         ELSE SetHeap(order[top].side, order[top].symbol, Pop(Against(incoming)))
      /\ UNCHANGED <<incoming, unmet>>
  BY DEF MatchTop
<1>2. TypeOK /\ OrdersValid /\ Arrival
  BY DEF BookInv, KeptInv
<1>3. /\ Holds(Against(incoming), Opposite(incoming)) /\ Sorted(Against(incoming))
      /\ OneSided(Opposite(incoming)) /\ top \in Best(Opposite(incoming))
  BY <1>1, <1>2, AgainstHolds
<1>4. /\ top \in Opposite(incoming) /\ top \in book /\ top \in DOMAIN order
      /\ incoming \in DOMAIN order
  BY <1>1, <1>2, <1>3 DEF Best, Opposite, TypeOK
<1>5. order[top].symbol \in Symbols /\ order[top].side \in {"BUY", "SELL"}
      /\ order[incoming].side \in {"BUY", "SELL"}
  BY <1>2, <1>4, RestingSides
<1> HIDE DEF top, q
<1>6. SameKeys
  <2>1. order \in Seq(Order) /\ \A i \in DOMAIN order : order[i] \in Order
    BY <1>2 DEF TypeOK
  <2>2. DOMAIN order' = DOMAIN order /\ \A i \in DOMAIN order : i # top => order'[i] = order[i]
    BY <1>1, <2>1
  <2>3. order'[top] = [order[top] EXCEPT !.filled = @ + q]
    BY <1>1, <1>4, <2>1
  <2>4. /\ order'[top].side = order[top].side /\ order'[top].symbol = order[top].symbol
        /\ order'[top].price = order[top].price /\ order'[top].created = order[top].created
    BY <1>4, <2>1, <2>3 DEF Order
  <2>5. QED
    BY <2>2, <2>4 DEF SameKeys
<1>7. CASE RemainingQty(top) # q
  <2>1. book' = book /\ UNCHANGED heaps
    BY <1>1, <1>7
  <2>2. HeapInv'
    BY <1>2, <1>6, <2>1, HeapsKept
  <2>3. Fill(top)
    BY <1>1, <1>7, <2>1 DEF Fill, q
  <2>4. QED
    BY <1>1, <1>3, <2>2, <2>3 DEF top
<1>8. CASE RemainingQty(top) = q
  <2> DEFINE h == Pop(Against(incoming))
             B == book \ {top}
             d == order[top].side
             s == order[top].symbol
  <2>1. SetHeap(d, s, h)
    BY <1>1, <1>8
  <2>2. Holds(h, Opposite(incoming) \ {top}) /\ Sorted(h)
    BY <1>1, <1>2, <1>3, PopSorts DEF top
  <2>3. {m \in B : order[m].side = d /\ order[m].symbol = s} = Opposite(incoming) \ {top}
    <3>1. \A m \in book : order[m].side \in {"BUY", "SELL"}
      BY <1>2, RestingSides DEF TypeOK
    <3>2. order[top].side # order[incoming].side /\ order[top].symbol = order[incoming].symbol
      BY <1>4 DEF Opposite
    <3>3. \A m \in book : order[m].side = d <=> order[m].side # order[incoming].side
      BY <1>5, <3>1, <3>2
    <3>4. QED
      BY <3>2, <3>3 DEF Opposite
  <2>4. B \in SUBSET DOMAIN order
    BY <1>2 DEF TypeOK
  <2>5. \A m \in DOMAIN order : ~(order[m].side = d /\ order[m].symbol = s) => (m \in B <=> m \in book)
    OBVIOUS
  <2>6. Holds(h, {m \in B : order[m].side = d /\ order[m].symbol = s})
    BY <2>2, <2>3
  <2>7. d \in {"BUY", "SELL"} /\ s \in Symbols
    BY <1>5
  <2> HIDE DEF h, B, d, s
  <2>8. book' = B /\ HeapInv'
    BY <1>2, <1>6, <2>1, <2>2, <2>4, <2>5, <2>6, <2>7, HeapsSet
  <2>9. Fill(top)
    BY <1>1, <1>8, <2>8 DEF Fill, q, B
  <2>10. QED
    BY <1>1, <1>3, <2>8, <2>9 DEF top
<1>9. QED
  BY <1>7, <1>8

LEMMA PushRestHeaps ==
  ASSUME BookInv, HeapInv, PushRest
  PROVE  HeapInv' /\ Insert
<1>1. TypeOK /\ OrdersValid /\ Arrival /\ Rests
  BY DEF BookInv, KeptInv
<1>2. /\ incoming # 0
      /\ \/ remaining = 0
         \/ Against(incoming) = <<>>
         \/ Against(incoming) # <<>> /\ ~Crosses(incoming, Against(incoming)[1])
      /\ UNCHANGED <<order, trades>>
  BY DEF PushRest
<1>3. /\ incoming \in DOMAIN order /\ incoming \notin book /\ order[incoming].filled = 0
      /\ incoming \in Nat
  BY <1>1, <1>2 DEF TypeOK, Arrival
<1>4. order[incoming].symbol \in Symbols /\ order[incoming].side \in {"BUY", "SELL"}
  BY <1>1, <1>3, RestingSides
<1>5. \/ remaining = 0
      \/ Opposite(incoming) = {}
      \/ \E m \in Best(Opposite(incoming)) : ~Crosses(incoming, m)
  BY <1>1, <1>2, AgainstHolds
<1>6. RemainingQty(incoming) > 0
  <2>1. order[incoming].qty \in Int /\ order[incoming].qty > 0
    BY <1>1, <1>3, OrderFields DEF OrdersValid, Valid
  <2>2. QED
    BY <1>3, <2>1 DEF RemainingQty
<1> DEFINE d == order[incoming].side
           s == order[incoming].symbol
           h == Push(Own(incoming), incoming)
           B == book \cup {incoming}
           E == {m \in book : order[m].side = d /\ order[m].symbol = s}
<1>7. RemainingQty(incoming) \in Int
  BY <1>1, <1>3, OrderFields DEF RemainingQty
<1>8. SetHeap(d, s, h)
  BY <1>6, <1>7 DEF PushRest
<1>9. Holds(Own(incoming), E) /\ Sorted(Own(incoming))
  <2>1. CASE d = "BUY"
    <3>1. E = Bids(s)
      BY <2>1 DEF Bids
    <3>2. QED
      BY <1>4, <2>1, <3>1 DEF HeapInv, Own
  <2>2. CASE d = "SELL"
    <3>1. E = Asks(s)
      BY <2>2 DEF Asks
    <3>2. QED
      BY <1>4, <2>2, <3>1 DEF HeapInv, Own
  <2>3. QED
    BY <1>4, <2>1, <2>2
<1>10. OneSided(E \cup {incoming}) /\ incoming \notin E
  BY <1>1, <1>3 DEF OneSided, TypeOK
<1>11. {m \in B : order[m].side = d /\ order[m].symbol = s} = E \cup {incoming}
  OBVIOUS
<1>12. B \in SUBSET DOMAIN order
  BY <1>1, <1>3 DEF TypeOK
<1>13. \A m \in DOMAIN order : ~(order[m].side = d /\ order[m].symbol = s) => (m \in B <=> m \in book)
  OBVIOUS
<1>14. SameKeys
  BY <1>2 DEF SameKeys
<1>15. Holds(h, E \cup {incoming}) /\ Sorted(h)
  <2> HIDE DEF E
  <2>1. QED
    BY <1>1, <1>3, <1>9, <1>10, PushSorts
<1>a. d \in {"BUY", "SELL"} /\ s \in Symbols
  BY <1>4
<1>b. Holds(h, {m \in B : order[m].side = d /\ order[m].symbol = s})
  BY <1>11, <1>15
<1> HIDE DEF d, s, h, B, E
<1>16. book' = B /\ HeapInv'
  BY <1>1, <1>8, <1>12, <1>13, <1>14, <1>15, <1>a, <1>b, HeapsSet
<1>17. Insert
  BY <1>2, <1>5, <1>6, <1>16 DEF Insert, PushRest, B
<1>18. QED
  BY <1>16, <1>17

LEMMA HeapStep ==
  ASSUME BookInv, HeapInv, [HeapNext]_heapVars
  PROVE  HeapInv' /\ [Next]_bookVars
<1>1. ASSUME NEW k \in Kind, Len(order) < MaxOrders, Take(k)
      PROVE  HeapInv' /\ Next
  BY <1>1, TakeHeaps DEF Next, Take
<1>2. CASE MatchTop
  BY <1>2, MatchTopHeaps DEF MatchTop, MatchBest, Next
<1>3. CASE PushRest
  BY <1>3, PushRestHeaps DEF Next
<1>4. ASSUME UNCHANGED heapVars
      PROVE  HeapInv' /\ UNCHANGED bookVars
  <2>1. UNCHANGED heaps /\ UNCHANGED bookVars
    BY <1>4 DEF heapVars
  <2>2. SameKeys /\ book' = book
    BY <2>1 DEF SameKeys, bookVars
  <2>3. QED
    BY <2>1, <2>2, HeapsKept DEF BookInv, KeptInv
<1>5. CASE Quiet /\ UNCHANGED heaps
  BY <1>4, <1>5 DEF Quiet, heapVars
<1>6. QED
  BY <1>1, <1>2, <1>3, <1>4, <1>5 DEF HeapNext

LEMMA HeapInvInit == HeapInit => Init /\ HeapInv
<1> SUFFICES ASSUME HeapInit PROVE Init /\ HeapInv
  OBVIOUS
<1>1. book = {} /\ \A s \in Symbols : bids[s] = <<>> /\ asks[s] = <<>>
  BY DEF HeapInit, Init
<1>2. \A s \in Symbols : Holds(<<>>, Bids(s)) /\ Holds(<<>>, Asks(s)) /\ Sorted(<<>>)
  BY <1>1 DEF Holds, Elements, Bids, Asks, Sorted
<1>3. HeapInv
  BY <1>1, <1>2 DEF HeapInit, HeapInv
<1>4. QED
  BY <1>3 DEF HeapInit

LEMMA HeapInvariant == HeapSpec => [](BookInv /\ HeapInv)
<1>1. HeapInit => BookInv /\ HeapInv
  BY HeapInvInit, BookInvInit
<1>2. BookInv /\ HeapInv /\ [HeapNext]_heapVars => BookInv' /\ HeapInv'
  BY HeapStep, BookInvStep
<1>3. QED
  BY <1>1, <1>2, PTL DEF HeapSpec

(* The heaps of the code do what LimitBook asks of a set of resting        *)
(* orders: the top of a heap is always a best order, and no sift loses or  *)
(* keeps back an order (heap.go, orderbook.go:42-100).                     *)
THEOREM HeapsImplementBook == HeapSpec => ImplementsLimitBook
<1>1. HeapInit => Init
  BY HeapInvInit
<1>2. BookInv /\ HeapInv /\ [HeapNext]_heapVars => [Next]_bookVars
  BY HeapStep
<1>3. QED
  BY <1>1, <1>2, HeapInvariant, PTL DEF HeapSpec, ImplementsLimitBook, Spec
-------------------------------------------------------------------------------
(* Orders of one price.  None carries a time, so heap.Push puts a new      *)
(* order first only if its price is better.                                *)

Untimed == \A i \in DOMAIN order : order[i].created = 0

(* Of the orders of h that have the price of its first and arrived before  *)
(* it, each was overtaken by a pop.                                        *)
FirstExplained(h) ==
  h # <<>> => \A i \in Elements(h) :
                i < h[1] /\ order[i].price = order[h[1]].price => Overtaken(i, h[1])

TiesInv ==
  /\ Untimed
  /\ \A s \in Symbols : FirstExplained(bids[s]) /\ FirstExplained(asks[s])

(* Keys, trades made and orders used up stay what they are.                *)
Grows ==
  /\ SameKeys
  /\ \A t \in DOMAIN trades : t \in DOMAIN trades' /\ trades'[t] = trades[t]
  /\ \A i \in DOMAIN order : RemainingQty(i) = 0 => RemainingQty(i)' = 0

LEMMA MakersKnown ==
  ASSUME TypeOK, NEW t \in DOMAIN trades
  PROVE  Maker(t) \in DOMAIN order
BY TradeFields DEF Maker

LEMMA OvertakenStays ==
  ASSUME TypeOK, Grows, NEW i \in DOMAIN order, NEW m \in DOMAIN order, Overtaken(i, m)
  PROVE  Overtaken(i, m)'
<1>1. PICK t \in DOMAIN trades :
        /\ RemainingQty(Maker(t)) = 0
        /\ order[Maker(t)].side = order[i].side
        /\ order[Maker(t)].symbol = order[i].symbol
        /\ ~Less(i, Maker(t))
        /\ m < Taker(t)
  BY DEF Overtaken
<1>2. PICK x \in DOMAIN order : x = Maker(t)
  BY MakersKnown
<1>3. t \in DOMAIN trades' /\ Maker(t)' = x /\ Taker(t)' = Taker(t)
  BY <1>2 DEF Grows, Maker, Taker
<1>4. RemainingQty(x)' = 0
  BY <1>1, <1>2 DEF Grows
<1>5. /\ order'[x].side = order'[i].side /\ order'[x].symbol = order'[i].symbol
      /\ ~Less(i, x)'
  BY <1>1, <1>2 DEF Grows, SameKeys, Less
<1>6. /\ RemainingQty(Maker(t))' = 0
      /\ ~Less(i, Maker(t))'
  BY <1>3, <1>4, <1>5 DEF RemainingQty, Less
<1>7. QED
  BY <1>1, <1>3, <1>5, <1>6 DEF Overtaken

LEMMA FirstStays ==
  ASSUME TypeOK, Grows, NEW h \in Seq(Nat), Elements(h) \subseteq DOMAIN order, FirstExplained(h)
  PROVE  FirstExplained(h)'
<1> SUFFICES ASSUME h # <<>>, NEW i \in Elements(h), i < h[1],
                    order'[i].price = order'[h[1]].price
             PROVE  Overtaken(i, h[1])'
  BY DEF FirstExplained, Elements
<1>1. h[1] \in DOMAIN order /\ i \in DOMAIN order
  BY DEF Elements
<1>2. order[i].price = order[h[1]].price
  BY <1>1 DEF Grows, SameKeys
<1>3. Overtaken(i, h[1])
  BY <1>2 DEF FirstExplained
<1>4. PICK m \in DOMAIN order : m = h[1]
  BY <1>1
<1>5. Overtaken(i, m)'
  BY <1>1, <1>3, <1>4, OvertakenStays
<1>6. QED
  BY <1>4, <1>5

(* A heap holds orders.                                                    *)
LEMMA HeapsHold ==
  ASSUME TypeOK, HeapInv, NEW s \in Symbols
  PROVE  /\ bids[s] \in Seq(Nat) /\ Elements(bids[s]) \subseteq DOMAIN order
         /\ asks[s] \in Seq(Nat) /\ Elements(asks[s]) \subseteq DOMAIN order
BY DEF TypeOK, HeapInv, Holds, Bids, Asks

(* No heap changes.                                                        *)
LEMMA TiesKept ==
  ASSUME TypeOK, HeapInv, TiesInv, Grows, Untimed', UNCHANGED heaps
  PROVE  TiesInv'
<1>1. bids' = bids /\ asks' = asks
  BY DEF heaps
<1>2. ASSUME NEW s \in Symbols
      PROVE  FirstExplained(bids[s])' /\ FirstExplained(asks[s])'
  <2>1. PICK b \in Seq(Nat) : b = bids[s]
    BY HeapsHold
  <2>2. PICK a \in Seq(Nat) : a = asks[s]
    BY HeapsHold
  <2>3. FirstExplained(b)' /\ FirstExplained(a)'
    BY <2>1, <2>2, HeapsHold, FirstStays DEF TiesInv
  <2>4. bids'[s] = b /\ asks'[s] = a
    BY <1>1, <2>1, <2>2
  <2>5. QED
    BY <2>3, <2>4 DEF FirstExplained
<1>3. QED
  BY <1>2 DEF TiesInv

(* The heap of side d of symbol s becomes h.                               *)
LEMMA TiesSet ==
  ASSUME TypeOK, HeapInv, TiesInv, Grows, Untimed',
         NEW d \in {"BUY", "SELL"}, NEW s \in Symbols, NEW h \in Seq(Nat), SetHeap(d, s, h),
         FirstExplained(h)'
  PROVE  TiesInv'
<1>1. \A r \in Symbols : /\ bids'[r] = IF d = "BUY" /\ r = s THEN h ELSE bids[r]
                         /\ asks'[r] = IF d = "SELL" /\ r = s THEN h ELSE asks[r]
  <2>1. CASE d = "BUY"
    BY <2>1 DEF SetHeap, HeapInv
  <2>2. CASE d = "SELL"
    BY <2>2 DEF SetHeap, HeapInv
  <2>3. QED
    BY <2>1, <2>2
<1>2. ASSUME NEW r \in Symbols
      PROVE  FirstExplained(bids[r])' /\ FirstExplained(asks[r])'
  <2>1. PICK b \in Seq(Nat) : b = bids[r]
    BY HeapsHold
  <2>2. PICK a \in Seq(Nat) : a = asks[r]
    BY HeapsHold
  <2>3. FirstExplained(b)' /\ FirstExplained(a)'
    BY <2>1, <2>2, HeapsHold, FirstStays DEF TiesInv
  <2>4. bids'[r] \in {b, h} /\ asks'[r] \in {a, h}
    BY <1>1, <2>1, <2>2
  <2>5. QED
    BY <2>3, <2>4 DEF FirstExplained
<1>3. QED
  BY <1>2 DEF TiesInv

(* heap.Push leaves the first order where it is, or the new one is better. *)
LEMMA PushFirst ==
  ASSUME NEW h \in Seq(Nat), h # <<>>, NEW i \in Nat
  PROVE  \/ Push(h, i)[1] = h[1]
         \/ Push(h, i)[1] = i /\ Less(i, h[1])
<1> DEFINE g == Append(h, i)
           n == Len(h) + 1
           I == {s \in Sifts : /\ s[2] \in DOMAIN s[1]
                               /\ s[1][s[2]] = i
                               /\ s[2] # 1 => s[1][1] = h[1]
                               /\ s[2] = 1 => Less(i, h[1])}
           left == [t \in Sifts |-> t[2]]
<1>1. I \in SUBSET Sifts /\ left \in [Sifts -> Nat]
  BY DEF Sifts
<1>2. ASSUME NEW t \in I \ UpStop
      PROVE  UpNext[t] \in I /\ left[UpNext[t]] < left[t]
  <2>1. PICK k \in Seq(Nat), j \in Nat \ {0} : t = <<k, j>>
    BY DEF Sifts
  <2>2. /\ j \in 2 .. Len(k) /\ Less(k[j], k[j \div 2]) /\ t \in Sifts
        /\ UpNext[t] = <<Swap(k, j, j \div 2), j \div 2>>
    BY <2>1 DEF UpStop, UpNext
  <2>3. k[j] = i /\ k[1] = h[1]
    BY <2>1, <2>2
  <2> DEFINE p == j \div 2
             f == Swap(k, j, p)
  <2>4. p \in Nat \ {0} /\ p < j /\ j >= 2 /\ j <= Len(k) /\ Len(k) \in Nat
    BY <2>1, <2>2, Halves
  <2> HIDE DEF p, f
  <2>5. j \in DOMAIN k /\ p \in DOMAIN k /\ 1 \in DOMAIN k
    BY <2>1, <2>4
  <2>6. /\ f \in Seq(Nat) /\ DOMAIN f = DOMAIN k
        /\ \A l \in DOMAIN k : f[l] = IF l = p THEN k[j] ELSE IF l = j THEN k[p] ELSE k[l]
    <3>1. k \in Seq(Nat)
      BY <2>1
    <3>2. QED
      BY <2>5, <3>1, SwapFact DEF f
  <2>7. /\ f[p] = i
        /\ p # 1 => f[1] = h[1]
        /\ p = 1 => Less(i, h[1])
    <3>1. Less(i, k[p])
      BY <2>2, <2>3 DEF p
    <3>2. 1 # j
      BY <2>4
    <3>3. QED
      BY <2>3, <2>5, <2>6, <3>1, <3>2
  <2>8. <<f, p>> \in Sifts
    BY <2>4, <2>6 DEF Sifts
  <2>9. <<f, p>> \in I
    BY <2>5, <2>6, <2>7, <2>8
  <2>10. UpNext[t] = <<f, p>>
    BY <2>2 DEF f, p
  <2>11. left[UpNext[t]] = p /\ left[t] = j
    <3>1. left[<<f, p>>] = p /\ left[<<k, j>>] = j
      BY <2>1, <2>2, <2>8
    <3>2. QED
      BY <2>1, <2>10, <3>1
  <2>12. QED
    BY <2>4, <2>9, <2>10, <2>11
<1>3. <<g, n>> \in I
  <2>1. /\ g \in Seq(Nat) /\ n \in Nat \ {0} /\ n # 1 /\ n \in DOMAIN g
        /\ g[n] = i /\ g[1] = h[1]
    OBVIOUS
  <2> HIDE DEF g, n
  <2>2. QED
    BY <2>1 DEF Sifts
<1> HIDE DEF left, I, g, n
<1>4. PICK t \in I \cap UpStop : Up[<<g, n>>] = HeapOf[t]
  BY <1>1, <1>2, <1>3, UpSolves, LoopEnds
<1>5. Push(h, i) = t[1]
  BY <1>1, <1>4 DEF HeapOf, Push, g, n
<1>6. QED
  BY <1>4, <1>5 DEF I

LEMMA UntimedStep ==
  ASSUME BookInv, Untimed, [Next]_bookVars
  PROVE  Untimed'
<1>1. /\ TypeOK /\ order \in Seq(Order) /\ Len(order) \in Nat
      /\ DOMAIN order = 1 .. Len(order)
  BY DEF BookInv, KeptInv, TypeOK
<1>2. \A i \in DOMAIN order : order[i].created = 0
  BY DEF Untimed
<1>3. ASSUME NEW k \in Kind, Accept(k)
      PROVE  Untimed'
  <2> DEFINE n == Len(order) + 1
             new == [side |-> k.side, symbol |-> k.symbol, price |-> k.price,
                     qty |-> k.qty, filled |-> 0, created |-> 0]
  <2>1. order' = Append(order, new) /\ new.created = 0
    BY <1>3 DEF Accept
  <2> HIDE DEF new
  <2>2. DOMAIN order' = 1 .. n /\ order'[n] = new /\ \A i \in DOMAIN order : order'[i] = order[i]
    BY <1>1, <2>1
  <2>3. QED
    BY <1>1, <1>2, <2>1, <2>2 DEF Untimed
<1>4. CASE MatchBest
  <2>1. PICK m \in Best(Opposite(incoming)) : Fill(m)
    BY <1>4 DEF MatchBest
  <2> DEFINE q == MinQty(remaining, RemainingQty(m))
  <2>2. order' = [order EXCEPT ![m].filled = @ + q]
    BY <2>1 DEF Fill
  <2> HIDE DEF q
  <2>3. \A i \in DOMAIN order : order[i] \in Order
    BY <1>1
  <2>4. DOMAIN order' = DOMAIN order /\ \A i \in DOMAIN order : order'[i].created = order[i].created
    BY <1>1, <2>2, <2>3 DEF Order
  <2>5. QED
    BY <1>2, <2>4 DEF Untimed
<1>5. CASE UNCHANGED order
  BY <1>2, <1>5 DEF Untimed
<1>6. QED
  BY <1>3, <1>4, <1>5 DEF Next, Insert, Quiet, bookVars

LEMMA TakeTies ==
  ASSUME BookInv, HeapInv, TiesInv, NEW k \in Kind, Take(k), Untimed'
  PROVE  TiesInv'
<1>1. TypeOK /\ Accept(k) /\ UNCHANGED heaps /\ trades' = trades
  BY DEF BookInv, KeptInv, Take, Accept
<1>2. /\ order' \in Seq(Order) /\ Len(order') = Len(order) + 1
      /\ \A i \in DOMAIN order : order'[i] = order[i]
  BY <1>1, AcceptOrders
<1>3. \A i \in DOMAIN order : i \in DOMAIN order'
  BY <1>1, <1>2 DEF TypeOK
<1>4. Grows
  BY <1>1, <1>2, <1>3 DEF Grows, SameKeys, RemainingQty
<1>5. QED
  BY <1>1, <1>4, TiesKept

LEMMA MatchTopTies ==
  ASSUME BookInv, HeapInv, TiesInv, MatchTop, Untimed', BookInv'
  PROVE  TiesInv'
<1>a. PICK top : top = Against(incoming)[1]
  OBVIOUS
<1>b. PICK q : q = MinQty(remaining, RemainingQty(top))
  OBVIOUS
<1>c. PICK now : now = incoming
  OBVIOUS
<1>1. /\ incoming # 0 /\ remaining > 0 /\ Against(incoming) # <<>>
      /\ trades' = Append(trades, Trade(incoming, top, q))
      /\ order' = [order EXCEPT ![top].filled = @ + q]
      /\ IF RemainingQty(top) # q THEN UNCHANGED <<book, heaps>>
         ELSE SetHeap(order[top].side, order[top].symbol, Pop(Against(incoming)))
  BY <1>a, <1>b DEF MatchTop
<1>2. TypeOK /\ OrdersValid /\ Arrival /\ Rests
  BY DEF BookInv, KeptInv
<1>3. /\ Holds(Against(incoming), Opposite(incoming)) /\ Sorted(Against(incoming))
      /\ OneSided(Opposite(incoming)) /\ top \in Best(Opposite(incoming))
  BY <1>1, <1>2, <1>a, AgainstHolds
<1>4. /\ top \in Opposite(incoming) /\ top \in book /\ top \in DOMAIN order
      /\ incoming \in DOMAIN order /\ top < incoming
      /\ \A i \in Opposite(incoming) : ~Less(i, top)
  BY <1>1, <1>2, <1>3 DEF Best, Opposite, TypeOK, Arrival
<1>5. order[top].symbol \in Symbols /\ order[top].side \in {"BUY", "SELL"}
      /\ order[incoming].side \in {"BUY", "SELL"}
  BY <1>2, <1>4, RestingSides
<1>6. RemainingQty(top) > 0 /\ RemainingQty(top) \in Int
  <2>1. order[top].filled \in Int /\ order[top].qty \in Int /\ order[top].filled < order[top].qty
    BY <1>2, <1>4, OrderFields DEF Rests
  <2>2. QED
    BY <2>1 DEF RemainingQty
<1>7. /\ DOMAIN order' = DOMAIN order
      /\ \A i \in DOMAIN order : i # top => order'[i] = order[i]
      /\ order'[top] = [order[top] EXCEPT !.filled = @ + q]
      /\ order[top] \in Order
  BY <1>1, <1>2, <1>4 DEF TypeOK
<1>8. /\ order'[top].side = order[top].side /\ order'[top].symbol = order[top].symbol
      /\ order'[top].price = order[top].price /\ order'[top].created = order[top].created
      /\ order'[top].qty = order[top].qty /\ order'[top].filled = order[top].filled + q
  BY <1>7 DEF Order
<1>9. SameKeys
  BY <1>7, <1>8 DEF SameKeys
<1>10. \A i \in DOMAIN order : RemainingQty(i) = 0 => RemainingQty(i)' = 0
  BY <1>6, <1>7 DEF RemainingQty
<1>11. /\ Len(trades) \in Nat /\ Len(trades') = Len(trades) + 1
       /\ DOMAIN trades = 1 .. Len(trades) /\ DOMAIN trades' = 1 .. Len(trades) + 1
       /\ \A t \in DOMAIN trades : trades'[t] = trades[t]
       /\ trades'[Len(trades) + 1] = Trade(incoming, top, q)
  BY <1>1, <1>2 DEF TypeOK
<1>12. Grows
  BY <1>9, <1>10, <1>11 DEF Grows
<1>13. CASE RemainingQty(top) # q
  BY <1>1, <1>2, <1>12, <1>13, TiesKept
<1>14. CASE RemainingQty(top) = q
  <2>a. PICK h : h = Pop(Against(incoming))
    OBVIOUS
  <2>b. PICK n : n = Len(trades) + 1
    OBVIOUS
  <2>1. SetHeap(order[top].side, order[top].symbol, h)
    BY <1>1, <1>14, <2>a
  <2>2. Holds(h, Opposite(incoming) \ {top})
    BY <1>1, <1>2, <1>3, <1>a, <2>a, PopSorts
  <2>3. h \in Seq(Nat) /\ Elements(h) = Opposite(incoming) \ {top}
    BY <2>2 DEF Holds
  <2>4. n \in DOMAIN trades' /\ Maker(n)' = top /\ Taker(n)' = now
    <3>1. top \in Nat /\ incoming \in Nat /\ top < incoming
      BY <1>2, <1>4 DEF TypeOK
    <3>2. \/ trades'[n].buy = now /\ trades'[n].sell = top
          \/ trades'[n].buy = top /\ trades'[n].sell = now
      BY <1>11, <1>c, <2>b DEF Trade
    <3>3. n \in DOMAIN trades'
      BY <1>11, <2>b
    <3>4. QED
      BY <1>c, <3>1, <3>2, <3>3 DEF Maker, Taker
  <2>5. RemainingQty(top)' = 0
    <3>1. order[top].qty \in Int /\ order[top].filled \in Int
      BY <1>2, <1>4, OrderFields
    <3>2. QED
      BY <1>8, <1>14, <3>1 DEF RemainingQty
  <2>6. ASSUME NEW i \in Opposite(incoming), NEW m \in Opposite(incoming)
        PROVE  Overtaken(i, m)'
    <3>1. i \in DOMAIN order /\ m \in DOMAIN order /\ m < incoming
      BY <1>1, <1>2 DEF Opposite, TypeOK, Arrival
    <3>2. order[top].side = order[i].side /\ order[top].symbol = order[i].symbol
      BY <1>3, <1>4 DEF Opposite, OneSided
    <3>3. order'[top].side = order'[i].side /\ order'[top].symbol = order'[i].symbol
      BY <1>4, <1>9, <3>1, <3>2 DEF SameKeys
    <3>4. ~Less(i, top)'
      BY <1>4, <1>9, <3>1 DEF SameKeys, Less
    <3>5. RemainingQty(Maker(n))' = 0 /\ ~Less(i, Maker(n))'
      BY <2>4, <2>5, <3>4 DEF RemainingQty, Less
    <3>6. QED
      BY <1>c, <2>4, <3>1, <3>3, <3>5 DEF Overtaken
  <2>7. FirstExplained(h)'
    <3>1. h # <<>> => h[1] \in Opposite(incoming) /\ Elements(h) \subseteq Opposite(incoming)
      BY <2>3 DEF Elements
    <3>2. ASSUME h # <<>>, NEW i \in Elements(h)
          PROVE  Overtaken(i, h[1])'
      <4>1. PICK m \in Opposite(incoming) : m = h[1]
        BY <3>1, <3>2
      <4>2. Overtaken(i, m)'
        BY <2>6, <3>1, <3>2
      <4>3. QED
        BY <4>1, <4>2
    <3>3. QED
      BY <3>2 DEF FirstExplained, Elements
  <2>8. QED
    BY <1>2, <1>5, <1>12, <2>1, <2>3, <2>7, TiesSet
<1>15. QED
  BY <1>13, <1>14

LEMMA PushRestTies ==
  ASSUME BookInv, HeapInv, TiesInv, PushRest, Untimed'
  PROVE  TiesInv'
<1>1. TypeOK /\ OrdersValid /\ Arrival /\ Rests
  BY DEF BookInv, KeptInv
<1>2. incoming # 0 /\ UNCHANGED <<order, trades>>
  BY DEF PushRest
<1>3. /\ incoming \in DOMAIN order /\ incoming \notin book /\ order[incoming].filled = 0
      /\ incoming \in Nat /\ \A i \in DOMAIN order : i <= incoming
  BY <1>1, <1>2 DEF TypeOK, Arrival
<1>4. order[incoming].symbol \in Symbols /\ order[incoming].side \in {"BUY", "SELL"}
  BY <1>1, <1>3, RestingSides
<1>5. Grows
  BY <1>2 DEF Grows, SameKeys, RemainingQty
<1>6. CASE RemainingQty(incoming) <= 0
  <2>1. UNCHANGED heaps
    BY <1>6 DEF PushRest
  <2>2. QED
    BY <1>1, <1>5, <2>1, TiesKept
<1>7. CASE ~(RemainingQty(incoming) <= 0)
  <2>a. PICK d \in {"BUY", "SELL"} : d = order[incoming].side
    BY <1>4
  <2>b. PICK s \in Symbols : s = order[incoming].symbol
    BY <1>4
  <2>c. PICK o : o = Own(incoming)
    OBVIOUS
  <2>d. PICK h : h = Push(o, incoming)
    OBVIOUS
  <2> DEFINE E == {m \in book : order[m].side = d /\ order[m].symbol = s}
  <2>1. SetHeap(d, s, h)
    BY <1>7, <2>a, <2>b, <2>c, <2>d DEF PushRest
  <2>2. Holds(o, E) /\ Sorted(o) /\ FirstExplained(o)
    <3>1. CASE d = "BUY"
      <4>1. E = Bids(s) /\ o = bids[s]
        BY <2>a, <2>b, <2>c, <3>1 DEF Bids, Own
      <4>2. QED
        BY <1>4, <4>1 DEF HeapInv, TiesInv
    <3>2. CASE d = "SELL"
      <4>1. E = Asks(s) /\ o = asks[s]
        BY <2>a, <2>b, <2>c, <3>2 DEF Asks, Own
      <4>2. QED
        BY <1>4, <4>1 DEF HeapInv, TiesInv
    <3>3. QED
      BY <3>1, <3>2
  <2>3. OneSided(E \cup {incoming}) /\ incoming \notin E /\ E \subseteq DOMAIN order
    BY <1>1, <1>3, <2>a, <2>b DEF OneSided, TypeOK
  <2>4. \A i \in E : order[i].side = order[incoming].side
    BY <2>a
  <2> HIDE DEF E
  <2>5. Holds(h, E \cup {incoming})
    BY <1>1, <1>3, <2>2, <2>3, <2>d, PushSorts
  <2>6. h \in Seq(Nat) /\ Elements(h) = E \cup {incoming} /\ o \in Seq(Nat) /\ Elements(o) = E
    BY <2>2, <2>5 DEF Holds
  <2>7. FirstExplained(h)
    <3>1. SUFFICES ASSUME h # <<>>, NEW i \in Elements(h), i < h[1],
                          order[i].price = order[h[1]].price
                   PROVE  Overtaken(i, h[1])
      BY DEF FirstExplained
    <3>2. h[1] \in E \cup {incoming} /\ h[1] <= incoming /\ i \in E
      <4>1. h[1] \in Elements(h)
        BY <2>6, <3>1 DEF Elements
      <4>2. h[1] \in DOMAIN order
        BY <1>3, <2>3, <2>6, <4>1
      <4>3. h[1] <= incoming /\ h[1] \in Nat /\ i \in Nat
        BY <1>1, <1>3, <2>3, <2>6, <4>2, <3>1 DEF TypeOK
      <4>4. QED
        BY <1>3, <2>6, <3>1, <4>1, <4>3
    <3>3. o # <<>> /\ o[1] \in E /\ \A m \in E : ~Less(m, o[1])
      <4>1. o # <<>>
        BY <2>6, <3>2 DEF Elements
      <4>2. OneSided(E)
        BY <2>3 DEF OneSided
      <4>3. QED
        BY <1>1, <2>2, <4>1, <4>2, TopIsBest
    <3>4. CASE h[1] = o[1]
      BY <2>2, <2>6, <3>1, <3>2, <3>3, <3>4 DEF FirstExplained
    <3>5. CASE h[1] = incoming /\ Less(incoming, o[1])
      <4>1. Less(i, o[1])
        <5>1. /\ order[i].price = order[incoming].price
              /\ order[i].side = order[incoming].side
          BY <2>4, <3>1, <3>2, <3>5
        <5>2. order[i].created = 0 /\ order[incoming].created = 0
          BY <1>3, <2>3, <3>2 DEF TiesInv, Untimed
        <5>3. QED
          BY <3>5, <5>1, <5>2 DEF Less
      <4>2. QED
        BY <3>2, <3>3, <4>1
    <3>6. h[1] = o[1] \/ (h[1] = incoming /\ Less(incoming, o[1]))
      BY <1>3, <2>6, <2>d, <3>3, PushFirst
    <3>7. QED
      BY <3>4, <3>5, <3>6
  <2>8. Elements(h) \subseteq DOMAIN order
    BY <1>3, <2>3, <2>6
  <2>9. FirstExplained(h)'
    BY <1>1, <1>5, <2>6, <2>7, <2>8, FirstStays
  <2>10. QED
    BY <1>1, <1>5, <2>1, <2>6, <2>9, TiesSet
<1>8. QED
  BY <1>6, <1>7

LEMMA TiesStep ==
  ASSUME BookInv, HeapInv, TiesInv, [HeapNext]_heapVars
  PROVE  TiesInv'
<1>1. [Next]_bookVars
  BY HeapStep
<1>2. Untimed' /\ BookInv'
  BY <1>1, UntimedStep, BookInvStep DEF TiesInv
<1>3. ASSUME NEW k \in Kind, Take(k)
      PROVE  TiesInv'
  BY <1>2, <1>3, TakeTies
<1>4. CASE MatchTop
  BY <1>2, <1>4, MatchTopTies
<1>5. CASE PushRest
  BY <1>2, <1>5, PushRestTies
<1>6. CASE UNCHANGED bookVars /\ UNCHANGED heaps
  <2>1. Grows
    BY <1>6 DEF bookVars, Grows, SameKeys, RemainingQty
  <2>2. QED
    BY <1>2, <1>6, <2>1, TiesKept DEF BookInv, KeptInv
<1>7. QED
  BY <1>3, <1>4, <1>5, <1>6 DEF HeapNext, Quiet, heapVars

LEMMA TiesInit == HeapInit => TiesInv
BY DEF HeapInit, Init, TiesInv, Untimed, FirstExplained

(* Equal prices are not served in the order of arrival, but no order gets  *)
(* before an earlier one of its price by being inserted: it takes a pop    *)
(* while both rest (heap.go:39-44, 58-63, orderbook.go:42-100).            *)
THEOREM OvertakingExplained == HeapSpec => OvertakingOnlyByPop
<1>1. BookInv /\ HeapInv /\ TiesInv /\ [HeapNext]_heapVars => [TradesOvertakeByPop]_heapVars
  <2> SUFFICES ASSUME BookInv, HeapInv, TiesInv, HeapNext, Len(trades') > Len(trades)
               PROVE  TradesOvertakeByPop
    BY DEF TradesOvertakeByPop
  <2>1. TypeOK /\ OrdersValid /\ Arrival
    BY DEF BookInv, KeptInv
  <2>2. MatchTop
    <3>1. Len(trades) \in Nat
      BY <2>1 DEF TypeOK
    <3>2. trades' # trades
      BY <3>1
    <3>3. QED
      BY <3>2 DEF HeapNext, Take, Accept, PushRest, Quiet, bookVars
  <2> DEFINE top == Against(incoming)[1]
             q == MinQty(remaining, RemainingQty(top))
             t == trades'[Len(trades')]
  <2>3. trades' = Append(trades, Trade(incoming, top, q)) /\ incoming # 0
        /\ Against(incoming) # <<>>
    BY <2>2 DEF MatchTop
  <2>4. Holds(Against(incoming), Opposite(incoming)) /\ top \in Opposite(incoming)
    BY <2>1, <2>3, AgainstHolds DEF Best
  <2>5. FirstExplained(Against(incoming))
    <3>1. order[incoming].symbol \in Symbols
      BY <2>1, <2>3, RestingSides DEF TypeOK
    <3>2. QED
      BY <3>1 DEF TiesInv, Against
  <2>6. \A i \in Opposite(incoming) :
          i < top /\ order[i].price = order[top].price => Overtaken(i, top)
    BY <2>3, <2>4, <2>5 DEF FirstExplained, Holds
  <2> HIDE DEF top, q
  <2>7. t = Trade(incoming, top, q)
    BY <2>1, <2>3 DEF TypeOK
  <2>8. top # incoming
    BY <2>1, <2>3, <2>4 DEF Opposite, Arrival
  <2>9. (IF t.buy = incoming THEN t.sell ELSE t.buy) = top
    BY <2>7, <2>8 DEF Trade
  <2>10. QED
    BY <2>6, <2>9 DEF TradesOvertakeByPop
<1>2. HeapInit => TiesInv
  BY TiesInit
<1>3. BookInv /\ HeapInv /\ TiesInv /\ [HeapNext]_heapVars => TiesInv'
  BY TiesStep
<1>4. QED
  BY <1>1, <1>2, <1>3, HeapInvariant, PTL DEF HeapSpec, OvertakingOnlyByPop
-------------------------------------------------------------------------------
(* The engine *)

Faultless == crashes = 0 /\ faults = 0

(* Where reading goes on: a process that is down will start from the       *)
(* committed offset.                                                       *)
Reach == IF phase = "down" THEN committed ELSE position

Reads(o) == {i \in DOMAIN from : from[i] = o}

(* A message has been read once more than failures and crashes account for *)
(* only if reading has passed it for good.                                 *)
HandlingInv ==
  /\ \A o \in 1 .. position : IsOrder(topic[o]) => Reads(o) # {}
  /\ \A i \in DOMAIN from : IsOrder(topic[from[i]])
  /\ \A o \in DOMAIN topic :
       Cardinality(Reads(o)) <= crashes + faults + (IF o <= Reach THEN 1 ELSE 0)
  /\ Faultless => /\ phase = "down" => committed = position
                  /\ \A i, j \in DOMAIN from : from[j] <= position /\ (i < j => from[i] < from[j])

(* The trades are published up to sent, and all of them between messages.  *)
ReportingInv ==
  /\ phase = "matching" <=> incoming # 0
  /\ phase \in {"reading", "down"} => sent = Len(trades)
  /\ Faultless => published = [t \in 1 .. sent |-> t]

EngineInv == EngineTypeOK /\ KeptInv /\ HandlingInv /\ ReportingInv

(* Only committed orders are in the topic.                                 *)
OutboxInv ==
  /\ row \in [Orders -> {"absent", "PENDING", "PROCESSED", "FAILED"}]
  /\ payload \in [Orders -> Inputs \cup {Malformed}]
  /\ log \in [{1} -> Seq(Orders)]
  /\ \A o \in Orders : row[o] # "absent" => payload[o] \in Inputs

(* Each message in the topic says what its committed order does, and each  *)
(* order of the engine has the quantity of the message it was read from.   *)
CopiesInv ==
  /\ Len(topic) = Len(log[1])
  /\ \A i \in DOMAIN log[1] : topic[i] = payload[log[1][i]] /\ row[log[1][i]] # "absent"
  /\ \A i \in DOMAIN from : order[i].qty = topic[from[i]].qty
-------------------------------------------------------------------------------
(* The book, as the engine uses it *)

LEMMA AppendFact ==
  ASSUME NEW S, NEW seq \in Seq(S), NEW x \in S
  PROVE  /\ Append(seq, x) \in Seq(S) /\ Len(Append(seq, x)) = Len(seq) + 1
         /\ DOMAIN Append(seq, x) = 1 .. Len(seq) + 1
         /\ Append(seq, x)[Len(seq) + 1] = x
         /\ \A i \in DOMAIN seq : Append(seq, x)[i] = seq[i]
OBVIOUS

LEMMA WiderSeq ==
  ASSUME NEW S, NEW T, S \subseteq T, NEW seq \in Seq(S)
  PROVE  seq \in Seq(T)
OBVIOUS

LEMMA KeptMatch ==
  ASSUME KeptInv, MatchBest
  PROVE  /\ KeptInv' /\ TypeOK' /\ Len(order') = Len(order) /\ incoming' = incoming
         /\ Len(trades') = Len(trades) + 1
         /\ \A i \in DOMAIN order : order'[i].qty = order[i].qty
<1>1. PICK m \in Best(Opposite(incoming)) : Crosses(incoming, m) /\ Fill(m)
  BY DEF MatchBest
<1>2. /\ m \in Opposite(incoming) /\ incoming # 0 /\ remaining > 0
  BY DEF MatchBest, Best
<1>3. KeptInv' /\ Len(trades') = Len(trades) + 1
  BY <1>1, <1>2, KeptFill
<1>4. /\ Len(order') = Len(order) /\ incoming' = incoming
      /\ \A i \in DOMAIN order : order'[i].qty = order[i].qty
  BY <1>1, <1>2, FillOrders DEF KeptInv, Fill
<1>5. QED
  BY <1>3, <1>4 DEF KeptInv

LEMMA KeptLeft ==
  ASSUME KeptInv, Insert \/ ForgetBook
  PROVE  KeptInv' /\ TypeOK' /\ UNCHANGED <<order, trades>> /\ incoming' = 0
<1>1. KeptInv'
  BY KeptInsert, KeptForget
<1>2. QED
  BY <1>1 DEF KeptInv, Insert, ForgetBook
-------------------------------------------------------------------------------
(* Reading *)

LEMMA Numbers ==
  ASSUME EngineTypeOK
  PROVE  /\ Len(topic) \in Nat /\ DOMAIN topic = 1 .. Len(topic)
         /\ position \in Nat /\ position <= Len(topic)
         /\ committed \in Nat /\ committed <= position
         /\ Len(from) \in Nat /\ DOMAIN from = 1 .. Len(from)
         /\ \A i \in DOMAIN from : from[i] \in 1 .. Len(topic)
         /\ Len(trades) \in Nat /\ sent \in Nat /\ sent <= Len(trades)
         /\ DOMAIN trades = 1 .. Len(trades)
         /\ crashes \in Nat /\ faults \in Nat
         /\ MaxCrashes \in Nat /\ MaxFaults \in Nat
<1>1. topic \in Seq(Inputs) /\ Len(topic) \in Nat /\ DOMAIN topic = 1 .. Len(topic)
  BY DEF EngineTypeOK
<1>2. position \in Nat /\ position <= Len(topic)
  BY <1>1 DEF EngineTypeOK
<1>3. committed \in Nat /\ committed <= position
  BY <1>2 DEF EngineTypeOK
<1>4. from \in Seq(1 .. Len(topic))
  BY DEF EngineTypeOK
<1>5. /\ Len(from) \in Nat /\ DOMAIN from = 1 .. Len(from)
      /\ \A i \in DOMAIN from : from[i] \in 1 .. Len(topic)
  BY <1>4
<1>6. trades \in Seq(TradeType) /\ sent \in 0 .. Len(trades)
  BY DEF EngineTypeOK, TypeOK, TradeType
<1>7. Len(trades) \in Nat /\ DOMAIN trades = 1 .. Len(trades)
  BY <1>6
<1>8. sent \in Nat /\ sent <= Len(trades)
  BY <1>6, <1>7
<1>9. crashes \in Nat /\ faults \in Nat /\ MaxCrashes \in Nat /\ MaxFaults \in Nat
  BY EngineAssumption DEF EngineTypeOK
<1>10. QED
  BY <1>1, <1>2, <1>3, <1>5, <1>7, <1>8, <1>9

LEMMA ReadsFinite ==
  ASSUME EngineTypeOK, NEW o
  PROVE  IsFiniteSet(Reads(o)) /\ Cardinality(Reads(o)) \in Nat
<1>1. IsFiniteSet(1 .. Len(from)) /\ Reads(o) \in SUBSET (1 .. Len(from))
  BY Numbers, FS_Interval DEF Reads
<1>2. QED
  BY <1>1, FS_Subset, FS_CardinalityType

(* Nothing is read; the engine may stop, fail, start and commit.           *)
LEMMA NotReading ==
  ASSUME EngineTypeOK, HandlingInv, UNCHANGED <<topic, from>>,
         position' \in Nat, position' <= position, committed' \in Nat,
         \/ UNCHANGED <<crashes, faults>> /\ Reach' = Reach
         \/ crashes' = crashes + 1 /\ faults' = faults
         \/ crashes' = crashes /\ faults' = faults + 1,
         Faultless' => position' = position /\ (phase' = "down" => committed' = position')
  PROVE  HandlingInv'
<1>1. \A o : Reads(o)' = Reads(o)
  BY DEF Reads
<1>2. crashes \in Nat /\ faults \in Nat
  BY Numbers
<1>3. \A o \in 1 .. position' : IsOrder(topic'[o]) => Reads(o)' # {}
  BY <1>1, Numbers DEF HandlingInv
<1>4. \A i \in DOMAIN from' : IsOrder(topic'[from'[i]])
  BY DEF HandlingInv
<1>5. ASSUME NEW o \in DOMAIN topic'
      PROVE  Cardinality(Reads(o)') <= crashes' + faults' + (IF o <= Reach' THEN 1 ELSE 0)
  <2>1. /\ Reads(o)' = Reads(o) /\ Cardinality(Reads(o)) \in Nat
        /\ Cardinality(Reads(o)) <= crashes + faults + (IF o <= Reach THEN 1 ELSE 0)
    BY <1>1, ReadsFinite DEF HandlingInv
  <2>2. CASE UNCHANGED <<crashes, faults>> /\ Reach' = Reach
    BY <2>1, <2>2
  <2>3. CASE crashes' = crashes + 1 /\ faults' = faults
    BY <1>2, <2>1, <2>3
  <2>4. CASE crashes' = crashes /\ faults' = faults + 1
    BY <1>2, <2>1, <2>4
  <2>5. QED
    BY <2>2, <2>3, <2>4
<1>6. Faultless' => /\ phase' = "down" => committed' = position'
                    /\ \A i, j \in DOMAIN from' : from'[j] <= position' /\ (i < j => from'[i] < from'[j])
  <2>1. Faultless' => Faultless
    BY Numbers DEF Faultless
  <2>2. QED
    BY <2>1 DEF HandlingInv
<1>7. QED
  BY <1>3, <1>4, <1>5, <1>6 DEF HandlingInv

LEMMA ProduceHandling ==
  ASSUME EngineTypeOK, HandlingInv, NEW messages \in Seq(Inputs), Produce(messages)
  PROVE  HandlingInv'
<1>1. /\ topic' = topic \o messages
      /\ UNCHANGED <<position, committed, phase, from, faults, crashes>>
  BY DEF Produce
<1>2. /\ topic \in Seq(Inputs) /\ DOMAIN topic \subseteq DOMAIN topic'
      /\ \A o \in DOMAIN topic : topic'[o] = topic[o]
  BY <1>1 DEF EngineTypeOK
<1>3. \A o : Reads(o)' = Reads(o)
  BY <1>1 DEF Reads
<1>4. ASSUME NEW o \in 1 .. position', IsOrder(topic'[o]) PROVE Reads(o)' # {}
  <2>1. o \in 1 .. position /\ o \in DOMAIN topic
    BY <1>1, Numbers
  <2>2. IsOrder(topic[o])
    BY <1>2, <1>4, <2>1
  <2>3. QED
    BY <1>3, <2>1, <2>2 DEF HandlingInv
<1>5. \A i \in DOMAIN from' : IsOrder(topic'[from'[i]])
  BY <1>1, <1>2, Numbers DEF HandlingInv
<1>6. ASSUME NEW o \in DOMAIN topic'
      PROVE  Cardinality(Reads(o)') <= crashes' + faults' + (IF o <= Reach' THEN 1 ELSE 0)
  <2>1. Reads(o)' = Reads(o) /\ Reach' = Reach
    BY <1>1, <1>3 DEF Reach
  <2>2. CASE o \in DOMAIN topic
    BY <1>1, <2>1, <2>2 DEF HandlingInv
  <2>3. CASE o \notin DOMAIN topic
    <3>1. Reads(o) = {}
      BY <2>3, Numbers DEF Reads
    <3>2. Cardinality(Reads(o)') = 0
      BY <2>1, <3>1, FS_EmptySet
    <3>3. QED
      BY <1>1, <3>2, Numbers
  <2>4. QED
    BY <2>2, <2>3
<1>7. Faultless' => /\ phase' = "down" => committed' = position'
                    /\ \A i, j \in DOMAIN from' : from'[j] <= position' /\ (i < j => from'[i] < from'[j])
  BY <1>1 DEF HandlingInv, Faultless
<1>8. QED
  BY <1>4, <1>5, <1>6, <1>7 DEF HandlingInv

LEMMA DropHandling ==
  ASSUME EngineTypeOK, HandlingInv, Drop
  PROVE  HandlingInv'
<1>1. /\ phase = "reading" /\ position < Len(topic) /\ ~IsOrder(topic[position + 1])
      /\ position' = position + 1
      /\ UNCHANGED <<topic, committed, phase, from, faults, crashes>>
  BY DEF Drop
<1>2. \A o : Reads(o)' = Reads(o)
  BY <1>1 DEF Reads
<1>3. ASSUME NEW o \in 1 .. position', IsOrder(topic'[o]) PROVE Reads(o)' # {}
  <2>1. o \in 1 .. position \/ o = position + 1
    BY <1>1, Numbers
  <2>2. IsOrder(topic[o])
    BY <1>1, <1>3
  <2>3. o \in 1 .. position
    BY <1>1, <2>1, <2>2
  <2>4. QED
    BY <1>2, <2>2, <2>3 DEF HandlingInv
<1>4. \A i \in DOMAIN from' : IsOrder(topic'[from'[i]])
  BY <1>1 DEF HandlingInv
<1>5. ASSUME NEW o \in DOMAIN topic'
      PROVE  Cardinality(Reads(o)') <= crashes' + faults' + (IF o <= Reach' THEN 1 ELSE 0)
  <2>1. /\ Reads(o)' = Reads(o) /\ Cardinality(Reads(o)) \in Nat
        /\ Cardinality(Reads(o)) <= crashes + faults + (IF o <= position THEN 1 ELSE 0)
    BY <1>1, <1>2, ReadsFinite DEF HandlingInv, Reach
  <2>2. Reach' = position + 1
    BY <1>1 DEF Reach
  <2>3. o \in Nat /\ position \in Nat /\ crashes \in Nat /\ faults \in Nat
    BY <1>1, Numbers
  <2>4. (IF o <= position THEN 1 ELSE 0) <= (IF o <= Reach' THEN 1 ELSE 0)
    BY <2>2, <2>3
  <2>5. QED
    BY <1>1, <2>1, <2>3, <2>4
<1>6. Faultless' => /\ phase' = "down" => committed' = position'
                    /\ \A i, j \in DOMAIN from' : from'[j] <= position' /\ (i < j => from'[i] < from'[j])
  <2> SUFFICES ASSUME Faultless', NEW i \in DOMAIN from, NEW j \in DOMAIN from
               PROVE  from[j] <= position + 1 /\ (i < j => from[i] < from[j])
    BY <1>1
  <2>1. Faultless
    BY <1>1 DEF Faultless
  <2>2. from[j] <= position /\ from[j] \in Nat /\ (i < j => from[i] < from[j])
    BY <2>1, Numbers DEF HandlingInv
  <2>3. QED
    BY <2>2, Numbers
<1>7. QED
  BY <1>3, <1>4, <1>5, <1>6 DEF HandlingInv

LEMMA HandleHandling ==
  ASSUME EngineTypeOK, HandlingInv, Handle
  PROVE  HandlingInv'
<1> DEFINE n == Len(from) + 1
           next == position + 1
<1>1. /\ phase = "reading" /\ position < Len(topic) /\ IsOrder(topic[next])
      /\ position' = next /\ from' = Append(from, next) /\ phase' = "matching"
      /\ UNCHANGED <<topic, committed, faults, crashes>>
  BY DEF Handle
<1>2. next \in DOMAIN topic /\ next \in 1 .. Len(topic) /\ next \in Nat /\ next > position
  BY <1>1, Numbers
<1>3. /\ DOMAIN from' = 1 .. n /\ from'[n] = next
      /\ \A i \in DOMAIN from : from'[i] = from[i]
  <2>1. from \in Seq(DOMAIN topic)
    BY DEF EngineTypeOK
  <2> HIDE DEF next
  <2>2. QED
    BY <1>1, <1>2, <2>1, AppendFact
<1>4. Len(from) \in Nat /\ DOMAIN from = 1 .. Len(from) /\ n \notin DOMAIN from
  BY Numbers
<1> HIDE DEF n, next
<1>5. \A i \in DOMAIN from' : i \in DOMAIN from \/ i = n
  BY <1>3, <1>4 DEF n
<1>6. DOMAIN from \subseteq DOMAIN from' /\ n \in DOMAIN from'
  BY <1>3, <1>4 DEF n
<1>7. \A o : Reads(o)' = IF o = next THEN Reads(o) \cup {n} ELSE Reads(o)
  BY <1>3, <1>4, <1>5, <1>6 DEF Reads
<1>8. ASSUME NEW o \in 1 .. position', IsOrder(topic'[o]) PROVE Reads(o)' # {}
  <2>1. CASE o = next
    BY <1>7, <2>1
  <2>2. CASE o # next
    <3>1. o \in 1 .. position
      BY <1>1, <2>2, Numbers DEF next
    <3>2. QED
      BY <1>1, <1>7, <1>8, <2>2, <3>1 DEF HandlingInv
  <2>3. QED
    BY <2>1, <2>2
<1>9. \A i \in DOMAIN from' : IsOrder(topic'[from'[i]])
  BY <1>1, <1>3, <1>5 DEF HandlingInv
<1>10. ASSUME NEW o \in DOMAIN topic'
       PROVE  Cardinality(Reads(o)') <= crashes' + faults' + (IF o <= Reach' THEN 1 ELSE 0)
  <2>1. /\ IsFiniteSet(Reads(o)) /\ Cardinality(Reads(o)) \in Nat
        /\ Cardinality(Reads(o)) <= crashes + faults + (IF o <= position THEN 1 ELSE 0)
        /\ o \in Nat /\ Reach' = next
    BY <1>1, ReadsFinite, Numbers DEF HandlingInv, Reach
  <2>2. CASE o = next
    <3>1. /\ Cardinality(Reads(o) \cup {n}) =
               IF n \in Reads(o) THEN Cardinality(Reads(o)) ELSE Cardinality(Reads(o)) + 1
      BY <2>1, FS_AddElement
    <3>2. ~(o <= position)
      BY <1>2, <2>2, Numbers
    <3>3. Cardinality(Reads(o)') <= Cardinality(Reads(o)) + 1 /\ Cardinality(Reads(o)') \in Nat
      BY <1>7, <2>1, <2>2, <3>1
    <3>4. crashes \in Nat /\ faults \in Nat
      BY Numbers
    <3>5. Cardinality(Reads(o)) <= crashes + faults /\ o <= next
      BY <2>1, <2>2, <3>2, <3>4
    <3>6. QED
      BY <1>1, <2>1, <3>3, <3>4, <3>5
  <2>3. CASE o # next
    <3>1. Reads(o)' = Reads(o)
      BY <1>7, <2>3
    <3>2. o <= position => o <= next
      BY <1>2, <2>1, Numbers
    <3>3. QED
      BY <1>1, <2>1, <3>1, <3>2, Numbers
  <2>4. QED
    BY <2>2, <2>3
<1>11. Faultless' => /\ phase' = "down" => committed' = position'
                     /\ \A i, j \in DOMAIN from' : from'[j] <= position' /\ (i < j => from'[i] < from'[j])
  <2> SUFFICES ASSUME Faultless', NEW i \in DOMAIN from', NEW j \in DOMAIN from'
               PROVE  from'[j] <= position' /\ (i < j => from'[i] < from'[j])
    BY <1>1
  <2>1. Faultless
    BY <1>1 DEF Faultless
  <2>2. \A h \in DOMAIN from : from[h] <= position /\ from[h] \in Nat
    <3>1. \A h \in DOMAIN from : from[h] <= position
      BY <2>1 DEF HandlingInv
    <3>2. \A h \in DOMAIN from : from[h] \in Nat
      BY Numbers
    <3>3. QED
      BY <3>1, <3>2
  <2>3. \A h \in DOMAIN from : from'[h] <= position' /\ from'[h] < next
    <3>1. \A h \in DOMAIN from : from'[h] <= position /\ from'[h] \in Nat
      BY <1>3, <2>2
    <3>2. position \in Nat /\ position < next /\ next \in Nat /\ position' = next
      BY <1>1, <1>2, Numbers
    <3>3. QED
      BY <3>1, <3>2
  <2>4. CASE j = n
    BY <1>1, <1>2, <1>3, <1>4, <1>5, <2>3, <2>4
  <2>5. CASE j # n
    <3>1. j \in DOMAIN from
      BY <1>5, <2>5
    <3>2. i < j => i \in DOMAIN from
      BY <1>4, <1>5, <3>1 DEF n
    <3>3. QED
      BY <1>3, <2>1, <2>3, <3>1, <3>2 DEF HandlingInv
  <2>6. QED
    BY <2>4, <2>5
<1>12. QED
  BY <1>8, <1>9, <1>10, <1>11 DEF HandlingInv
-------------------------------------------------------------------------------
(* The engine's steps *)

LEMMA BookKept ==
  ASSUME KeptInv, UNCHANGED bookVars
  PROVE  KeptInv' /\ TypeOK'
BY KeptUnchanged DEF KeptInv

LEMMA ProduceInv ==
  ASSUME EngineInv, NEW messages \in Seq(Inputs), Produce(messages)
  PROVE  EngineInv'
<1>1. /\ topic' = topic \o messages
      /\ UNCHANGED <<bookVars, position, committed, phase, from, sent, published, faults, stops, crashes>>
  BY DEF Produce
<1>2. EngineTypeOK /\ KeptInv /\ HandlingInv /\ ReportingInv
  BY DEF EngineInv
<1>3. topic' \in Seq(Inputs) /\ Len(topic') \in Nat /\ Len(topic) <= Len(topic')
  BY <1>1, <1>2 DEF EngineTypeOK
<1>4. from \in Seq(1 .. Len(topic'))
  <2>1. 1 .. Len(topic) \subseteq 1 .. Len(topic')
    BY <1>2, <1>3, Numbers
  <2>2. from \in Seq(1 .. Len(topic))
    BY <1>2 DEF EngineTypeOK
  <2>3. QED
    BY <2>1, <2>2, WiderSeq
<1>5. KeptInv' /\ TypeOK' /\ UNCHANGED <<order, trades, incoming>>
  BY <1>1, <1>2, BookKept DEF bookVars
<1>6. EngineTypeOK'
  BY <1>1, <1>2, <1>3, <1>4, <1>5, Numbers DEF EngineTypeOK
<1>7. HandlingInv'
  BY <1>2, ProduceHandling
<1>8. ReportingInv'
  BY <1>1, <1>2, <1>5 DEF ReportingInv, Faultless
<1>9. QED
  BY <1>5, <1>6, <1>7, <1>8 DEF EngineInv

LEMMA DropInv ==
  ASSUME EngineInv, Drop
  PROVE  EngineInv'
<1>1. /\ position' = position + 1 /\ position < Len(topic)
      /\ UNCHANGED <<bookVars, topic, committed, phase, from, sent, published, faults, stops, crashes>>
  BY DEF Drop
<1>2. EngineTypeOK /\ KeptInv /\ HandlingInv /\ ReportingInv
  BY DEF EngineInv
<1>3. KeptInv' /\ TypeOK' /\ UNCHANGED <<order, trades, incoming>>
  BY <1>1, <1>2, BookKept DEF bookVars
<1>4. EngineTypeOK'
  BY <1>1, <1>2, <1>3, Numbers DEF EngineTypeOK
<1>5. HandlingInv'
  BY <1>2, DropHandling
<1>6. ReportingInv'
  BY <1>1, <1>2, <1>3 DEF ReportingInv, Faultless
<1>7. QED
  BY <1>3, <1>4, <1>5, <1>6 DEF EngineInv

LEMMA HandleInv ==
  ASSUME EngineInv, Handle
  PROVE  EngineInv'
<1>1. /\ phase = "reading" /\ position' = position + 1 /\ position < Len(topic)
      /\ IsOrder(topic[position + 1]) /\ Accept(topic[position + 1])
      /\ from' = Append(from, position + 1) /\ phase' = "matching"
      /\ UNCHANGED <<topic, committed, sent, published, faults, stops, crashes>>
  BY DEF Handle
<1>2. EngineTypeOK /\ KeptInv /\ HandlingInv /\ ReportingInv
  BY DEF EngineInv
<1>3. position + 1 \in 1 .. Len(topic) /\ position + 1 \in Nat
  BY <1>1, <1>2, Numbers
<1>4. topic[position + 1] \in Kind
  <2>1. topic[position + 1] \in Inputs
    BY <1>2, <1>3 DEF EngineTypeOK
  <2>2. QED
    BY <1>1, <2>1, EngineAssumption DEF IsOrder
<1>5. KeptInv' /\ TypeOK' /\ Len(order') = Len(order) + 1 /\ trades' = trades /\ incoming' # 0
  BY <1>1, <1>2, <1>4, KeptAccept DEF KeptInv
<1>6. from' \in Seq(1 .. Len(topic)) /\ Len(from') = Len(from) + 1
  <2>1. from \in Seq(1 .. Len(topic)) /\ from' = Append(from, position + 1)
    BY <1>1, <1>2 DEF EngineTypeOK
  <2>2. QED
    BY <1>3, <2>1
<1>7. EngineTypeOK'
  BY <1>1, <1>2, <1>3, <1>5, <1>6, Numbers DEF EngineTypeOK
<1>8. HandlingInv'
  BY <1>2, HandleHandling
<1>9. ReportingInv'
  BY <1>1, <1>2, <1>5 DEF ReportingInv, Faultless
<1>10. QED
  BY <1>5, <1>7, <1>8, <1>9 DEF EngineInv

LEMMA MatchInv ==
  ASSUME EngineInv, Match
  PROVE  EngineInv'
<1>1. /\ phase = "matching" /\ MatchBest
      /\ UNCHANGED <<topic, position, committed, phase, from, sent, published, faults, stops, crashes>>
  BY DEF Match, engineVars
<1>2. EngineTypeOK /\ KeptInv /\ HandlingInv /\ ReportingInv
  BY DEF EngineInv
<1>3. KeptInv' /\ TypeOK' /\ Len(order') = Len(order) /\ incoming' = incoming /\ Len(trades') = Len(trades) + 1
  BY <1>1, <1>2, KeptMatch
<1>4. sent \in 0 .. Len(trades')
  BY <1>2, <1>3, Numbers
<1>5. published \in Seq(DOMAIN trades')
  <2>1. Len(trades') \in Nat /\ DOMAIN trades' = 1 .. Len(trades')
    BY <1>3 DEF TypeOK
  <2>2. DOMAIN trades \subseteq DOMAIN trades'
    BY <1>2, <1>3, <2>1, Numbers
  <2>3. published \in Seq(DOMAIN trades)
    BY <1>2 DEF EngineTypeOK
  <2>4. QED
    BY <2>2, <2>3, WiderSeq
<1>6. EngineTypeOK'
  BY <1>1, <1>2, <1>3, <1>4, <1>5 DEF EngineTypeOK
<1>7. HandlingInv'
  BY <1>1, <1>2, NotReading, Numbers DEF Reach, HandlingInv, Faultless
<1>8. ReportingInv'
  BY <1>1, <1>2, <1>3 DEF ReportingInv, Faultless
<1>9. QED
  BY <1>3, <1>6, <1>7, <1>8 DEF EngineInv

LEMMA InsertRestInv ==
  ASSUME EngineInv, InsertRest
  PROVE  EngineInv'
<1>1. /\ phase = "matching" /\ Insert /\ phase' = "publishing"
      /\ UNCHANGED <<topic, position, committed, from, sent, published, faults, stops, crashes>>
  BY DEF InsertRest
<1>2. EngineTypeOK /\ KeptInv /\ HandlingInv /\ ReportingInv
  BY DEF EngineInv
<1>3. KeptInv' /\ TypeOK' /\ UNCHANGED <<order, trades>> /\ incoming' = 0
  BY <1>1, <1>2, KeptLeft
<1>4. EngineTypeOK'
  BY <1>1, <1>2, <1>3 DEF EngineTypeOK
<1>5. HandlingInv'
  BY <1>1, <1>2, NotReading, Numbers DEF Reach, HandlingInv, Faultless
<1>6. ReportingInv'
  BY <1>1, <1>2, <1>3 DEF ReportingInv, Faultless
<1>7. QED
  BY <1>3, <1>4, <1>5, <1>6 DEF EngineInv

(* One trade is published, with or without a fault.                        *)
LEMMA PublishInv ==
  ASSUME EngineInv, PublishTrade \/ PublishFault
  PROVE  EngineInv'
<1>1. /\ phase = "publishing" /\ sent < Len(trades) /\ sent' = sent + 1
      /\ UNCHANGED <<bookVars, topic, position, committed, phase, from, stops, crashes>>
      /\ \/ published' = Append(published, sent + 1) /\ faults' = faults
         \/ /\ published' \in {published, Append(published, sent + 1),
                                published \o <<sent + 1, sent + 1>>}
            /\ faults' = faults + 1
  BY DEF PublishTrade, PublishFault
<1>2. EngineTypeOK /\ KeptInv /\ HandlingInv /\ ReportingInv
  BY DEF EngineInv
<1>3. KeptInv' /\ TypeOK' /\ UNCHANGED <<order, trades, incoming>>
  BY <1>1, <1>2, BookKept DEF bookVars
<1>4. sent + 1 \in DOMAIN trades /\ sent + 1 \in Nat
  <2>1. /\ Len(trades) \in Nat /\ sent \in Nat
        /\ DOMAIN trades = 1 .. Len(trades)
    BY <1>2, Numbers
  <2>2. sent < Len(trades)
    BY <1>1
  <2>3. QED
    BY <2>1, <2>2
<1>5. published' \in Seq(DOMAIN trades)
  <2>1. published \in Seq(DOMAIN trades)
    BY <1>2 DEF EngineTypeOK
  <2>2. <<sent + 1, sent + 1>> \in Seq(DOMAIN trades)
    BY <1>4
  <2>3. /\ Append(published, sent + 1) \in Seq(DOMAIN trades)
        /\ published \o <<sent + 1, sent + 1>> \in Seq(DOMAIN trades)
    BY <1>4, <2>1, <2>2
  <2>4. QED
    BY <1>1, <2>1, <2>3
<1>6. faults' \in Nat
  BY <1>1, <1>2, Numbers
<1>7. EngineTypeOK'
  BY <1>1, <1>2, <1>3, <1>4, <1>5, <1>6, Numbers DEF EngineTypeOK
<1>8. HandlingInv'
  <2>1. phase # "down" /\ phase' # "down" /\ Reach' = Reach
    BY <1>1 DEF Reach
  <2>2. QED
    BY <1>1, <1>2, <2>1, NotReading, Numbers
<1>9. ASSUME Faultless' PROVE published' = [t \in 1 .. sent' |-> t]
  <2>1. Faultless /\ faults' = faults
    BY <1>1, <1>2, <1>9, Numbers DEF Faultless
  <2>2. published' = Append(published, sent + 1)
    BY <1>1, <1>2, <2>1, Numbers
  <2>3. published = [t \in 1 .. sent |-> t] /\ sent \in Nat
    BY <1>2, <2>1, Numbers DEF ReportingInv
  <2>4. QED
    BY <1>1, <2>2, <2>3
<1>10. ReportingInv'
  BY <1>1, <1>2, <1>3, <1>9 DEF ReportingInv
<1>11. QED
  BY <1>3, <1>7, <1>8, <1>10 DEF EngineInv

LEMMA BetweenInv ==
  ASSUME EngineInv, HandlerReturns \/ CommitTick
  PROVE  EngineInv'
<1>1. /\ UNCHANGED <<bookVars, topic, position, from, sent, published, faults, stops, crashes>>
      /\ phase # "down" /\ phase' # "down"
      /\ \/ phase' = "reading" /\ phase = "publishing" /\ sent = Len(trades) /\ committed' = committed
         \/ phase' = phase /\ committed' = position
  BY DEF HandlerReturns, CommitTick
<1>2. EngineTypeOK /\ KeptInv /\ HandlingInv /\ ReportingInv
  BY DEF EngineInv
<1>3. KeptInv' /\ TypeOK' /\ UNCHANGED <<order, trades, incoming>>
  BY <1>1, <1>2, BookKept DEF bookVars
<1>4. committed' \in 0 .. position /\ committed' \in Nat
  BY <1>1, <1>2, Numbers
<1>5. EngineTypeOK'
  BY <1>1, <1>2, <1>3, <1>4 DEF EngineTypeOK
<1>6. HandlingInv'
  <2>1. Reach' = Reach
    BY <1>1 DEF Reach
  <2>2. QED
    BY <1>1, <1>2, <1>4, <2>1, NotReading, Numbers
<1>7. ReportingInv'
  BY <1>1, <1>2, <1>3 DEF ReportingInv, Faultless
<1>8. QED
  BY <1>3, <1>5, <1>6, <1>7 DEF EngineInv

LEMMA StopInv ==
  ASSUME EngineInv, Stop
  PROVE  EngineInv'
<1>1. /\ phase = "reading" /\ phase' = "down" /\ stops' = stops + 1 /\ ForgetBook
      /\ UNCHANGED <<topic, position, from, sent, published, crashes>>
      /\ \/ committed' = position /\ faults' = faults
         \/ committed' = committed /\ faults' = faults + 1
  BY DEF Stop
<1>2. EngineTypeOK /\ KeptInv /\ HandlingInv /\ ReportingInv
  BY DEF EngineInv
<1>3. KeptInv' /\ TypeOK' /\ UNCHANGED <<order, trades>> /\ incoming' = 0
  BY <1>1, <1>2, KeptLeft
<1>4. committed' \in 0 .. position /\ committed' \in Nat /\ faults' \in Nat
  BY <1>1, <1>2, Numbers
<1>5. EngineTypeOK'
  BY <1>1, <1>2, <1>3, <1>4 DEF EngineTypeOK
<1>6. HandlingInv'
  <2>1. Faultless' => committed' = position /\ Reach' = Reach
    BY <1>1, <1>2, Numbers DEF Faultless, Reach
  <2>2. UNCHANGED <<crashes, faults>> => Reach' = Reach
    BY <1>1, <1>2, Numbers DEF Reach
  <2>3. QED
    BY <1>1, <1>2, <1>4, <2>1, <2>2, NotReading, Numbers
<1>7. Faultless' => Faultless
  BY <1>1, <1>2, Numbers DEF Faultless
<1>8. ReportingInv'
  BY <1>1, <1>2, <1>3, <1>7 DEF ReportingInv
<1>9. QED
  BY <1>3, <1>5, <1>6, <1>8 DEF EngineInv

LEMMA CrashInv ==
  ASSUME EngineInv, Crash
  PROVE  EngineInv'
<1>1. /\ phase' = "down" /\ crashes' = crashes + 1 /\ sent' = Len(trades) /\ ForgetBook
      /\ UNCHANGED <<topic, position, committed, from, published, faults, stops>>
  BY DEF Crash
<1>2. EngineTypeOK /\ KeptInv /\ HandlingInv /\ ReportingInv
  BY DEF EngineInv
<1>3. KeptInv' /\ TypeOK' /\ UNCHANGED <<order, trades>> /\ incoming' = 0
  BY <1>1, <1>2, KeptLeft
<1>4. ~Faultless' /\ crashes' \in Nat
  BY <1>1, <1>2, Numbers DEF Faultless
<1>5. EngineTypeOK'
  BY <1>1, <1>2, <1>3, <1>4, Numbers DEF EngineTypeOK
<1>6. HandlingInv'
  BY <1>1, <1>2, <1>4, NotReading, Numbers
<1>7. ReportingInv'
  BY <1>1, <1>2, <1>3, <1>4 DEF ReportingInv
<1>8. QED
  BY <1>3, <1>5, <1>6, <1>7 DEF EngineInv

LEMMA RestartInv ==
  ASSUME EngineInv, Restart
  PROVE  EngineInv'
<1>1. /\ phase = "down" /\ phase' = "reading" /\ position' = committed
      /\ UNCHANGED <<bookVars, topic, committed, from, sent, published, faults, stops, crashes>>
  BY DEF Restart
<1>2. EngineTypeOK /\ KeptInv /\ HandlingInv /\ ReportingInv
  BY DEF EngineInv
<1>3. KeptInv' /\ TypeOK' /\ UNCHANGED <<order, trades, incoming>>
  BY <1>1, <1>2, BookKept DEF bookVars
<1>4. EngineTypeOK'
  BY <1>1, <1>2, <1>3, Numbers DEF EngineTypeOK
<1>5. HandlingInv'
  <2>1. Reach' = Reach
    BY <1>1 DEF Reach
  <2>2. Faultless' => position' = position
    BY <1>1, <1>2 DEF Faultless, HandlingInv
  <2>3. QED
    BY <1>1, <1>2, <2>1, <2>2, NotReading, Numbers
<1>6. ReportingInv'
  BY <1>1, <1>2, <1>3 DEF ReportingInv, Faultless
<1>7. QED
  BY <1>3, <1>4, <1>5, <1>6 DEF EngineInv

LEMMA ProcessInv == EngineInv /\ EngineProcess => EngineInv'
BY DropInv, HandleInv, MatchInv, InsertRestInv, PublishInv, BetweenInv, StopInv, CrashInv,
   RestartInv DEF EngineProcess, EngineStep
-------------------------------------------------------------------------------
(* The pipeline *)

IInv == EngineInv /\ OutboxInv /\ CopiesInv

LEMMA Log ==
  ASSUME OutboxInv, CopiesInv, EngineTypeOK
  PROVE  /\ log[1] \in Seq(Orders) /\ Len(log[1]) \in Nat
         /\ DOMAIN log[1] = 1 .. Len(log[1]) /\ DOMAIN topic = DOMAIN log[1]
         /\ \A i \in DOMAIN log[1] : log[1][i] \in Orders
         /\ \A i \in DOMAIN from : from[i] \in DOMAIN log[1]
<1>1. log[1] \in Seq(Orders) /\ Len(topic) = Len(log[1])
  BY DEF OutboxInv, CopiesInv
<1>2. QED
  BY <1>1, Numbers

(* The engine never changes the quantity of an order.                      *)
LEMMA ProcessCopies ==
  ASSUME EngineInv, OutboxInv, CopiesInv, EngineProcess, UNCHANGED <<payload, row, log>>
  PROVE  CopiesInv'
<1>1. EngineTypeOK /\ KeptInv /\ TypeOK
  BY DEF EngineInv, KeptInv
<1>2. DOMAIN order = DOMAIN from
  BY <1>1, Numbers DEF EngineTypeOK, TypeOK
<1>3. topic' = topic
  BY DEF EngineProcess, EngineStep, Drop, Handle, Match, InsertRest, PublishTrade, HandlerReturns,
         PublishFault, CommitTick, Stop, Crash, Restart, engineVars
<1>4. CASE Handle
  <2>1. /\ position < Len(topic) /\ Accept(topic[position + 1])
        /\ from' = Append(from, position + 1) /\ IsOrder(topic[position + 1])
    BY <1>4 DEF Handle
  <2>2. position + 1 \in 1 .. Len(topic)
    BY <1>1, <2>1, Numbers
  <2>3. topic[position + 1] \in Inputs
    BY <1>1, <2>2 DEF EngineTypeOK
  <2>4. topic[position + 1] \in Kind
    BY <2>1, <2>3, EngineAssumption DEF IsOrder
  <2>5. /\ \A i \in DOMAIN order : order'[i] = order[i]
        /\ order'[Len(order) + 1].qty = topic[position + 1].qty
    BY <1>1, <2>1, <2>4, AcceptOrders
  <2>6. /\ DOMAIN from' = 1 .. Len(from) + 1 /\ from'[Len(from) + 1] = position + 1
        /\ \A i \in DOMAIN from : from'[i] = from[i]
    BY <1>1, <2>1, <2>2, AppendFact DEF EngineTypeOK
  <2>7. \A i \in DOMAIN from' : i \in DOMAIN from \/ i = Len(from) + 1
    BY <1>1, <2>6, Numbers
  <2>8. Len(from) = Len(order)
    BY <1>1 DEF EngineTypeOK
  <2>9. \A i \in DOMAIN from' : order'[i].qty = topic'[from'[i]].qty
    BY <1>2, <1>3, <2>5, <2>6, <2>7, <2>8 DEF CopiesInv
  <2>10. QED
    BY <1>3, <2>9 DEF CopiesInv
<1>5. CASE Match
  <2>1. MatchBest /\ from' = from
    BY <1>5 DEF Match, engineVars
  <2>2. \A i \in DOMAIN order : order'[i].qty = order[i].qty
    BY <1>1, <2>1, KeptMatch
  <2>3. QED
    BY <1>2, <1>3, <2>1, <2>2 DEF CopiesInv
<1>6. CASE ~Handle /\ ~Match
  <2>1. order' = order /\ from' = from
    BY <1>6 DEF EngineProcess, EngineStep, Drop, InsertRest, Insert, PublishTrade, HandlerReturns,
       PublishFault, CommitTick, Stop, Crash, Restart, ForgetBook, bookVars
  <2>2. QED
    BY <1>3, <2>1 DEF CopiesInv
<1>7. QED
  BY <1>4, <1>5, <1>6

LEMMA InitIInv == PipelineInit => IInv
<1> SUFFICES ASSUME PipelineInit PROVE IInv
  OBVIOUS
<1>1. EngineInit /\ Outbox!OInit /\ payload = [o \in Orders |-> Malformed]
  BY DEF PipelineInit
<1>2. KeptInv /\ TypeOK
  BY <1>1, BookInvInit DEF EngineInit, BookInv, KeptInv
<1>3. EngineTypeOK
  BY <1>1, <1>2 DEF EngineInit, Init, EngineTypeOK
<1>4. HandlingInv
  <2>1. /\ topic = <<>> /\ from = <<>> /\ position = 0 /\ phase = "reading"
    BY <1>1 DEF EngineInit
  <2>2. QED
    BY <2>1 DEF HandlingInv
<1>5. ReportingInv
  <2>1. published = <<>> /\ sent = 0 /\ trades = <<>> /\ incoming = 0 /\ phase = "reading"
    BY <1>1 DEF EngineInit, Init
  <2>2. QED
    BY <2>1 DEF ReportingInv
<1>6. OutboxInv
  <2>1. row = [m \in Orders |-> "absent"] /\ log = [q \in {1} |-> <<>>]
    BY <1>1 DEF Outbox!OInit
  <2>2. QED
    BY <1>1, <2>1 DEF OutboxInv
<1>7. CopiesInv
  <2>1. log[1] = <<>> /\ topic = <<>> /\ from = <<>>
    BY <1>1 DEF Outbox!OInit, EngineInit
  <2>2. QED
    BY <2>1 DEF CopiesInv
<1>8. QED
  BY <1>2, <1>3, <1>4, <1>5, <1>6, <1>7 DEF IInv, EngineInv

LEMMA EngineKept ==
  ASSUME EngineInv, UNCHANGED allVars
  PROVE  EngineInv'
<1>1. UNCHANGED <<bookVars, topic, position, committed, phase, from, sent, published, faults, stops, crashes>>
  BY DEF allVars, engineVars
<1>2. EngineTypeOK /\ KeptInv /\ HandlingInv /\ ReportingInv
  BY DEF EngineInv
<1>3. KeptInv' /\ TypeOK' /\ UNCHANGED <<order, trades, incoming>>
  BY <1>1, <1>2, BookKept DEF bookVars
<1>4. EngineTypeOK'
  BY <1>1, <1>2, <1>3 DEF EngineTypeOK
<1>5. HandlingInv'
  BY <1>1, <1>2 DEF HandlingInv, Reads, Reach, Faultless
<1>6. ReportingInv'
  BY <1>1, <1>2, <1>3 DEF ReportingInv, Faultless
<1>7. QED
  BY <1>3, <1>4, <1>5, <1>6 DEF EngineInv

LEMMA CommitIInv ==
  ASSUME IInv, NEW o \in Orders, Commit(o)
  PROVE  IInv'
<1>1. PICK m \in Payloads[o] : payload' = [payload EXCEPT ![o] = m]
  BY DEF Commit
<1>2. row' = [row EXCEPT ![o] = "PENDING"] /\ log' = log /\ UNCHANGED allVars
  BY DEF Commit, Outbox!Insert
<1>3. m \in Inputs
  BY PipelineAssumption
<1>4. OutboxInv'
  BY <1>1, <1>2, <1>3 DEF IInv, OutboxInv
<1>5. row[o] = "absent" /\ UNCHANGED <<topic, from, order>>
  BY <1>2 DEF Commit, Outbox!Insert, allVars, bookVars, engineVars
<1>6. CopiesInv'
  <2>1. ASSUME NEW i \in DOMAIN log[1]
        PROVE  topic'[i] = payload'[log[1][i]] /\ row'[log[1][i]] # "absent"
    <3>1. log[1][i] \in Orders /\ log[1][i] # o
      BY <1>5, Log DEF IInv, EngineInv, CopiesInv
    <3>2. payload'[log[1][i]] = payload[log[1][i]] /\ row'[log[1][i]] = row[log[1][i]]
      BY <1>1, <1>2, <3>1 DEF IInv, OutboxInv
    <3>3. QED
      BY <1>5, <3>2 DEF IInv, CopiesInv
  <2>2. QED
    BY <1>2, <1>5, <2>1 DEF IInv, CopiesInv
<1>7. QED
  BY <1>2, <1>4, <1>6, EngineKept DEF IInv

LEMMA RelayIInv ==
  ASSUME IInv, NEW o \in Orders, Relay(o)
  PROVE  IInv'
<1>1. PICK copies \in {<<o>>, <<o, o>>} : log' = [log EXCEPT ![1] = log[1] \o copies]
  BY DEF Relay, Outbox!WriteTo
<1>2. row[o] = "PENDING" /\ row' = row /\ payload' = payload
  BY DEF Relay, Outbox!WriteTo
<1>3. OutboxInv /\ EngineInv
  BY DEF IInv
<1>4. log[1] \in Seq(Orders) /\ copies \in Seq(Orders) /\ Len(copies) \in Nat
  <2>1. log[1] \in Seq(Orders)
    BY <1>3 DEF OutboxInv
  <2>2. <<o>> \in Seq(Orders) /\ <<o, o>> \in Seq(Orders)
    OBVIOUS
  <2>3. copies \in Seq(Orders)
    BY <2>2
  <2>4. QED
    BY <2>1, <2>3, LenProperties
<1>5. log'[1] = log[1] \o copies /\ log' \in [{1} -> Seq(Orders)]
  BY <1>1, <1>3, <1>4 DEF OutboxInv
<1>6. OutboxInv'
  BY <1>2, <1>3, <1>5 DEF OutboxInv
<1>7. payload[o] \in Inputs
  BY <1>2, <1>3 DEF OutboxInv
<1> DEFINE messages == [i \in 1 .. Len(log'[1]) - Len(log[1]) |-> payload[o]]
<1>8. messages \in Seq(Inputs)
  <2>1. Len(log'[1]) - Len(log[1]) \in Nat
    BY <1>4, <1>5
  <2>2. QED
    BY <1>7, <2>1
<1>9. Produce(messages)
  BY DEF Relay
<1> HIDE DEF messages
<1>10. EngineInv'
  BY <1>3, <1>8, <1>9, ProduceInv
<1>11. CopiesInv'
  <2>1. /\ CopiesInv /\ EngineTypeOK /\ topic \in Seq(Inputs) /\ topic' = topic \o messages
        /\ from' = from /\ order' = order
    BY <1>3, <1>9 DEF IInv, EngineInv, EngineTypeOK, Produce, bookVars
  <2>2. /\ Len(messages) = Len(copies) /\ \A i \in 1 .. Len(copies) : messages[i] = payload[o]
    BY <1>4, <1>5 DEF messages
  <2>3. \A i \in 1 .. Len(copies) : copies[i] = o
    BY <1>1
  <2>4. Len(log[1]) \in Nat /\ Len(topic) = Len(log[1])
    BY <1>4, <2>1 DEF CopiesInv
  <2>5. /\ Len(topic') = Len(topic) + Len(copies)
        /\ \A i \in 1 .. Len(topic) : topic'[i] = topic[i]
        /\ \A i \in 1 .. Len(copies) : topic'[Len(topic) + i] = payload[o]
    BY <1>4, <1>8, <2>1, <2>2
  <2>6. /\ Len(log'[1]) = Len(log[1]) + Len(copies)
        /\ \A i \in 1 .. Len(log[1]) : log'[1][i] = log[1][i]
        /\ \A i \in 1 .. Len(copies) : log'[1][Len(log[1]) + i] = o
        /\ DOMAIN log'[1] = 1 .. Len(log[1]) + Len(copies)
    <3>1. log'[1] = log[1] \o copies /\ log[1] \in Seq(Orders) /\ copies \in Seq(Orders)
      BY <1>4, <1>5
    <3>2. /\ Len(log'[1]) = Len(log[1]) + Len(copies)
          /\ DOMAIN log'[1] = 1 .. Len(log[1]) + Len(copies)
          /\ \A i \in 1 .. Len(log[1]) : log'[1][i] = log[1][i]
          /\ \A i \in 1 .. Len(copies) : log'[1][Len(log[1]) + i] = copies[i]
      BY <3>1
    <3>3. QED
      BY <2>3, <3>2
  <2>7. ASSUME NEW i \in DOMAIN log'[1]
        PROVE  topic'[i] = payload'[log'[1][i]] /\ row'[log'[1][i]] # "absent"
    <3>1. i \in Nat /\ i >= 1 /\ i <= Len(log[1]) + Len(copies)
      BY <1>4, <2>4, <2>6, <2>7
    <3>2. CASE i <= Len(log[1])
      <4>1. i \in 1 .. Len(log[1])
        BY <2>4, <3>1, <3>2
      <4>2. QED
        BY <1>2, <1>4, <2>1, <2>4, <2>5, <2>6, <4>1 DEF CopiesInv
    <3>3. CASE i > Len(log[1])
      <4> DEFINE j == i - Len(log[1])
      <4>1. j \in 1 .. Len(copies) /\ i = Len(log[1]) + j
        BY <1>4, <2>4, <3>1, <3>3
      <4> HIDE DEF j
      <4>2. QED
        BY <1>2, <2>4, <2>5, <2>6, <4>1
    <3>4. QED
      BY <2>4, <3>1, <3>2, <3>3
  <2>8. \A i \in DOMAIN from' : order'[i].qty = topic'[from'[i]].qty
    BY <2>1, <2>5, Numbers DEF CopiesInv
  <2>9. Len(topic') = Len(log'[1])
    BY <2>4, <2>5, <2>6
  <2>10. QED
    BY <2>7, <2>8, <2>9 DEF CopiesInv
<1>12. QED
  BY <1>6, <1>10, <1>11 DEF IInv

LEMMA MarkIInv ==
  ASSUME IInv, NEW o \in Orders, Mark(o)
  PROVE  IInv'
<1>1. /\ row[o] = "PENDING" /\ UNCHANGED <<payload, log, allVars>>
      /\ row' = [row EXCEPT ![o] = "PROCESSED"] \/ row' = [row EXCEPT ![o] = "FAILED"]
  BY DEF Mark, Outbox!Settle
<1>2. OutboxInv'
  BY <1>1 DEF IInv, OutboxInv
<1>3. CopiesInv'
  <2>1. CopiesInv /\ UNCHANGED <<topic, from, order>>
    BY <1>1 DEF IInv, allVars, bookVars, engineVars
  <2>2. \A p \in Orders : row[p] # "absent" => row'[p] # "absent"
    BY <1>1 DEF IInv, OutboxInv
  <2>3. \A i \in DOMAIN log[1] : log[1][i] \in Orders
    BY Log DEF IInv, EngineInv
  <2>4. QED
    BY <1>1, <2>1, <2>2, <2>3 DEF CopiesInv
<1>4. QED
  BY <1>1, <1>2, <1>3, EngineKept DEF IInv

LEMMA StepIInv == IInv /\ [PipelineNext]_pipeVars => IInv'
<1> SUFFICES ASSUME IInv, [PipelineNext]_pipeVars PROVE IInv'
  OBVIOUS
<1>1. CASE UNCHANGED pipeVars
  BY <1>1, EngineKept DEF pipeVars, allVars, bookVars, engineVars, IInv, OutboxInv, CopiesInv
<1>2. CASE PipelineQuiet
  BY <1>1, <1>2 DEF PipelineQuiet
<1>3. CASE EngineProcess /\ UNCHANGED <<payload, row, log>>
  <2>1. OutboxInv'
    BY <1>3 DEF IInv, OutboxInv
  <2>2. QED
    BY <1>3, <2>1, ProcessInv, ProcessCopies DEF IInv
<1>4. QED
  BY <1>1, <1>2, <1>3, CommitIInv, RelayIInv, MarkIInv DEF PipelineNext

LEMMA Invariance == PipelineSpec => []IInv
BY InitIInv, StepIInv, PTL DEF PipelineSpec
-------------------------------------------------------------------------------
(* The variables of the engine keep their types, the book's among them.    *)
THEOREM TypeCorrect == PipelineSpec => []EngineTypeOK
<1>1. IInv => EngineTypeOK
  BY DEF IInv, EngineInv
<1>2. QED
  BY <1>1, Invariance, PTL

(* No valid message is passed over, none is handled more often than        *)
(* crashes and failures account for, and without these each is handled     *)
(* once and in order, however the commits in the background and the        *)
(* restarts fall.                                                          *)
THEOREM HandledAsOften == PipelineSpec => []MessagesHandled
<1>1. IInv => MessagesHandled
  <2> SUFFICES ASSUME IInv PROVE MessagesHandled
    OBVIOUS
  <2>1. EngineTypeOK /\ HandlingInv
    BY DEF IInv, EngineInv
  <2>2. ASSUME NEW o \in DOMAIN topic
        PROVE  /\ o <= position /\ IsOrder(topic[o]) => Cardinality(Reads(o)) >= 1
               /\ Cardinality(Reads(o)) >= 1 => IsOrder(topic[o])
               /\ Cardinality(Reads(o)) <= 1 + crashes + faults
    <3>1. IsFiniteSet(Reads(o)) /\ Cardinality(Reads(o)) \in Nat
      BY <2>1, ReadsFinite
    <3>2. Cardinality(Reads(o)) = 0 <=> Reads(o) = {}
      BY <3>1, FS_EmptySet
    <3>3. Reads(o) # {} => IsOrder(topic[o])
      BY <2>1 DEF HandlingInv, Reads
    <3>4. o <= position => o \in 1 .. position
      BY <2>1, Numbers
    <3>5. o <= position /\ IsOrder(topic[o]) => Reads(o) # {}
      BY <2>1, <3>4 DEF HandlingInv
    <3>6. Cardinality(Reads(o)) <= crashes + faults + (IF o <= Reach THEN 1 ELSE 0)
      BY <2>1 DEF HandlingInv
    <3>7. Cardinality(Reads(o)) <= 1 + crashes + faults
      BY <2>1, <3>1, <3>6, Numbers
    <3>8. QED
      BY <3>1, <3>2, <3>3, <3>5, <3>7
  <2>3. QED
    BY <2>1, <2>2 DEF MessagesHandled, HandlingInv, Faultless, Reads
<1>2. QED
  BY <1>1, Invariance, PTL

(* While nothing fails, the trades topic holds what was traded, in order.  *)
THEOREM AllTradesReported == PipelineSpec => []TradesReported
<1>1. IInv => TradesReported
  <2> SUFFICES ASSUME IInv, crashes = 0 /\ faults = 0 /\ phase \in {"reading", "down"}
               PROVE  published = [t \in DOMAIN trades |-> t]
    BY DEF TradesReported
  <2>1. published = [t \in 1 .. Len(trades) |-> t]
    BY DEF IInv, EngineInv, ReportingInv, Faultless
  <2>2. DOMAIN trades = 1 .. Len(trades)
    BY Numbers DEF IInv, EngineInv
  <2>3. QED
    BY <2>1, <2>2
<1>2. QED
  BY <1>1, Invariance, PTL

(* Whatever crashes, restarts and duplicates do to the book, every trade   *)
(* keeps to both limits, what an order traded adds up, and two resting     *)
(* orders cross only if the later one was filled on arrival.               *)
THEOREM MatchingSurvives ==
  PipelineSpec => [](TradesWithinLimits /\ FillsAccounted /\ CrossedOnlyIfFilled)
<1>1. IInv => TradesWithinLimits /\ FillsAccounted /\ CrossedOnlyIfFilled
  BY DEF IInv, EngineInv, KeptInv
<1>2. QED
  BY <1>1, Invariance, PTL

(* What one order of the engine trades, taken and given together.          *)
LEMMA TradedTwice ==
  ASSUME EngineInv, NEW i \in DOMAIN order
  PROVE  /\ IsFiniteSet(Taking(i) \cup Making(i))
         /\ \A t \in Taking(i) \cup Making(i) : Amounts[t] \in Nat
         /\ Traded(Taking(i) \cup Making(i)) <= 2 * order[i].qty
<1>1. KeptInv /\ TypeOK
  BY DEF EngineInv, KeptInv
<1>2. IsFiniteSet(Taking(i)) /\ IsFiniteSet(Making(i))
  BY <1>1, TradesOf
<1>3. \A t \in DOMAIN trades : Amounts[t] \in Nat
  BY <1>1, TradesOf DEF KeptInv, Progress
<1>4. \A t \in Taking(i) \cup Making(i) : Amounts[t] \in Nat
  BY <1>1, <1>3, TradesOf
<1>5. Traded(Taking(i) \cup Making(i)) <= Traded(Taking(i)) + Traded(Making(i))
  BY <1>2, <1>4, SumCup DEF Traded
<1>6. /\ order[i].qty \in Int /\ order[i].filled \in Int /\ order[i].filled <= order[i].qty
  BY <1>1, OrderFields DEF KeptInv, Rests
<1>7. (IF i = incoming THEN remaining ELSE unmet[i]) \in Nat
  <2>1. i # incoming => i \in 1 .. Len(unmet)
    BY <1>1 DEF KeptInv, Arrival, TypeOK
  <2>2. unmet \in Seq(Nat) /\ remaining \in Nat
    BY <1>1 DEF TypeOK
  <2>3. QED
    BY <2>1, <2>2
<1>8. /\ Traded(Making(i)) = order[i].filled
      /\ Traded(Taking(i)) = order[i].qty - (IF i = incoming THEN remaining ELSE unmet[i])
  BY <1>1 DEF KeptInv, FillsAccounted
<1>9. IsFiniteSet(Taking(i) \cup Making(i))
  BY <1>2, FS_Union
<1>10. Traded(Taking(i) \cup Making(i)) \in Int
  BY <1>4, <1>9, SumType DEF Traded
<1>11. QED
  BY <1>4, <1>5, <1>6, <1>7, <1>8, <1>9, <1>10

(* An order is booked at most once for each time a copy of it is read.     *)
LEMMA BookedPerCopy ==
  ASSUME IInv, NEW o \in Orders
  PROVE  /\ IsFiniteSet(Bookings(o)) /\ Cardinality(Bookings(o)) \in Nat
         /\ Cardinality(Bookings(o)) <= Cardinality(Copies(o)) * (1 + crashes + faults)
         /\ Cardinality(Copies(o)) \in Nat
<1> DEFINE c == 1 + crashes + faults
           R == [i \in Copies(o) |-> Reads(i)]
<1>1. EngineTypeOK /\ HandlingInv /\ OutboxInv /\ CopiesInv
  BY DEF IInv, EngineInv
<1>2. IsFiniteSet(Copies(o)) /\ Cardinality(Copies(o)) \in Nat
  <2>1. Copies(o) \in SUBSET (1 .. Len(log[1])) /\ Len(log[1]) \in Nat
    BY <1>1, Log DEF Copies
  <2>2. IsFiniteSet(1 .. Len(log[1]))
    BY <2>1, FS_Interval
  <2>3. QED
    BY <2>1, <2>2, FS_Subset, FS_CardinalityType
<1>3. c \in Nat
  BY <1>1, Numbers
<1>4. ASSUME NEW i \in Copies(o) PROVE IsFiniteSet(R[i]) /\ Cardinality(R[i]) <= c
  <2>1. R[i] = Reads(i) /\ i \in DOMAIN topic
    BY <1>1, Log DEF Copies
  <2>2. IsFiniteSet(Reads(i)) /\ Cardinality(Reads(i)) \in Nat
    BY <1>1, ReadsFinite
  <2>3. Cardinality(Reads(i)) <= crashes + faults + (IF i <= Reach THEN 1 ELSE 0)
    BY <1>1, <2>1 DEF HandlingInv
  <2>4. Cardinality(Reads(i)) <= c
    BY <1>1, <2>2, <2>3, Numbers
  <2>5. QED
    BY <2>1, <2>2, <2>4
<1>5. Bookings(o) = UNION {R[i] : i \in Copies(o)}
  <2>1. \A j \in Bookings(o) : from[j] \in Copies(o) /\ j \in R[from[j]]
    BY <1>1, Log DEF Bookings, Copies, Reads
  <2>2. \A i \in Copies(o) : R[i] \subseteq Bookings(o)
    BY DEF Bookings, Copies, Reads
  <2>3. QED
    BY <2>1, <2>2
<1> HIDE DEF c, R
<1>6. /\ IsFiniteSet(UNION {R[i] : i \in Copies(o)})
      /\ Cardinality(UNION {R[i] : i \in Copies(o)}) <= c * Cardinality(Copies(o))
  BY <1>2, <1>3, <1>4, CardinalityCover
<1>7. c * Cardinality(Copies(o)) = Cardinality(Copies(o)) * (1 + crashes + faults)
  BY <1>1, <1>2, <1>3, Numbers DEF c
<1>8. QED
  BY <1>2, <1>5, <1>6, <1>7, FS_CardinalityType

(* No order reaches the engine before it is committed, and however often   *)
(* the relay, crashes and lost offsets have its copies read again, what    *)
(* trades is bounded: twice the quantity for each time one can be read.    *)
THEOREM ExecutionsBounded == PipelineSpec => []ExecutionsExplained
<1>1. IInv => ExecutionsExplained
  <2> SUFFICES ASSUME IInv, NEW o \in Orders
               PROVE  LET times == Cardinality(Copies(o)) * (1 + crashes + faults) IN
                      /\ row[o] = "absent" => Bookings(o) = {}
                      /\ Cardinality(Bookings(o)) <= times
                      /\ Bookings(o) # {} => Executed(o) <= 2 * payload[o].qty * times
    BY DEF ExecutionsExplained
  <2> DEFINE times == Cardinality(Copies(o)) * (1 + crashes + faults)
             q == payload[o].qty
             n == Cardinality(Bookings(o))
             P == [i \in Bookings(o) |-> Taking(i) \cup Making(i)]
  <2>1. EngineInv /\ EngineTypeOK /\ KeptInv /\ TypeOK /\ OutboxInv /\ CopiesInv
    BY DEF IInv, EngineInv, KeptInv
  <2>2. ASSUME NEW i \in Bookings(o)
        PROVE  /\ row[o] # "absent" /\ i \in DOMAIN order /\ order[i].qty = q
               /\ q \in Int /\ 0 < q
    <3>1. i \in DOMAIN from /\ from[i] \in DOMAIN log[1] /\ log[1][from[i]] = o
      BY <2>1, Log DEF Bookings
    <3>2. row[o] # "absent" /\ topic[from[i]] = payload[o] /\ order[i].qty = topic[from[i]].qty
      BY <2>1, <3>1 DEF CopiesInv
    <3>3. i \in DOMAIN order
      BY <2>1, <3>1, Numbers DEF EngineTypeOK, TypeOK
    <3>4. order[i].qty \in Int /\ order[i].qty > 0
      BY <2>1, <3>3, OrderFields DEF KeptInv, OrdersValid, Valid
    <3>5. QED
      BY <3>2, <3>3, <3>4
  <2>3. /\ IsFiniteSet(Bookings(o)) /\ n \in Nat /\ n <= times
        /\ Cardinality(Copies(o)) \in Nat
    BY BookedPerCopy
  <2>4. times \in Int
    BY <2>1, <2>3, Numbers
  <2>5. ASSUME Bookings(o) # {} PROVE Executed(o) <= 2 * q * times
    <3>1. q \in Int /\ 0 < q
      BY <2>2, <2>5
    <3>2. ASSUME NEW i \in Bookings(o)
          PROVE  /\ IsFiniteSet(P[i])
                 /\ \A t \in P[i] : Amounts[t] \in Nat
                 /\ SumFunctionOnSet(Amounts, P[i]) <= 2 * q
      <4>1. i \in DOMAIN order /\ order[i].qty = q
        BY <2>2
      <4>2. P[i] = Taking(i) \cup Making(i)
        OBVIOUS
      <4>3. QED
        BY <2>1, <4>1, <4>2, TradedTwice DEF Traded
    <3>3. Executed(o) = SumFunctionOnSet(Amounts, UNION {P[i] : i \in Bookings(o)})
      <4>1. {P[i] : i \in Bookings(o)} = {Taking(i) \cup Making(i) : i \in Bookings(o)}
        OBVIOUS
      <4>2. QED
        BY <4>1 DEF Executed, Traded
    <3> HIDE DEF P, q, n, times
    <3>4. 2 * q \in Nat
      BY <3>1
    <3>5. /\ IsFiniteSet(UNION {P[i] : i \in Bookings(o)})
          /\ Executed(o) <= (2 * q) * n
      <4> DEFINE c == 2 * q
                 S == Bookings(o)
                 f == Amounts
      <4>1. c \in Nat /\ IsFiniteSet(S)
        BY <2>3, <3>4
      <4>2. \A i \in S : /\ IsFiniteSet(P[i])
                         /\ \A x \in P[i] : f[x] \in Nat
                         /\ SumFunctionOnSet(f, P[i]) <= c
        BY <3>2
      <4> HIDE DEF c, S, f
      <4>3. /\ IsFiniteSet(UNION {P[i] : i \in S})
            /\ SumFunctionOnSet(f, UNION {P[i] : i \in S}) <= c * Cardinality(S)
        BY <4>1, <4>2, SumCover, ZenonT(60)
      <4>4. QED
        BY <3>3, <4>3 DEF c, n, S, f
    <3>6. Executed(o) \in Int
      <4>1. \A t \in UNION {P[i] : i \in Bookings(o)} : Amounts[t] \in Int
        BY <3>2
      <4>2. QED
        BY <3>3, <3>5, <4>1, SumType
    <3>7. (2 * q) * n <= (2 * q) * times /\ (2 * q) * n \in Int /\ (2 * q) * times \in Int
      BY <2>3, <2>4, <3>4
    <3>8. QED
      BY <3>5, <3>6, <3>7
  <2>6. QED
    BY <2>2, <2>3, <2>5
<1>2. QED
  BY <1>1, Invariance, PTL
==================================================================================
