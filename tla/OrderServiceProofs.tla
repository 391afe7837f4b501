--------------------------- MODULE OrderServiceProofs ---------------------------
(***************************************************************************)
(* Proofs about the order service, for any users, assets, requests, calls, *)
(* pool size and number of failures.                                       *)
(***************************************************************************)
EXTENDS OrderLedger, Totals, TLAPS

(* The request of p is well formed and names a balance row.                *)
Accepted(p) ==
  /\ req[p] \in Requests
  /\ QuoteAsset(req[p]) \in Assets
  /\ req[p].qty > 0

(* What a PlaceOrder call has established at each of its statements.       *)
PlaceInv ==
  \A p \in Places :
    /\ pc[p] # "idle" => req[p] \in Requests
    /\ pc[p] = "lookup" => req[p].qty > 0
    /\ pc[p] \in {"begin", "deduct", "reply"} \/ HoldsRow(p) \/ p \in Placed => Accepted(p)
    /\ p \in Placed => pc[p] \in {"reply", "done"}
    /\ pc[p] = "reply" => p \in Placed
    /\ pc[p] # "done" => reply[p] = "none"
    /\ p \in Placed /\ pc[p] = "done" => reply[p] \in {"order", "error", "lost"}

(* Committed rows are never negative, nor are the values about to be       *)
(* written.                                                                *)
BalanceInv ==
  /\ balances \in [Rows -> Nat \cup {NoRow}]
  /\ \A p \in Places : HoldsRow(p) => avail[p] \in Nat

(* A balance row is held by one transaction at a time.                     *)
RowLock ==
  /\ \A p, q \in Places : HoldsRow(p) /\ HoldsRow(q) /\ Row(p) = Row(q) => p = q
  /\ \A p \in Places, c \in Cancels :
       HoldsRow(p) /\ RefundHolds(c) => Row(p) # CreditRow(c)

(* So is a key, and no order with that key is committed meanwhile.         *)
KeyLock ==
  /\ \A p, q \in Places : HoldsKey(p) /\ HoldsKey(q) /\ req[p].key = req[q].key => p = q
  /\ \A p \in Places, q \in Placed : HoldsKey(p) => req[p].key # req[q].key

(* An answer names an order with the key of the call.                      *)
AnswerInv ==
  \A p \in Places : reply[p] = "order" =>
    /\ answer[p] \in Placed
    /\ req[answer[p]].key = req[p].key

(* What a CancelOrder call has established at each of its statements.      *)
CancelInv ==
  \A c \in Cancels :
    /\ cpc[c] # "idle" => ask[c] \in [user : Users \cup {Nil}, order : Places]
    /\ c \in refunded => cpc[c] \in {"update", "done"}
    /\ cpc[c] \in {"begin", "credit", "creditCommit", "update"} =>
         /\ ask[c].order \in Placed
         /\ ask[c].user \in {Nil, req[ask[c].order].user}
    /\ cpc[c] \in {"creditCommit", "update"} => ask[c].user # Nil
    /\ cpc[c] = "update" => c \in refunded

IInv ==
  /\ TypeOK /\ PlaceInv /\ BalanceInv /\ RowLock /\ NoLostUpdate /\ KeyLock
  /\ OneOrderPerKey /\ AnswerInv /\ outbox = Placed
  /\ CancelInv /\ CancelledWasRefunded
-------------------------------------------------------------------------------
(* Rounding a non-negative amount gives a non-negative amount.             *)
LEMMA NumericNat == ASSUME NEW x \in Nat PROVE Numeric(x) \in Nat
<1> DEFINE n == 2 * x + Tick
           d == 2 * Tick
<1>1. n \in Nat /\ d \in Nat \ {0}
  BY ConstantsAssumption
<1>2. n \div d \in Nat
  <2> HIDE DEF n, d
  <2>1. QED BY <1>1
<1>3. (n \div d) * Tick \in Nat
  <2> HIDE DEF n, d
  <2>1. QED BY <1>2, ConstantsAssumption
<1>4. QED
  BY <1>3 DEF Numeric

(* The asset of a request is one of the assets, or none.                   *)
LEMMA QuoteAssetType ==
  ASSUME NEW r \in Requests
  PROVE  QuoteAsset(r) \in Assets \cup {NoAsset}
BY ConstantsAssumption DEF QuoteAsset, Request

(* A well-formed request names a balance row.                              *)
LEMMA RowType ==
  ASSUME NEW p \in Places, Accepted(p)
  PROVE  /\ Row(p) \in Rows
         /\ req[p].user \in Users
         /\ req[p].qty \in Nat
<1>1. req[p] \in Request
  BY ConstantsAssumption DEF Accepted
<1>2. req[p].user \in Users /\ req[p].qty \in Int
  BY <1>1 DEF Request
<1>3. Row(p) \in Rows
  BY <1>2 DEF Row, Rows, Accepted
<1>4. QED
  BY <1>2, <1>3 DEF Accepted

LEMMA StoredQtyNat ==
  ASSUME NEW p \in Places, Accepted(p)
  PROVE  StoredQty(p) \in Nat
BY RowType, NumericNat DEF StoredQty

(* From the credit to the update, the row credited is the order's own.     *)
LEMMA CreditRowType ==
  ASSUME TypeOK, PlaceInv, CancelInv, NEW c \in Cancels,
         cpc[c] \in {"creditCommit", "update"}
  PROVE  /\ ask[c].order \in Placed
         /\ ask[c].user = req[ask[c].order].user
         /\ CreditRow(c) = Row(ask[c].order)
         /\ CreditRow(c) \in Rows
         /\ StoredQty(ask[c].order) \in Nat
<1>1. ask[c].order \in Placed /\ ask[c].user = req[ask[c].order].user
  BY DEF CancelInv
<1>2. ask[c].order \in Places /\ Accepted(ask[c].order)
  BY <1>1 DEF PlaceInv, Placed
<1>3. QED
  BY <1>1, <1>2, RowType, StoredQtyNat DEF CreditRow, Row

LEMMA InitIInv == Init => IInv
<1> SUFFICES ASSUME Init PROVE IInv
  OBVIOUS
<1>1. TypeOK
  BY ConstantsAssumption DEF Init, TypeOK, PlaceStates, PlaceReplies, CancelStates, CancelReplies, Statuses
<1>2. BalanceInv
  BY ConstantsAssumption DEF Init, BalanceInv, HoldsRow
<1>3. Placed = {}
  BY DEF Init, Placed
<1>4. PlaceInv /\ AnswerInv
  BY <1>3 DEF Init, PlaceInv, AnswerInv, HoldsRow
<1>5. RowLock /\ NoLostUpdate /\ KeyLock /\ OneOrderPerKey
  BY <1>3 DEF Init, RowLock, NoLostUpdate, KeyLock, OneOrderPerKey, HoldsRow, HoldsKey
<1>6. CancelInv /\ CancelledWasRefunded
  BY <1>3 DEF Init, CancelInv, CancelledWasRefunded
<1>7. QED
  BY <1>1, <1>2, <1>3, <1>4, <1>5, <1>6 DEF IInv, Init

(* Every statement preserves the types of the variables.                   *)
LEMMA StepTypeOK == TypeOK /\ PlaceInv /\ CancelInv /\ [Next]_vars => TypeOK'
<1> SUFFICES ASSUME TypeOK, PlaceInv, CancelInv, [Next]_vars PROVE TypeOK'
  OBVIOUS
<1> USE DEF PlaceStates, CancelStates, PlaceReplies, CancelReplies, Statuses
<1>1. ASSUME NEW p \in Places, PlaceOrder(p) PROVE TypeOK'
  <2>1. PICK r \in Requests : /\ req' = [req EXCEPT ![p] = r]
                              /\ \/ Return(p, "invalid_argument", NoOrder)
                                 \/ Return(p, "invalid_quantity", NoOrder)
                                 \/ Goto(p, "lookup")
    BY <1>1 DEF PlaceOrder
  <2>2. req' \in [Places -> Requests \cup {NoRequest}]
    BY <2>1 DEF TypeOK
  <2>3. /\ pc' \in [Places -> PlaceStates]
        /\ reply' \in [Places -> PlaceReplies]
        /\ answer' \in [Places -> Places \cup {NoOrder}]
    BY <2>1 DEF Return, Goto, TypeOK
  <2>4. UNCHANGED <<avail, cancelVars, dbVars, envVars>>
    BY <1>1 DEF PlaceOrder
  <2>5. QED
    BY <2>2, <2>3, <2>4 DEF TypeOK, cancelVars, dbVars, envVars
<1>2. ASSUME NEW p \in Places, CheckIdempotency(p) PROVE TypeOK'
  BY <1>2 DEF CheckIdempotency, Return, Goto, TypeOK, cancelVars, dbVars, envVars, OrdersWithKey, Placed
<1>3. ASSUME NEW p \in Places, BeginTx(p) \/ CreateWithTx(p) \/ InsertOutboxWithTx(p) \/ ReplyPlaced(p)
      PROVE TypeOK'
  BY <1>3 DEF BeginTx, CreateWithTx, InsertOutboxWithTx, ReplyPlaced, Return, Goto, TypeOK, cancelVars, dbVars, envVars
<1>4. ASSUME NEW p \in Places, DeductBalanceTx(p) PROVE TypeOK'
  <2>1. Row(p) \in Rows /\ req[p].qty \in Nat
    BY <1>4, RowType DEF DeductBalanceTx, PlaceInv
  <2>2. CASE /\ balances[Row(p)] # NoRow
             /\ avail' = [avail EXCEPT ![p] = Numeric(balances[Row(p)] - req[p].qty)]
             /\ ~Insufficient(p)
             /\ Goto(p, "insertOrder")
    <3>1. balances[Row(p)] - req[p].qty \in Nat
      BY <2>1, <2>2 DEF TypeOK, Insufficient
    <3>2. Numeric(balances[Row(p)] - req[p].qty) \in Nat
      BY <3>1, NumericNat
    <3>3. QED
      BY <1>4, <2>2, <3>2 DEF DeductBalanceTx, Goto, TypeOK, cancelVars, dbVars, envVars
  <2>3. CASE Return(p, "insufficient", NoOrder) /\ UNCHANGED avail
    BY <1>4, <2>3 DEF DeductBalanceTx, Return, TypeOK, cancelVars, dbVars, envVars
  <2>4. QED
    BY <1>4, <2>2, <2>3 DEF DeductBalanceTx
<1>5. ASSUME NEW p \in Places, Commit(p) PROVE TypeOK'
  BY <1>5, RowType DEF Commit, Apply, Goto, TypeOK, cancelVars, envVars, PlaceInv, HoldsRow
<1>6. ASSUME NEW p \in Places, PlaceFault(p) PROVE TypeOK'
  BY <1>6, ConstantsAssumption DEF PlaceFault, Return, TypeOK, cancelVars, dbVars
<1>7. ASSUME NEW c \in Cancels, CancelOrder(c) PROVE TypeOK'
  BY <1>7 DEF CancelOrder, CGoto, TypeOK, placeVars, dbVars, envVars
<1>8. ASSUME NEW c \in Cancels, ReadOrder(c) \/ BeginRefund(c) \/ CreditBalanceTx(c) PROVE TypeOK'
  BY <1>8 DEF ReadOrder, BeginRefund, CreditBalanceTx, CGoto, CReturn, TypeOK, placeVars, dbVars, envVars
<1>9. ASSUME NEW c \in Cancels, cpc[c] = "creditCommit", Credit(c)
      PROVE  balances' \in [Rows -> Int \cup {NoRow}] /\ refunded' \subseteq Cancels
  <2>1. CreditRow(c) \in Rows /\ StoredQty(ask[c].order) \in Nat
    BY <1>9, CreditRowType
  <2>2. QED
    BY <1>9, <2>1 DEF Credit, TypeOK
<1>10. ASSUME NEW c \in Cancels, CommitRefund(c) PROVE TypeOK'
  BY <1>9, <1>10 DEF CommitRefund, Credit, CGoto, TypeOK, placeVars, envVars
<1>11. ASSUME NEW c \in Cancels, UpdateStatus(c) PROVE TypeOK'
  BY <1>11 DEF UpdateStatus, CReturn, TypeOK, placeVars, envVars
<1>12. ASSUME NEW c \in Cancels, CancelFault(c) PROVE TypeOK'
  <2>1. faults' \in 0 .. MaxFaults
    BY <1>12, ConstantsAssumption DEF CancelFault, TypeOK
  <2>2. CASE Credit(c) /\ cpc[c] = "creditCommit"
    BY <1>9, <1>12, <2>1, <2>2 DEF CancelFault, Credit, CReturn, TypeOK, placeVars
  <2>3. CASE UNCHANGED <<refunded, balances, outbox>>
    <3>1. status' \in [Places -> Statuses]
      BY <1>12, <2>3 DEF CancelFault, Credit, TypeOK, dbVars
    <3>2. /\ cpc' \in [Cancels -> CancelStates]
          /\ creply' \in [Cancels -> CancelReplies]
          /\ UNCHANGED <<ask, placeVars, crashes>>
      BY <1>12 DEF CancelFault, CReturn, TypeOK
    <3>3. QED
      BY <2>1, <2>3, <3>1, <3>2 DEF TypeOK, placeVars
  <2>4. QED
    <3>1. (Credit(c) /\ cpc[c] = "creditCommit") \/ UNCHANGED <<refunded, balances, outbox>>
      BY <1>12, Zenon DEF CancelFault, dbVars
    <3>2. QED
      BY <2>2, <2>3, <3>1
<1>13. CASE Crash
  BY <1>13, ConstantsAssumption DEF Crash, TypeOK, dbVars
<1>14. CASE UNCHANGED vars
  BY <1>14 DEF vars, placeVars, cancelVars, dbVars, envVars, TypeOK
<1>15. QED
  BY <1>1, <1>2, <1>3, <1>4, <1>5, <1>6, <1>7, <1>8, <1>10, <1>11, <1>12, <1>13, <1>14
  DEF Next, PlaceStep, CancelStep, Quiescent

-------------------------------------------------------------------------------
(* What the statements of one call leave alone.                            *)

PlaceCall(p) == PlaceOrder(p) \/ PlaceStep(p) \/ PlaceFault(p)
CancelCall(c) == CancelOrder(c) \/ CancelStep(c) \/ CancelFault(c)

(* A PlaceOrder call touches no other call.                                *)
LEMMA PlaceFrame ==
  ASSUME TypeOK, NEW p \in Places, PlaceCall(p)
  PROVE  /\ \A q \in Places \ {p} :
              /\ req'[q] = req[q] /\ pc'[q] = pc[q] /\ avail'[q] = avail[q]
              /\ reply'[q] = reply[q] /\ answer'[q] = answer[q]
         /\ UNCHANGED cancelVars
<1> USE DEF PlaceCall, PlaceStep, PlaceOrder, CheckIdempotency, BeginTx, DeductBalanceTx,
            CreateWithTx, InsertOutboxWithTx, Commit, ReplyPlaced, PlaceFault, Goto, Return
<1>1. req' = req \/ \E r \in Requests : req' = [req EXCEPT ![p] = r]
  OBVIOUS
<1>2. \E s : pc' = [pc EXCEPT ![p] = s]
  OBVIOUS
<1>3. avail' = avail \/ \E b : avail' = [avail EXCEPT ![p] = b]
  OBVIOUS
<1>4. \/ UNCHANGED <<reply, answer>>
      \/ \E r, o : /\ reply' = [reply EXCEPT ![p] = r]
                   /\ answer' = [answer EXCEPT ![p] = o]
  OBVIOUS
<1>5. UNCHANGED cancelVars
  OBVIOUS
<1> HIDE DEF PlaceCall, PlaceStep, PlaceOrder, CheckIdempotency, BeginTx, DeductBalanceTx,
             CreateWithTx, InsertOutboxWithTx, Commit, ReplyPlaced, PlaceFault, Goto, Return
<1>6. QED
  BY <1>1, <1>2, <1>3, <1>4, <1>5 DEF TypeOK

(* Only Commit writes to the tables.                                       *)
LEMMA OnlyCommitWrites ==
  ASSUME NEW p \in Places, PlaceCall(p), ~Commit(p)
  PROVE  UNCHANGED dbVars
BY DEF PlaceCall, PlaceStep, PlaceOrder, CheckIdempotency, BeginTx, DeductBalanceTx,
       CreateWithTx, InsertOutboxWithTx, ReplyPlaced, PlaceFault

(* The request of a call is written once, when it arrives.                 *)
LEMMA RequestFixed ==
  ASSUME NEW p \in Places, PlaceCall(p), pc[p] # "idle"
  PROVE  UNCHANGED req
BY DEF PlaceCall, PlaceStep, PlaceOrder, CheckIdempotency, BeginTx, DeductBalanceTx,
       CreateWithTx, InsertOutboxWithTx, Commit, ReplyPlaced, PlaceFault

(* Commit adds its order to the table.                                     *)
LEMMA CommitPlaces ==
  ASSUME TypeOK, NEW p \in Places, Commit(p)
  PROVE  Placed' = Placed \cup {p}
BY DEF TypeOK, Commit, Apply, Placed

(* Only the last statement of CancelOrder writes to the orders table.      *)
LEMMA CancelWritesStatus ==
  ASSUME NEW c \in Cancels, CancelCall(c)
  PROVE  \/ status' = status
         \/ cpc[c] = "update" /\ status' = [status EXCEPT ![ask[c].order] = "CANCELLED"]
BY DEF CancelCall, CancelStep, CancelOrder, ReadOrder, BeginRefund, CreditBalanceTx,
       CommitRefund, UpdateStatus, CancelFault, Credit, dbVars

(* A CancelOrder call touches no PlaceOrder call and no other CancelOrder  *)
(* call, and neither creates nor removes orders and events.                *)
LEMMA CancelFrame ==
  ASSUME TypeOK, PlaceInv, CancelInv, NEW c \in Cancels, CancelCall(c)
  PROVE  /\ UNCHANGED placeVars /\ outbox' = outbox /\ Placed' = Placed
         /\ \A d \in Cancels \ {c} : ask'[d] = ask[d] /\ cpc'[d] = cpc[d]
         /\ \A d \in Cancels \ {c} : d \in refunded' <=> d \in refunded
<1>1. UNCHANGED placeVars /\ outbox' = outbox
  BY DEF CancelCall, CancelStep, CancelOrder, ReadOrder, BeginRefund, CreditBalanceTx,
         CommitRefund, UpdateStatus, CancelFault, Credit, dbVars
<1>2. \A d \in Cancels \ {c} : ask'[d] = ask[d] /\ cpc'[d] = cpc[d]
  BY DEF TypeOK, CancelCall, CancelStep, CancelOrder, ReadOrder, BeginRefund, CreditBalanceTx,
         CommitRefund, UpdateStatus, CancelFault, CGoto, CReturn
<1>3. \A d \in Cancels \ {c} : d \in refunded' <=> d \in refunded
  BY DEF CancelCall, CancelStep, CancelOrder, ReadOrder, BeginRefund, CreditBalanceTx,
         CommitRefund, UpdateStatus, CancelFault, Credit
<1>4. Placed' = Placed
  <2>1. CASE status' = status
    BY <2>1 DEF Placed
  <2>2. CASE cpc[c] = "update" /\ status' = [status EXCEPT ![ask[c].order] = "CANCELLED"]
    <3>1. ask[c].order \in Placed
      BY <2>2, CreditRowType
    <3>2. QED
      BY <2>2, <3>1 DEF Placed, TypeOK
  <2>3. QED
    BY <2>1, <2>2, CancelWritesStatus
<1>5. QED
  BY <1>1, <1>2, <1>3, <1>4

(* The steps of the specification.                                         *)
LEMMA NextCases ==
  ASSUME [Next]_vars
  PROVE  \/ \E p \in Places : PlaceCall(p)
         \/ \E c \in Cancels : CancelCall(c)
         \/ Crash
         \/ UNCHANGED vars
BY DEF Next, PlaceCall, CancelCall, Quiescent
-------------------------------------------------------------------------------
(* Each call has established what its position says.                       *)
LEMMA StepPlaceInv == TypeOK /\ PlaceInv /\ CancelInv /\ [Next]_vars => PlaceInv'
<1> SUFFICES ASSUME TypeOK, PlaceInv, CancelInv, [Next]_vars PROVE PlaceInv'
  OBVIOUS
<1> USE DEF HoldsRow
<1>1. ASSUME NEW p \in Places, PlaceCall(p) PROVE PlaceInv'
  <2> DEFINE I(q) ==
        /\ pc[q] # "idle" => req[q] \in Requests
        /\ pc[q] = "lookup" => req[q].qty > 0
        /\ pc[q] \in {"begin", "deduct", "reply"} \/ HoldsRow(q) \/ q \in Placed => Accepted(q)
        /\ q \in Placed => pc[q] \in {"reply", "done"}
        /\ pc[q] = "reply" => q \in Placed
        /\ pc[q] # "done" => reply[q] = "none"
        /\ q \in Placed /\ pc[q] = "done" => reply[q] \in {"order", "error", "lost"}
  <2>0. \A q \in Places : I(q)
    BY DEF PlaceInv
  <2>1. ASSUME NEW q \in Places \ {p} PROVE I(q)'
    <3>1. q \in Placed' <=> q \in Placed
      BY <1>1, OnlyCommitWrites, CommitPlaces DEF Placed, dbVars
    <3>2. Accepted(q)' <=> Accepted(q)
      BY <1>1, PlaceFrame DEF Accepted, QuoteAsset
    <3>3. QED
      BY <1>1, <2>0, <3>1, <3>2, PlaceFrame
  <2>2. I(p)'
    <3>1. CASE Commit(p)
      BY <2>0, <3>1, CommitPlaces DEF Commit, Apply, Goto, Accepted, QuoteAsset, TypeOK
    <3>2. CASE ~Commit(p)
      <4>1. Placed' = Placed
        BY <1>1, <3>2, OnlyCommitWrites DEF Placed, dbVars
      <4>2. CASE PlaceOrder(p)
        BY <2>0, <4>1, <4>2 DEF PlaceOrder, Goto, Return, TypeOK
      <4>3. CASE CheckIdempotency(p)
        <5>1. req' = req /\ p \notin Placed /\ QuoteAsset(req[p]) \in Assets \cup {NoAsset}
          BY <2>0, <4>3, QuoteAssetType DEF CheckIdempotency
        <5>2. QED
          BY <2>0, <4>1, <4>3, <5>1 DEF CheckIdempotency, Goto, Return, TypeOK, Accepted
      <4>4. CASE BeginTx(p) \/ DeductBalanceTx(p) \/ CreateWithTx(p) \/ InsertOutboxWithTx(p)
        BY <2>0, <4>1, <4>4 DEF BeginTx, DeductBalanceTx, CreateWithTx, InsertOutboxWithTx,
                             Goto, Return, TypeOK, Accepted
      <4>5. CASE ReplyPlaced(p)
        BY <2>0, <4>1, <4>5 DEF ReplyPlaced, Return, TypeOK, Accepted
      <4>6. CASE PlaceFault(p)
        BY <2>0, <4>1, <4>6 DEF PlaceFault, Return, TypeOK, Accepted
      <4>7. QED
        BY <1>1, <3>2, <4>2, <4>3, <4>4, <4>5, <4>6 DEF PlaceCall, PlaceStep
    <3>3. QED
      BY <3>1, <3>2
  <2>3. QED
    BY <2>1, <2>2 DEF PlaceInv
<1>2. ASSUME NEW c \in Cancels, CancelCall(c) PROVE PlaceInv'
  BY <1>2, CancelFrame DEF PlaceInv, placeVars, Accepted
<1>3. CASE Crash
  BY <1>3 DEF Crash, PlaceInv, dbVars, Placed, Accepted, TypeOK
<1>4. CASE UNCHANGED vars
  BY <1>4 DEF vars, placeVars, dbVars, PlaceInv, Placed, Accepted
<1>5. QED
  BY <1>1, <1>2, <1>3, <1>4, NextCases

-------------------------------------------------------------------------------
(* A call that is about to take a row's value holds the only lock on it.   *)
LEMMA StepRowLock == TypeOK /\ PlaceInv /\ CancelInv /\ RowLock /\ [Next]_vars => RowLock'
<1> SUFFICES ASSUME TypeOK, PlaceInv, CancelInv, RowLock, [Next]_vars PROVE RowLock'
  OBVIOUS
<1> USE DEF HoldsRow, RefundHolds
<1>1. ASSUME NEW p \in Places, PlaceCall(p) PROVE RowLock'
  <2>1. \A q \in Places \ {p} : Row(q)' = Row(q) /\ (HoldsRow(q)' <=> HoldsRow(q))
    BY <1>1, PlaceFrame DEF Row, QuoteAsset
  <2>2. \A c \in Cancels : (RefundHolds(c)' <=> RefundHolds(c)) /\ (RefundHolds(c) => CreditRow(c)' = CreditRow(c))
    <3>1. ASSUME NEW c \in Cancels, RefundHolds(c) PROVE CreditRow(c)' = CreditRow(c)
      <4>1. ask[c].order \in Placed /\ ask' = ask
        BY <1>1, <3>1, CreditRowType, PlaceFrame DEF cancelVars
      <4>2. pc[ask[c].order] # "idle" /\ ask[c].order \in Places
        BY <4>1 DEF PlaceInv, Placed
      <4>3. req'[ask[c].order] = req[ask[c].order]
        BY <1>1, <4>2, PlaceFrame, RequestFixed
      <4>4. QED
        BY <4>1, <4>3 DEF CreditRow, QuoteAsset
    <3>2. QED
      BY <1>1, <3>1, PlaceFrame DEF cancelVars
  <2>3. CASE DeductBalanceTx(p) /\ RowFree(Row(p))
    <3>1. Row(p)' = Row(p)
      BY <2>3 DEF DeductBalanceTx, Row, QuoteAsset
    <3>2. QED
      BY <2>1, <2>2, <2>3, <3>1 DEF RowFree, RowLock
  <2>4. CASE HoldsRow(p)' => HoldsRow(p)
    <3>1. HoldsRow(p) => Row(p)' = Row(p)
      BY <1>1, RequestFixed DEF Row, QuoteAsset
    <3>2. QED
      BY <2>1, <2>2, <2>4, <3>1 DEF RowLock
  <2>5. (DeductBalanceTx(p) /\ RowFree(Row(p))) \/ (HoldsRow(p)' => HoldsRow(p))
    BY <1>1 DEF TypeOK, PlaceCall, PlaceStep, PlaceOrder, CheckIdempotency, BeginTx, DeductBalanceTx,
       CreateWithTx, InsertOutboxWithTx, Commit, ReplyPlaced, PlaceFault, Goto, Return
  <2>6. QED
    BY <2>3, <2>4, <2>5
<1>2. ASSUME NEW c \in Cancels, CancelCall(c) PROVE RowLock'
  <2>1. \A p \in Places : Row(p)' = Row(p) /\ (HoldsRow(p)' <=> HoldsRow(p))
    BY <1>2, CancelFrame DEF Row, QuoteAsset, placeVars
  <2>2. \A d \in Cancels \ {c} : CreditRow(d)' = CreditRow(d) /\ (RefundHolds(d)' <=> RefundHolds(d))
    BY <1>2, CancelFrame DEF CreditRow, QuoteAsset, placeVars
  <2>3. CASE CreditBalanceTx(c) /\ RowFree(CreditRow(c))
    <3>1. CreditRow(c)' = CreditRow(c)
      BY <2>3 DEF CreditBalanceTx, CreditRow, QuoteAsset, placeVars
    <3>2. QED
      BY <2>1, <2>2, <2>3, <3>1 DEF RowFree, RowLock
  <2>4. CASE ~RefundHolds(c)'
    BY <2>1, <2>2, <2>4 DEF RowLock
  <2>5. (CreditBalanceTx(c) /\ RowFree(CreditRow(c))) \/ ~RefundHolds(c)'
    BY <1>2 DEF TypeOK, CancelCall, CancelStep, CancelOrder, ReadOrder, BeginRefund, CreditBalanceTx,
         CommitRefund, UpdateStatus, CancelFault, CGoto, CReturn
  <2>6. QED
    BY <2>3, <2>4, <2>5
<1>3. CASE Crash
  BY <1>3 DEF Crash, RowLock, TypeOK
<1>4. CASE UNCHANGED vars
  BY <1>4 DEF vars, placeVars, cancelVars, RowLock, Row, CreditRow, QuoteAsset
<1>5. QED
  BY <1>1, <1>2, <1>3, <1>4, NextCases

(* A committed write to a balance row comes from the row's holder.         *)
LEMMA WritersHold ==
  ASSUME TypeOK, PlaceInv, CancelInv, [Next]_vars, NEW row \in Rows, balances'[row] # balances[row]
  PROVE  \/ \E p \in Places : Commit(p) /\ Row(p) = row
         \/ \E c \in Cancels : RefundHolds(c) /\ Credit(c) /\ CreditRow(c) = row /\ CancelCall(c)
<1>1. ASSUME NEW p \in Places, PlaceCall(p) PROVE Commit(p) /\ Row(p) = row
  BY <1>1, OnlyCommitWrites DEF dbVars, Commit, Apply, TypeOK
<1>2. ASSUME NEW c \in Cancels, CancelCall(c)
      PROVE  RefundHolds(c) /\ Credit(c) /\ CreditRow(c) = row
  <2>1. RefundHolds(c) /\ Credit(c)
    BY <1>2 DEF CancelCall, CancelStep, CancelOrder, ReadOrder, BeginRefund, CreditBalanceTx,
         CommitRefund, UpdateStatus, CancelFault, RefundHolds, dbVars
  <2>2. QED
    BY <2>1 DEF Credit, TypeOK
<1>3. ~Crash /\ ~UNCHANGED vars
  BY DEF Crash, vars, dbVars
<1>4. QED
  BY <1>1, <1>2, <1>3, NextCases

(* No deduction and no refund is overwritten.                              *)
LEMMA StepNoLostUpdate ==
  TypeOK /\ PlaceInv /\ CancelInv /\ RowLock /\ NoLostUpdate /\ [Next]_vars => NoLostUpdate'
<1> SUFFICES ASSUME TypeOK, PlaceInv, CancelInv, RowLock, NoLostUpdate, [Next]_vars,
                    NEW q \in Places, HoldsRow(q)'
             PROVE  (/\ balances[Row(q)] # NoRow
                     /\ avail[q] = Numeric(balances[Row(q)] - req[q].qty))'
  BY DEF NoLostUpdate
<1> USE DEF HoldsRow
<1>1. CASE DeductBalanceTx(q)
  <2>1. Row(q)' = Row(q) /\ req' = req /\ balances' = balances
    BY <1>1 DEF DeductBalanceTx, Row, QuoteAsset, dbVars
  <2>2. pc'[q] = "insertOrder"
    BY <1>1 DEF DeductBalanceTx, Goto, Return, TypeOK
  <2>3. balances[Row(q)] # NoRow /\ avail' = [avail EXCEPT ![q] = Numeric(balances[Row(q)] - req[q].qty)]
    BY <1>1, <2>2 DEF DeductBalanceTx, Return, TypeOK
  <2>4. QED
    BY <2>1, <2>3 DEF TypeOK
<1>2. CASE ~DeductBalanceTx(q)
  <2>1. HoldsRow(q) /\ ~Commit(q) /\ avail'[q] = avail[q] /\ req'[q] = req[q]
    <3>1. CASE \E p \in Places \ {q} : PlaceCall(p)
      BY <3>1, PlaceFrame DEF Commit, Goto, TypeOK
    <3>2. CASE PlaceCall(q)
      BY <1>2, <3>2 DEF TypeOK, PlaceCall, PlaceStep, PlaceOrder, CheckIdempotency, BeginTx,
         CreateWithTx, InsertOutboxWithTx, Commit, ReplyPlaced, PlaceFault, Goto, Return
    <3>3. CASE \E c \in Cancels : CancelCall(c)
      BY <3>3, CancelFrame DEF placeVars, Commit, Goto, TypeOK
    <3>4. CASE Crash
      BY <3>4 DEF Crash, TypeOK
    <3>5. CASE UNCHANGED vars
      BY <3>5 DEF vars, placeVars, Commit, Goto, TypeOK
    <3>6. QED
      BY <3>1, <3>2, <3>3, <3>4, <3>5, NextCases
  <2>2. Row(q)' = Row(q) /\ Row(q) \in Rows
    BY <2>1, RowType DEF Row, QuoteAsset, PlaceInv
  <2>3. balances'[Row(q)] = balances[Row(q)]
    <3> SUFFICES ASSUME balances'[Row(q)] # balances[Row(q)] PROVE FALSE
      OBVIOUS
    <3>1. CASE \E p \in Places : Commit(p) /\ Row(p) = Row(q)
      BY <2>1, <3>1 DEF RowLock, Commit
    <3>2. CASE \E c \in Cancels : RefundHolds(c) /\ CreditRow(c) = Row(q)
      BY <2>1, <3>2 DEF RowLock
    <3>3. QED
      BY <2>2, <3>1, <3>2, WritersHold
  <2>4. QED
    BY <2>1, <2>2, <2>3 DEF NoLostUpdate
<1>3. QED
  BY <1>1, <1>2

-------------------------------------------------------------------------------
(* No balance becomes negative.                                            *)
LEMMA StepBalanceInv ==
  TypeOK /\ PlaceInv /\ CancelInv /\ BalanceInv /\ [Next]_vars => BalanceInv'
<1> SUFFICES ASSUME TypeOK, PlaceInv, CancelInv, BalanceInv, [Next]_vars PROVE BalanceInv'
  OBVIOUS
<1>1. balances' \in [Rows -> Nat \cup {NoRow}]
  <2>1. balances' \in [Rows -> Int \cup {NoRow}]
    BY StepTypeOK DEF TypeOK
  <2>2. ASSUME NEW row \in Rows, balances'[row] # balances[row]
        PROVE  balances'[row] \in Nat
    <3>1. ASSUME NEW p \in Places, Commit(p), Row(p) = row PROVE balances'[row] \in Nat
      BY <3>1 DEF Commit, Apply, BalanceInv, HoldsRow
    <3>2. ASSUME NEW c \in Cancels, RefundHolds(c), Credit(c), CreditRow(c) = row
          PROVE  balances'[row] \in Nat
      <4>1. StoredQty(ask[c].order) \in Nat
        BY <3>2, CreditRowType DEF RefundHolds
      <4>2. QED
        BY <3>2, <4>1 DEF Credit, BalanceInv
    <3>3. QED
      BY <2>2, <3>1, <3>2, WritersHold
  <2>3. QED
    BY <2>1, <2>2 DEF BalanceInv
<1>2. ASSUME NEW q \in Places, HoldsRow(q)' PROVE avail'[q] \in Nat
  <2>1. CASE DeductBalanceTx(q)
    <3>1. req[q].qty \in Nat /\ Row(q) \in Rows
      BY <2>1, RowType DEF DeductBalanceTx, PlaceInv
    <3>2. /\ balances[Row(q)] # NoRow /\ ~Insufficient(q)
          /\ avail'[q] = Numeric(balances[Row(q)] - req[q].qty)
      BY <1>2, <2>1 DEF DeductBalanceTx, Return, TypeOK, HoldsRow
    <3>3. balances[Row(q)] - req[q].qty \in Nat
      BY <3>1, <3>2 DEF BalanceInv, Insufficient
    <3>4. QED
      BY <3>2, <3>3, NumericNat
  <2>2. CASE ~DeductBalanceTx(q)
    <3>1. CASE \E p \in Places \ {q} : PlaceCall(p)
      BY <1>2, <3>1, PlaceFrame DEF BalanceInv, HoldsRow
    <3>2. CASE PlaceCall(q)
      BY <1>2, <2>2, <3>2 DEF TypeOK, PlaceCall, PlaceStep, PlaceOrder, CheckIdempotency, BeginTx,
         CreateWithTx, InsertOutboxWithTx, Commit, ReplyPlaced, PlaceFault, Goto, Return,
         BalanceInv, HoldsRow
    <3>3. CASE \E c \in Cancels : CancelCall(c)
      BY <1>2, <3>3, CancelFrame DEF placeVars, BalanceInv, HoldsRow
    <3>4. CASE Crash
      BY <1>2, <3>4 DEF Crash, TypeOK, BalanceInv, HoldsRow
    <3>5. CASE UNCHANGED vars
      BY <1>2, <3>5 DEF vars, placeVars, BalanceInv, HoldsRow
    <3>6. QED
      BY <3>1, <3>2, <3>3, <3>4, <3>5, NextCases
  <2>3. QED
    BY <2>1, <2>2
<1>3. QED
  BY <1>1, <1>2 DEF BalanceInv
-------------------------------------------------------------------------------
(* The set of orders grows by the committed order only.                    *)
LEMMA PlacedGrows ==
  ASSUME TypeOK, PlaceInv, CancelInv, [Next]_vars
  PROVE  /\ \A p \in Placed' : p \in Placed \/ Commit(p)
         /\ Placed \subseteq Placed'
         /\ \A p \in Placed : req'[p] = req[p]
<1>1. ASSUME NEW p \in Places, PlaceCall(p)
      PROVE  /\ Placed' = Placed \/ (Commit(p) /\ Placed' = Placed \cup {p})
             /\ \A q \in Placed : req'[q] = req[q]
  <2>1. Placed' = Placed \/ (Commit(p) /\ Placed' = Placed \cup {p})
    BY <1>1, OnlyCommitWrites, CommitPlaces DEF Placed, dbVars
  <2>2. \A q \in Placed : q \in Places /\ pc[q] # "idle"
    BY DEF PlaceInv, Placed
  <2>3. QED
    BY <1>1, <2>1, <2>2, PlaceFrame, RequestFixed
<1>2. ASSUME NEW c \in Cancels, CancelCall(c) PROVE Placed' = Placed /\ req' = req
  BY <1>2, CancelFrame DEF placeVars
<1>3. CASE Crash \/ UNCHANGED vars
  BY <1>3 DEF Crash, vars, placeVars, dbVars, Placed
<1>4. QED
  BY <1>1, <1>2, <1>3, NextCases

(* Transactions that have inserted an order exclude one another by key.    *)
LEMMA StepKeyLock ==
  TypeOK /\ PlaceInv /\ CancelInv /\ KeyLock /\ [Next]_vars => KeyLock'
<1> SUFFICES ASSUME TypeOK, PlaceInv, CancelInv, KeyLock, [Next]_vars PROVE KeyLock'
  OBVIOUS
<1> USE DEF HoldsKey
<1>1. ASSUME NEW q \in Places, HoldsKey(q)'
      PROVE  /\ req'[q] = req[q]
             /\ \/ HoldsKey(q) /\ ~Commit(q)
                \/ CreateWithTx(q) /\ OrdersWithKey(req[q].key) = {}
                   /\ \A p \in Places : HoldsKey(p) => req[p].key # req[q].key
  <2>1. CASE \E p \in Places \ {q} : PlaceCall(p)
    BY <1>1, <2>1, PlaceFrame DEF Commit, Goto, TypeOK
  <2>2. CASE PlaceCall(q)
    BY <1>1, <2>2 DEF TypeOK, PlaceCall, PlaceStep, PlaceOrder, CheckIdempotency, BeginTx, DeductBalanceTx,
         CreateWithTx, InsertOutboxWithTx, Commit, ReplyPlaced, PlaceFault, Goto, Return
  <2>3. CASE \E c \in Cancels : CancelCall(c)
    BY <1>1, <2>3, CancelFrame DEF placeVars, Commit, Goto, TypeOK
  <2>4. CASE Crash
    BY <1>1, <2>4 DEF Crash, TypeOK
  <2>5. CASE UNCHANGED vars
    BY <1>1, <2>5 DEF vars, placeVars, Commit, Goto, TypeOK
  <2>6. QED
    BY <2>1, <2>2, <2>3, <2>4, <2>5, NextCases
<1>2. ASSUME NEW p \in Places, NEW q \in Places, HoldsKey(p)', HoldsKey(q)',
             req'[p].key = req'[q].key
      PROVE  p = q
  <2>1. ASSUME CreateWithTx(p), CreateWithTx(q), p # q PROVE FALSE
    BY <1>2, <2>1 DEF CreateWithTx, Goto, Return, TypeOK
  <2>2. QED
    BY <1>1, <1>2, <2>1 DEF KeyLock
<1>3. ASSUME NEW p \in Places, NEW q \in Placed', HoldsKey(p)', req'[p].key = req'[q].key
      PROVE  FALSE
  <2>1. q \in Places
    BY DEF Placed
  <2>2. CASE q \in Placed
    BY <1>1, <1>3, <2>1, <2>2, PlacedGrows DEF KeyLock, OrdersWithKey
  <2>3. CASE Commit(q)
    <3>1. req' = req /\ HoldsKey(q)
      BY <2>3 DEF Commit
    <3>2. p # q /\ HoldsKey(p)
      BY <1>3, <2>1, <2>3 DEF Commit, Goto, TypeOK
    <3>3. QED
      BY <1>3, <2>1, <3>1, <3>2 DEF KeyLock
  <2>4. QED
    BY <2>2, <2>3, PlacedGrows
<1>4. QED
  BY <1>2, <1>3 DEF KeyLock

(* A second order with a key is never committed.                           *)
LEMMA StepOneOrderPerKey ==
  TypeOK /\ PlaceInv /\ CancelInv /\ KeyLock /\ OneOrderPerKey /\ [Next]_vars => OneOrderPerKey'
<1> SUFFICES ASSUME TypeOK, PlaceInv, CancelInv, KeyLock, OneOrderPerKey, [Next]_vars,
                    NEW p \in Placed', NEW q \in Placed', req'[p].key = req'[q].key
             PROVE  p = q
  BY DEF OneOrderPerKey
<1>1. p \in Places /\ q \in Places
  BY DEF Placed
<1>2. CASE p \in Placed /\ q \in Placed
  BY <1>2, PlacedGrows DEF OneOrderPerKey
<1>3. ASSUME NEW a \in Places, NEW b \in Placed, Commit(a), req'[a].key = req'[b].key PROVE FALSE
  BY <1>3 DEF Commit, KeyLock, HoldsKey
<1>4. CASE Commit(p) /\ Commit(q)
  BY <1>1, <1>4 DEF Commit, Goto, TypeOK
<1>5. QED
  BY <1>1, <1>2, <1>3, <1>4, PlacedGrows

-------------------------------------------------------------------------------
(* Orders and their events are written together.                           *)
LEMMA StepOutbox ==
  TypeOK /\ PlaceInv /\ CancelInv /\ outbox = Placed /\ [Next]_vars => (outbox = Placed)'
<1> SUFFICES ASSUME TypeOK, PlaceInv, CancelInv, outbox = Placed, [Next]_vars
             PROVE  outbox' = Placed'
  OBVIOUS
<1>1. ASSUME NEW p \in Places, PlaceCall(p) PROVE outbox' = Placed'
  BY <1>1, OnlyCommitWrites, CommitPlaces DEF Placed, dbVars, Commit, Apply
<1>2. ASSUME NEW c \in Cancels, CancelCall(c) PROVE outbox' = Placed'
  BY <1>2, CancelFrame
<1>3. CASE Crash \/ UNCHANGED vars
  BY <1>3 DEF Crash, vars, dbVars, Placed
<1>4. QED
  BY <1>1, <1>2, <1>3, NextCases

(* An answer names a committed order with the key of the call.             *)
LEMMA StepAnswerInv ==
  TypeOK /\ PlaceInv /\ CancelInv /\ AnswerInv /\ [Next]_vars => AnswerInv'
<1> SUFFICES ASSUME TypeOK, PlaceInv, CancelInv, AnswerInv, [Next]_vars,
                    NEW q \in Places, reply'[q] = "order"
             PROVE  answer'[q] \in Placed' /\ req'[answer'[q]].key = req'[q].key
  BY DEF AnswerInv
<1>1. CASE reply[q] = "order" /\ answer'[q] = answer[q]
  <2>1. pc[q] # "idle" /\ answer[q] \in Placed /\ req[answer[q]].key = req[q].key
    BY <1>1 DEF PlaceInv, AnswerInv
  <2>2. req'[q] = req[q]
    <3>1. ASSUME NEW p \in Places, PlaceCall(p) PROVE req'[q] = req[q]
      BY <2>1, <3>1, PlaceFrame, RequestFixed
    <3>2. ASSUME NEW c \in Cancels, CancelCall(c) PROVE req'[q] = req[q]
      BY <3>2, CancelFrame DEF placeVars
    <3>3. QED
      BY <3>1, <3>2, NextCases DEF Crash, vars, placeVars
  <2>3. QED
    BY <1>1, <2>1, <2>2, PlacedGrows
<1>2. CASE CheckIdempotency(q) /\ answer'[q] \in OrdersWithKey(req[q].key)
  BY <1>2, PlacedGrows DEF CheckIdempotency, OrdersWithKey
<1>3. CASE ReplyPlaced(q) /\ answer'[q] = q
  BY <1>3, PlacedGrows DEF ReplyPlaced, PlaceInv
<1>4. QED
  <2>1. CASE \E p \in Places \ {q} : PlaceCall(p)
    BY <1>1, <2>1, PlaceFrame
  <2>2. CASE PlaceCall(q)
    <3>1. \/ reply[q] = "order" /\ answer'[q] = answer[q]
          \/ CheckIdempotency(q) /\ answer'[q] \in OrdersWithKey(req[q].key)
          \/ ReplyPlaced(q) /\ answer'[q] = q
      <4>1. CASE CheckIdempotency(q)
        BY <4>1 DEF TypeOK, CheckIdempotency, Goto, Return
      <4>2. CASE ReplyPlaced(q)
        BY <4>2 DEF TypeOK, ReplyPlaced, Return
      <4>3. CASE PlaceOrder(q) \/ BeginTx(q) \/ InsertOutboxWithTx(q) \/ Commit(q)
        BY <4>3 DEF TypeOK, PlaceOrder, BeginTx, InsertOutboxWithTx, Commit, Goto, Return
      <4>4. CASE DeductBalanceTx(q) \/ CreateWithTx(q) \/ PlaceFault(q)
        BY <4>4 DEF TypeOK, DeductBalanceTx, CreateWithTx, PlaceFault, Goto, Return
      <4>5. QED
        BY <2>2, <4>1, <4>2, <4>3, <4>4 DEF PlaceCall, PlaceStep
    <3>2. QED
      BY <1>1, <1>2, <1>3, <3>1
  <2>3. CASE \E c \in Cancels : CancelCall(c)
    BY <1>1, <2>3, CancelFrame DEF placeVars
  <2>4. CASE Crash
    BY <1>1, <2>4 DEF Crash, TypeOK
  <2>5. CASE UNCHANGED vars
    BY <1>1, <2>5 DEF vars, placeVars
  <2>6. QED
    BY <2>1, <2>2, <2>3, <2>4, <2>5, NextCases
-------------------------------------------------------------------------------
(* A CancelOrder call refunds its caller, who owns the order, before it    *)
(* updates the status.                                                     *)
LEMMA StepCancelInv == TypeOK /\ PlaceInv /\ CancelInv /\ [Next]_vars => CancelInv'
<1> SUFFICES ASSUME TypeOK, PlaceInv, CancelInv, [Next]_vars PROVE CancelInv'
  OBVIOUS
<1> DEFINE I(d) ==
      /\ cpc[d] # "idle" => ask[d] \in [user : Users \cup {Nil}, order : Places]
      /\ d \in refunded => cpc[d] \in {"update", "done"}
      /\ cpc[d] \in {"begin", "credit", "creditCommit", "update"} =>
           /\ ask[d].order \in Placed
           /\ ask[d].user \in {Nil, req[ask[d].order].user}
      /\ cpc[d] \in {"creditCommit", "update"} => ask[d].user # Nil
      /\ cpc[d] = "update" => d \in refunded
<1>0. \A d \in Cancels : I(d)
  BY DEF CancelInv
<1>1. ASSUME NEW p \in Places, PlaceCall(p) PROVE CancelInv'
  BY <1>0, <1>1, PlaceFrame, PlacedGrows DEF cancelVars, CancelInv
<1>2. ASSUME NEW c \in Cancels, CancelCall(c) PROVE CancelInv'
  <2>1. Placed' = Placed /\ req' = req
    BY <1>2, CancelFrame DEF placeVars
  <2>2. ASSUME NEW d \in Cancels \ {c} PROVE I(d)'
    BY <1>0, <1>2, <2>1, <2>2, CancelFrame
  <2>3. I(c)'
    <3>1. CASE CancelOrder(c)
      BY <1>0, <2>1, <3>1 DEF CancelOrder, CGoto, TypeOK
    <3>2. CASE ReadOrder(c) \/ BeginRefund(c) \/ CreditBalanceTx(c)
      BY <1>0, <2>1, <3>2 DEF ReadOrder, BeginRefund, CreditBalanceTx, CGoto, CReturn, TypeOK
    <3>3. CASE CommitRefund(c)
      BY <1>0, <2>1, <3>3 DEF CommitRefund, Credit, CGoto, TypeOK
    <3>4. CASE UpdateStatus(c)
      BY <1>0, <2>1, <3>4 DEF UpdateStatus, CReturn, TypeOK
    <3>5. CASE CancelFault(c)
      BY <1>0, <2>1, <3>5 DEF CancelFault, CReturn, TypeOK
    <3>6. QED
      BY <1>2, <3>1, <3>2, <3>3, <3>4, <3>5 DEF CancelCall, CancelStep
  <2>4. QED
    BY <2>2, <2>3 DEF CancelInv
<1>3. CASE Crash
  BY <1>0, <1>3 DEF Crash, TypeOK, dbVars, Placed, CancelInv
<1>4. CASE UNCHANGED vars
  BY <1>0, <1>4 DEF vars, placeVars, cancelVars, dbVars, Placed, CancelInv
<1>5. QED
  BY <1>1, <1>2, <1>3, <1>4, NextCases

(* A committed refund stays, and so does what was asked for.               *)
LEMMA RefundsStay ==
  ASSUME TypeOK, PlaceInv, CancelInv, [Next]_vars
  PROVE  \A c \in refunded : c \in refunded' /\ ask'[c] = ask[c]
<1> SUFFICES ASSUME NEW c \in refunded PROVE c \in refunded' /\ ask'[c] = ask[c]
  OBVIOUS
<1>1. c \in Cancels /\ cpc[c] \in {"update", "done"}
  BY DEF CancelInv, TypeOK
<1>2. CASE \E q \in Places : PlaceCall(q)
  BY <1>2, PlaceFrame DEF cancelVars
<1>3. CASE CancelCall(c)
  BY <1>1, <1>3 DEF CancelCall, CancelStep, CancelOrder, ReadOrder, BeginRefund, CreditBalanceTx,
       CommitRefund, UpdateStatus, CancelFault
<1>4. CASE \E d \in Cancels \ {c} : CancelCall(d)
  BY <1>1, <1>4, CancelFrame
<1>5. QED
  BY <1>2, <1>3, <1>4, NextCases DEF Crash, vars, cancelVars

(* CANCELLED is written after the owner's refund.                          *)
LEMMA StepCancelledWasRefunded ==
  TypeOK /\ PlaceInv /\ CancelInv /\ CancelledWasRefunded /\ [Next]_vars => CancelledWasRefunded'
<1> SUFFICES ASSUME TypeOK, PlaceInv, CancelInv, CancelledWasRefunded, [Next]_vars,
                    NEW p \in Placed', status'[p] = "CANCELLED"
             PROVE  \E c \in refunded' : ask'[c] = [user |-> req'[p].user, order |-> p]
  BY DEF CancelledWasRefunded
<1>1. \A c \in refunded : c \in refunded' /\ ask'[c] = ask[c]
  BY RefundsStay
<1>2. CASE p \in Placed /\ status[p] = "CANCELLED"
  <2>1. PICK c \in refunded : ask[c] = [user |-> req[p].user, order |-> p]
    BY <1>2 DEF CancelledWasRefunded
  <2>2. QED
    BY <1>1, <1>2, <2>1, PlacedGrows
<1>3. ASSUME NEW c \in Cancels, cpc[c] = "update", ask[c].order = p PROVE
         \E d \in refunded' : ask'[d] = [user |-> req'[p].user, order |-> p]
  <2>1. c \in refunded /\ p \in Placed /\ ask[c].user = req[p].user
    BY <1>3, CreditRowType DEF CancelInv
  <2>2. ask[c] = [user |-> req[p].user, order |-> p]
    BY <1>3, <2>1 DEF CancelInv
  <2>3. QED
    BY <1>1, <2>1, <2>2, PlacedGrows
<1>4. (p \in Placed /\ status[p] = "CANCELLED") \/ \E c \in Cancels : cpc[c] = "update" /\ ask[c].order = p
  <2>0. p \in Places
    BY DEF Placed
  <2>1. ASSUME NEW q \in Places, PlaceCall(q) PROVE status[p] = "CANCELLED"
    BY <2>0, <2>1, OnlyCommitWrites DEF dbVars, Commit, Apply, TypeOK
  <2>2. ASSUME NEW c \in Cancels, CancelCall(c)
        PROVE  status[p] = "CANCELLED" \/ (cpc[c] = "update" /\ ask[c].order = p)
    BY <2>0, <2>2, CancelWritesStatus DEF TypeOK
  <2>3. ASSUME Crash \/ UNCHANGED vars PROVE status[p] = "CANCELLED"
    BY <2>3 DEF Crash, vars, dbVars
  <2>4. status[p] = "CANCELLED" => p \in Placed
    BY <2>0 DEF Placed
  <2>5. QED
    BY <2>1, <2>2, <2>3, <2>4, NextCases
<1>5. QED
  BY <1>2, <1>3, <1>4
-------------------------------------------------------------------------------
(* The inductive invariant.                                                *)
LEMMA StepIInv == IInv /\ [Next]_vars => IInv'
BY StepTypeOK, StepPlaceInv, StepBalanceInv, StepRowLock, StepNoLostUpdate, StepKeyLock,
   StepOneOrderPerKey, StepAnswerInv, StepOutbox, StepCancelInv, StepCancelledWasRefunded
DEF IInv

LEMMA Invariance == Spec => []IInv
BY InitIInv, StepIInv, PTL DEF Spec

(* Every variable keeps its type: in particular every order has one of the *)
(* statuses of models.go.                                                  *)
THEOREM TypeCorrect == Spec => []TypeOK
<1>1. IInv => TypeOK
  BY DEF IInv
<1>2. QED
  BY <1>1, Invariance, PTL

(* No interleaving of orders, cancellations, failures and crashes makes a  *)
(* balance negative (repository.go:130-156).                               *)
THEOREM Solvency == Spec => []NoOverdraft
<1>1. IInv => NoOverdraft
  BY ConstantsAssumption DEF IInv, BalanceInv, NoOverdraft
<1>2. QED
  BY <1>1, Invariance, PTL

(* SELECT ... FOR UPDATE keeps the value a transaction writes up to date   *)
(* with the row (repository.go:132-152).                                   *)
THEOREM RowLocking == Spec => []NoLostUpdate
<1>1. IInv => NoLostUpdate
  BY DEF IInv
<1>2. QED
  BY <1>1, Invariance, PTL

(* The unique index backs up the lookup of service.go:68: one order per    *)
(* idempotency key.                                                        *)
THEOREM KeysAreUnique == Spec => []OneOrderPerKey
<1>1. IInv => OneOrderPerKey
  BY DEF IInv
<1>2. QED
  BY <1>1, Invariance, PTL

(* Calls with one key that return an order return the same order.          *)
THEOREM Idempotence == Spec => []IdempotentReplies
<1>1. IInv => IdempotentReplies
  BY DEF IInv, AnswerInv, OneOrderPerKey, IdempotentReplies
<1>2. QED
  BY <1>1, Invariance, PTL

(* An order and its outbox event exist together or not at all, and a       *)
(* refused call leaves neither (service.go:130-148).                       *)
THEOREM Atomicity == Spec => []AtomicPlacement
<1>1. IInv => AtomicPlacement
  <2> SUFFICES ASSUME IInv, NEW p \in Places, p \in Placed,
                      reply[p] \in PlaceReplies \ {"none", "order", "error", "lost"}
               PROVE  FALSE
    BY DEF IInv, AtomicPlacement
  <2>1. pc[p] = "done"
    BY DEF IInv, PlaceInv
  <2>2. QED
    BY <2>1 DEF IInv, PlaceInv
<1>2. QED
  BY <1>1, Invariance, PTL

(* A cancelled order has been refunded to its owner (service.go:204-217).  *)
THEOREM RefundPrecedesCancel == Spec => []CancelledWasRefunded
<1>1. IInv => CancelledWasRefunded
  BY DEF IInv
<1>2. QED
  BY <1>1, Invariance, PTL
-------------------------------------------------------------------------------
(* Rounding *)

LEMMA Division ==
  ASSUME NEW d \in Nat \ {0}, NEW k \in Int, NEW r \in Int, 0 <= r, r < d
  PROVE  (k * d + r) \div d = k /\ (k * d + r) % d = r
OBVIOUS

LEMMA Parts ==
  ASSUME NEW d \in Nat \ {0}, NEW n \in Int
  PROVE  \E k, r \in Int : n = k * d + r /\ 0 <= r /\ r < d
<1> DEFINE k == n \div d
           r == n % d
<1>1. k \in Int /\ r \in Int /\ 0 <= r /\ r < d
  OBVIOUS
<1>2. k = n \div d /\ r = n % d
  OBVIOUS
<1> HIDE DEF k, r
<1>3. n = k * d + r
  BY <1>1, <1>2
<1>4. QED
  BY <1>1, <1>3

(* Two halves of a tick are rounded up.                                    *)
LEMMA NumericOf ==
  ASSUME NEW x \in Int, NEW m \in Int, NEW r \in Int,
         0 <= r, r < 2 * Tick, 2 * x = m * (2 * Tick) + r
  PROVE  Numeric(x) = (IF r < Tick THEN m ELSE m + 1) * Tick
<1> DEFINE d == 2 * Tick
<1>1. d \in Nat \ {0} /\ Tick \in Nat
  BY ConstantsAssumption
<1>2. CASE r < Tick
  <2>1. 2 * x + Tick = m * d + (r + Tick) /\ r + Tick \in Int /\ 0 <= r + Tick /\ r + Tick < d
    BY <1>1, <1>2
  <2> HIDE DEF d
  <2>2. (2 * x + Tick) \div d = m
    BY <1>1, <2>1, Division
  <2>3. QED
    BY <1>2, <2>2 DEF Numeric, d
<1>3. CASE r >= Tick
  <2>1. (m + 1) * d = m * d + d
    <3> HIDE DEF d
    <3>1. QED
      BY <1>1
  <2>2. 2 * x + Tick = (m + 1) * d + (r - Tick) /\ r - Tick \in Int /\ 0 <= r - Tick /\ r - Tick < d
    BY <1>1, <1>3, <2>1
  <2> HIDE DEF d
  <2>3. (2 * x + Tick) \div d = m + 1
    BY <1>1, <2>2, Division
  <2>4. QED
    BY <1>1, <1>3, <2>3 DEF Numeric, d
<1>4. QED
  BY <1>1, <1>2, <1>3

(* Deducting q from a balance the column can hold rounds the balance as   *)
(* the order's own quantity is rounded, but for a half tick.               *)
LEMMA Rounding ==
  ASSUME NEW k \in Int, NEW q \in Int
  PROVE  LET b == k * Tick IN
         /\ \E j \in Int : Numeric(b - q) = j * Tick
         /\ Numeric(b - q) = b - Numeric(q) + (IF (2 * q) % (2 * Tick) = Tick THEN Tick ELSE 0)
<1> DEFINE d == 2 * Tick
           b == k * Tick
           x == b - q
           half == IF (2 * q) % d = Tick THEN Tick ELSE 0
<1>1. d \in Nat \ {0} /\ Tick \in Nat \ {0} /\ b \in Int /\ x \in Int /\ 2 * q \in Int
  BY ConstantsAssumption
<1>2. d = 2 * Tick /\ b = k * Tick /\ x = b - q
  OBVIOUS
<1>3. half = IF (2 * q) % d = Tick THEN Tick ELSE 0
  OBVIOUS
<1>4. SUFFICES (\E j \in Int : Numeric(x) = j * Tick) /\ Numeric(x) = b - Numeric(q) + half
  OBVIOUS
<1> HIDE DEF d, b, x, half
<1>5. PICK m, r \in Int : 2 * q = m * d + r /\ 0 <= r /\ r < d
  BY <1>1, Parts
<1>6. (2 * q) % d = r
  BY <1>1, <1>5, Division
<1>7. Numeric(q) = (IF r < Tick THEN m ELSE m + 1) * Tick
  BY <1>2, <1>5, NumericOf
<1>8. /\ 2 * b = k * d /\ (k - m) * d = k * d - m * d /\ (k - m - 1) * d = k * d - m * d - d
      /\ (k - m) * Tick = b - m * Tick /\ (k - m - 1) * Tick = b - m * Tick - Tick
      /\ (m + 1) * Tick = m * Tick + Tick /\ m * Tick \in Int /\ m * d \in Int /\ k * d \in Int
  BY <1>1, <1>2
<1>9. CASE r = 0
  <2>1. 2 * x = (k - m) * d + 0
    BY <1>1, <1>2, <1>5, <1>8, <1>9
  <2>2. Numeric(x) = (k - m) * Tick
    BY <1>1, <1>2, <2>1, NumericOf
  <2>3. Numeric(q) = m * Tick /\ half = 0
    BY <1>1, <1>3, <1>6, <1>7, <1>9
  <2>4. k - m \in Int
    OBVIOUS
  <2>5. Numeric(x) = b - Numeric(q) + half
    BY <1>1, <1>8, <2>2, <2>3
  <2>6. QED
    BY <2>2, <2>4, <2>5
<1>10. CASE r > 0
  <2>1. 2 * x = (k - m - 1) * d + (d - r) /\ d - r \in Int /\ 0 <= d - r /\ d - r < d
    BY <1>1, <1>2, <1>5, <1>8, <1>10
  <2>2. Numeric(x) = (IF d - r < Tick THEN k - m - 1 ELSE k - m - 1 + 1) * Tick
    <3> DEFINE j == k - m - 1
               s == d - r
    <3>1. j \in Int /\ s \in Int /\ 0 <= s /\ s < 2 * Tick /\ 2 * x = j * (2 * Tick) + s
      BY <1>2, <2>1
    <3> HIDE DEF j, s
    <3>2. Numeric(x) = (IF s < Tick THEN j ELSE j + 1) * Tick
      BY <1>1, <3>1, NumericOf
    <3>3. QED
      BY <3>2 DEF j, s
  <2>3. d - r < Tick <=> r > Tick
    BY <1>1, <1>2
  <2>4. CASE r > Tick
    <3>1. Numeric(x) = (k - m - 1) * Tick /\ Numeric(q) = (m + 1) * Tick /\ half = 0
      BY <1>1, <1>3, <1>6, <1>7, <2>2, <2>3, <2>4
    <3>2. Numeric(x) = b - Numeric(q) + half
      BY <1>1, <1>8, <3>1
    <3>3. k - m \in Int /\ k - m - 1 \in Int
      OBVIOUS
    <3>4. QED
      BY <3>1, <3>2, <3>3
  <2>5. CASE r = Tick
    <3>1. Numeric(x) = (k - m) * Tick /\ Numeric(q) = (m + 1) * Tick /\ half = Tick
      <4>1. k - m - 1 + 1 = k - m
        OBVIOUS
      <4>2. QED
        BY <1>1, <1>3, <1>6, <1>7, <2>2, <2>3, <2>5, <4>1
    <3>2. Numeric(x) = b - Numeric(q) + half
      BY <1>1, <1>8, <3>1
    <3>3. k - m \in Int /\ k - m - 1 \in Int
      OBVIOUS
    <3>4. QED
      BY <3>1, <3>2, <3>3
  <2>6. CASE r < Tick
    <3>1. Numeric(x) = (k - m) * Tick /\ Numeric(q) = m * Tick /\ half = 0
      <4>1. k - m - 1 + 1 = k - m
        OBVIOUS
      <4>2. QED
        BY <1>1, <1>3, <1>6, <1>7, <2>2, <2>3, <2>6, <4>1
    <3>2. Numeric(x) = b - Numeric(q) + half
      BY <1>1, <1>8, <3>1
    <3>3. k - m \in Int /\ k - m - 1 \in Int
      OBVIOUS
    <3>4. QED
      BY <3>1, <3>2, <3>3
  <2>7. QED
    BY <1>1, <2>4, <2>5, <2>6
<1>11. QED
  BY <1>5, <1>9, <1>10

(* What the column can hold. *)
Whole(x) == \E k \in Int : x = k * Tick

LEMMA NumericWhole == ASSUME NEW x \in Int PROVE Whole(Numeric(x))
<1> DEFINE k == (2 * x + Tick) \div (2 * Tick)
<1>1. k \in Int
  BY ConstantsAssumption
<1>2. Numeric(x) = k * Tick
  BY DEF Numeric
<1> HIDE DEF k
<1>3. QED
  BY <1>1, <1>2 DEF Whole
-------------------------------------------------------------------------------
(* The ledger *)

Opening(row) == IF InitialBalances[row] = NoRow THEN 0 ELSE InitialBalances[row]

(* A row without a balance has never been paid from or to; another differs *)
(* from what it should hold by the half ticks of its orders.               *)
RowInv(row) ==
  IF balances[row] = NoRow
  THEN InitialBalances[row] = NoRow /\ OrdersOn(row) = {} /\ RefundsTo(row) = {}
  ELSE /\ Whole(balances[row])
       /\ balances[row] - Expected(row) \in 0 .. (Tick * Cardinality(HalfTickOrders(row)))

LedgerInv ==
  /\ IsFiniteSet(Placed) /\ IsFiniteSet(refunded)
  /\ \A c \in refunded : ask[c].order \in Placed
  /\ \A row \in Rows : RowInv(row)

LEMMA LedgerTypes ==
  ASSUME IInv, LedgerInv
  PROVE  /\ \A p \in Placed : /\ Cost[p] = StoredQty(p) /\ StoredQty(p) \in Nat
                              /\ req[p].qty \in Int /\ Row(p) \in Rows
         /\ \A c \in refunded : /\ Refund[c] = StoredQty(ask[c].order) /\ Refund[c] \in Nat
         /\ \A row \in Rows :
              /\ IsFiniteSet(OrdersOn(row)) /\ IsFiniteSet(RefundsTo(row))
              /\ OrdersOn(row) \subseteq Placed /\ RefundsTo(row) \subseteq refunded
              /\ IsFiniteSet(HalfTickOrders(row)) /\ Cardinality(HalfTickOrders(row)) \in Nat
              /\ SpentOn(row) \in Int /\ RefundedTo(row) \in Int /\ Opening(row) \in Int
              /\ Expected(row) = Opening(row) - SpentOn(row) + RefundedTo(row)
<1>1. ASSUME NEW p \in Placed
      PROVE  /\ Cost[p] = StoredQty(p) /\ StoredQty(p) \in Nat
             /\ req[p].qty \in Int /\ Row(p) \in Rows
  <2>1. p \in Places /\ Accepted(p)
    BY DEF IInv, PlaceInv, Placed
  <2>2. QED
    BY <2>1, RowType, StoredQtyNat DEF Cost
<1>2. \A c \in refunded : Refund[c] = StoredQty(ask[c].order) /\ Refund[c] \in Nat
  BY <1>1 DEF Refund, LedgerInv
<1>3. ASSUME NEW row \in Rows
      PROVE  /\ IsFiniteSet(OrdersOn(row)) /\ IsFiniteSet(RefundsTo(row))
             /\ OrdersOn(row) \subseteq Placed /\ RefundsTo(row) \subseteq refunded
             /\ IsFiniteSet(HalfTickOrders(row)) /\ Cardinality(HalfTickOrders(row)) \in Nat
             /\ SpentOn(row) \in Int /\ RefundedTo(row) \in Int /\ Opening(row) \in Int
             /\ Expected(row) = Opening(row) - SpentOn(row) + RefundedTo(row)
  <2>1. OrdersOn(row) \in SUBSET Placed /\ RefundsTo(row) \in SUBSET refunded
    BY DEF OrdersOn, RefundsTo
  <2>2. IsFiniteSet(OrdersOn(row)) /\ IsFiniteSet(RefundsTo(row))
    BY <2>1, FS_Subset DEF LedgerInv
  <2>3. IsFiniteSet(HalfTickOrders(row)) /\ Cardinality(HalfTickOrders(row)) \in Nat
    <3>1. HalfTickOrders(row) \in SUBSET OrdersOn(row)
      BY DEF HalfTickOrders
    <3>2. QED
      BY <2>2, <3>1, FS_Subset, FS_CardinalityType
  <2>4. SpentOn(row) \in Int /\ RefundedTo(row) \in Int
    <3>1. \A p \in OrdersOn(row) : Cost[p] \in Int
      BY <1>1, <2>1
    <3>2. \A c \in RefundsTo(row) : Refund[c] \in Int
      BY <1>2, <2>1
    <3>3. QED
      BY <2>2, <3>1, <3>2, SumType DEF SpentOn, RefundedTo
  <2>5. Opening(row) \in Int
    BY ConstantsAssumption DEF Opening
  <2>6. QED
    BY <2>1, <2>2, <2>3, <2>4, <2>5 DEF Expected, Opening
<1>4. QED
  BY <1>1, <1>2, <1>3

(* A row that no order and no refund touches.                              *)
LEMMA RowKept ==
  ASSUME IInv, LedgerInv, NEW row \in Rows, balances'[row] = balances[row],
         OrdersOn(row)' = OrdersOn(row), RefundsTo(row)' = RefundsTo(row),
         \A p \in OrdersOn(row) : Cost'[p] = Cost[p] /\ req'[p] = req[p],
         \A c \in RefundsTo(row) : Refund'[c] = Refund[c]
  PROVE  RowInv(row)'
<1>1. SumFunctionOnSet(Cost', OrdersOn(row)) = SpentOn(row)
  BY LedgerTypes, SumAgree DEF SpentOn
<1>2. SumFunctionOnSet(Refund', RefundsTo(row)) = RefundedTo(row)
  BY LedgerTypes, SumAgree DEF RefundedTo
<1>3. SpentOn(row)' = SpentOn(row) /\ RefundedTo(row)' = RefundedTo(row)
  BY <1>1, <1>2 DEF SpentOn, RefundedTo
<1>4. Expected(row)' = Expected(row)
  BY <1>3 DEF Expected
<1>5. HalfTickOrders(row)' = HalfTickOrders(row)
  BY DEF HalfTickOrders
<1>6. QED
  BY <1>4, <1>5 DEF LedgerInv, RowInv

(* What stays of the orders and refunds there are.                         *)
LEMMA LedgerFrame ==
  ASSUME IInv, LedgerInv, [Next]_vars
  PROVE  /\ \A p \in Placed : /\ p \in Placed' /\ req'[p] = req[p]
                              /\ Row(p)' = Row(p) /\ Cost'[p] = Cost[p]
         /\ \A c \in refunded : /\ c \in refunded' /\ ask'[c] = ask[c]
                                /\ CreditRow(c)' = CreditRow(c) /\ Refund'[c] = Refund[c]
<1>1. \A p \in Placed : p \in Placed' /\ req'[p] = req[p]
  BY PlacedGrows DEF IInv
<1>2. \A c \in refunded : c \in refunded' /\ ask'[c] = ask[c]
  BY RefundsStay DEF IInv
<1>3. \A p \in Placed : Row(p)' = Row(p) /\ StoredQty(p)' = StoredQty(p)
  BY <1>1 DEF Row, StoredQty
<1>4. \A p \in Placed : Cost'[p] = Cost[p]
  BY <1>1, <1>3 DEF Cost
<1>5. ASSUME NEW c \in refunded
      PROVE  CreditRow(c)' = CreditRow(c) /\ Refund'[c] = Refund[c]
  <2>1. ask[c].order \in Placed /\ ask'[c] = ask[c]
    BY <1>2 DEF LedgerInv
  <2>2. req'[ask[c].order] = req[ask[c].order]
    BY <1>1, <2>1
  <2>3. CreditRow(c)' = CreditRow(c)
    BY <2>1, <2>2 DEF CreditRow
  <2>4. Refund'[c] = Refund[c]
    BY <1>2, <2>1, <2>2 DEF Refund, StoredQty
  <2>5. QED
    BY <2>3, <2>4
<1>6. QED
  BY <1>1, <1>2, <1>3, <1>4, <1>5

(* Everything but the two commits.                                         *)
LEMMA LedgerUntouched ==
  ASSUME IInv, LedgerInv, [Next]_vars, UNCHANGED <<balances, refunded>>, Placed' = Placed
  PROVE  LedgerInv'
<1>1. ASSUME NEW row \in Rows PROVE RowInv(row)'
  <2>1. OrdersOn(row)' = OrdersOn(row) /\ RefundsTo(row)' = RefundsTo(row)
    BY LedgerFrame DEF OrdersOn, RefundsTo
  <2>2. QED
    BY <2>1, LedgerFrame, LedgerTypes, RowKept
<1>2. \A c \in refunded : ask'[c].order \in Placed
  BY LedgerFrame DEF LedgerInv
<1>3. QED
  BY <1>1, <1>2 DEF LedgerInv

LEMMA LedgerCommit ==
  ASSUME IInv, LedgerInv, [Next]_vars, NEW p \in Places, Commit(p)
  PROVE  LedgerInv'
<1>0. PICK at \in Rows : at = Row(p)
  BY RowType DEF IInv, PlaceInv, Commit, HoldsRow
<1> DEFINE half == IF (2 * req[p].qty) % (2 * Tick) = Tick THEN Tick ELSE 0
<1>1. /\ pc[p] = "commit" /\ balances' = [balances EXCEPT ![at] = avail[p]]
      /\ UNCHANGED <<req, ask, refunded>>
  BY <1>0 DEF Commit, Apply, cancelVars
<1>2. /\ TypeOK /\ p \notin Placed /\ req[p].qty \in Int
      /\ balances[at] # NoRow /\ avail[p] = Numeric(balances[at] - req[p].qty)
      /\ StoredQty(p) \in Int /\ avail[p] \in Nat /\ balances[at] \in Int
  <2>1. TypeOK /\ Accepted(p) /\ p \notin Placed
    BY <1>1 DEF IInv, PlaceInv, HoldsRow
  <2>2. req[p].qty \in Int /\ StoredQty(p) \in Int
    BY <2>1, RowType, StoredQtyNat
  <2>3. balances[at] # NoRow /\ avail[p] = Numeric(balances[at] - req[p].qty) /\ avail[p] \in Nat
    BY <1>1, <1>0 DEF IInv, NoLostUpdate, BalanceInv, HoldsRow
  <2>4. balances[at] \in Int
    BY <2>1, <2>3 DEF TypeOK
  <2>5. QED
    BY <2>1, <2>2, <2>3, <2>4
<1>3. Placed' = Placed \cup {p}
  BY <1>2, CommitPlaces
<1>4. /\ Whole(avail[p]) /\ avail[p] = balances[at] - StoredQty(p) + half
  <2>1. PICK k \in Int : balances[at] = k * Tick
    BY <1>2 DEF LedgerInv, RowInv, Whole
  <2>2. /\ \E j \in Int : Numeric(k * Tick - req[p].qty) = j * Tick
        /\ Numeric(k * Tick - req[p].qty) = k * Tick - Numeric(req[p].qty) + half
    BY <1>2, Rounding
  <2> HIDE DEF half
  <2>3. QED
    BY <1>2, <2>1, <2>2 DEF Whole, StoredQty
<1>5. half \in {0, Tick} /\ (half = Tick <=> (2 * req[p].qty) % (2 * Tick) = Tick)
  BY ConstantsAssumption
<1>6. \A q \in Placed' : q \in Placed \/ q = p
  BY <1>3
<1> HIDE DEF half
<1>7. \A row \in Rows : RefundsTo(row)' = RefundsTo(row)
  BY <1>1, LedgerFrame DEF RefundsTo
<1>8. \A row \in Rows : OrdersOn(row)' = IF row = at THEN OrdersOn(row) \cup {p} ELSE OrdersOn(row)
  BY <1>1, <1>3, <1>0, LedgerFrame DEF OrdersOn, Row
<1>9. ASSUME NEW row \in Rows, row # at PROVE RowInv(row)'
  <2>1. OrdersOn(row)' = OrdersOn(row) /\ balances'[row] = balances[row]
    BY <1>1, <1>2, <1>8, <1>9 DEF TypeOK
  <2>2. QED
    BY <1>7, <2>1, LedgerFrame, LedgerTypes, RowKept
<1>10. RowInv(at)'
  <2>1. /\ IsFiniteSet(OrdersOn(at)) /\ p \notin OrdersOn(at) /\ OrdersOn(at) \subseteq Placed
        /\ \A q \in OrdersOn(at) : Cost'[q] = Cost[q] /\ Cost[q] \in Int
        /\ Cost'[p] = StoredQty(p)
    <3>1. Cost'[p] = StoredQty(p)
      BY <1>1, <1>3 DEF Cost, StoredQty
    <3>2. QED
      BY <1>2, <3>1, LedgerTypes, LedgerFrame
  <2>2. SumFunctionOnSet(Cost', OrdersOn(at)) = SpentOn(at)
    BY <2>1, SumAgree DEF SpentOn
  <2>3. SumFunctionOnSet(Cost', OrdersOn(at) \cup {p}) = SumFunctionOnSet(Cost', OrdersOn(at)) + Cost'[p]
    BY <1>2, <2>1, SumAdd
  <2>4. SpentOn(at)' = SpentOn(at) + StoredQty(p)
    BY <1>2, <1>8, <2>1, <2>2, <2>3 DEF SpentOn
  <2>5. RefundedTo(at)' = RefundedTo(at)
    <3>1. SumFunctionOnSet(Refund', RefundsTo(at)) = RefundedTo(at)
      BY <1>2, LedgerTypes, LedgerFrame, SumAgree DEF RefundedTo
    <3>2. QED
      BY <1>2, <1>7, <3>1 DEF RefundedTo
  <2>6. Expected(at)' = Expected(at) - StoredQty(p)
    <3>1. Expected(at)' = Opening(at) - SpentOn(at)' + RefundedTo(at)'
      BY DEF Expected, Opening
    <3>2. QED
      BY <1>2, <2>4, <2>5, <3>1, LedgerTypes
  <2>7. balances'[at] = avail[p] /\ balances'[at] # NoRow
    BY <1>1, <1>2, ConstantsAssumption DEF TypeOK
  <2>8. Expected(at) \in Int
    BY <1>2, LedgerTypes
  <2>9. balances'[at] - Expected(at)' = (balances[at] - Expected(at)) + half
    BY <1>2, <1>4, <1>5, <2>6, <2>7, <2>8, ConstantsAssumption
  <2>10. HalfTickOrders(at)' = IF half = Tick THEN HalfTickOrders(at) \cup {p} ELSE HalfTickOrders(at)
    <3>1. \A q \in OrdersOn(at)' : req'[q] = req[q]
      BY <1>1
    <3>2. OrdersOn(at)' = OrdersOn(at) \cup {p}
      BY <1>2, <1>8
    <3>3. QED
      BY <1>5, <3>1, <3>2 DEF HalfTickOrders
  <2> DEFINE n == Cardinality(HalfTickOrders(at))
             e == balances[at] - Expected(at)
  <2>11. n \in Nat /\ e \in 0 .. (Tick * n) /\ e \in Int
    BY <1>2, <2>8, LedgerTypes DEF LedgerInv, RowInv
  <2>12. CASE half = Tick
    <3>1. p \notin HalfTickOrders(at)
      BY <2>1 DEF HalfTickOrders
    <3>2. Cardinality(HalfTickOrders(at)') = n + 1
      BY <1>2, <2>10, <2>12, <3>1, LedgerTypes, FS_AddElement
    <3> HIDE DEF n, e
    <3>3. Tick * (n + 1) = Tick * n + Tick /\ Tick * n \in Nat
      BY <2>11, ConstantsAssumption
    <3>4. e + Tick \in 0 .. (Tick * (n + 1))
      BY <2>11, <3>3, ConstantsAssumption
    <3>5. QED
      BY <1>4, <2>7, <2>9, <2>12, <3>2, <3>4 DEF RowInv, e
  <2>13. CASE half = 0
    BY <1>4, <1>5, <2>7, <2>9, <2>10, <2>11, <2>13, ConstantsAssumption DEF RowInv
  <2>14. QED
    BY <1>5, <2>12, <2>13
<1>11. IsFiniteSet(Placed')
  BY <1>3, FS_AddElement DEF LedgerInv
<1>12. \A c \in refunded' : ask'[c].order \in Placed'
  BY <1>1, <1>3 DEF LedgerInv
<1>13. QED
  BY <1>1, <1>9, <1>10, <1>11, <1>12 DEF LedgerInv

LEMMA LedgerCredit ==
  ASSUME IInv, LedgerInv, [Next]_vars, NEW c \in Cancels, cpc[c] = "creditCommit", Credit(c),
         UNCHANGED <<ask, placeVars>>
  PROVE  LedgerInv'
<1>1. PICK at \in Rows : at = CreditRow(c)
  BY CreditRowType DEF IInv
<1> DEFINE q == StoredQty(ask[c].order)
           old == IF balances[at] = NoRow THEN 0 ELSE balances[at]
<1>2. /\ balances' = [balances EXCEPT ![at] = old + q] /\ refunded' = refunded \cup {c}
      /\ UNCHANGED <<req, ask>> /\ Placed' = Placed
  BY <1>1 DEF Credit, placeVars, Placed
<1>3. TypeOK /\ c \notin refunded /\ ask[c].order \in Placed /\ q \in Int
  BY CreditRowType DEF IInv, CancelInv
<1>4. Whole(q) /\ old \in Int
  <2>1. req[ask[c].order].qty \in Int
    BY <1>3, LedgerTypes
  <2>2. old \in Int
    BY <1>3 DEF TypeOK
  <2>3. QED
    BY <2>1, <2>2, NumericWhole DEF StoredQty
<1>5. Refund'[c] = q
  BY <1>2 DEF Refund, StoredQty
<1>6. balances'[at] = old + q /\ balances'[at] # NoRow /\ old + q \in Int
  BY <1>2, <1>3, <1>4, ConstantsAssumption DEF TypeOK
<1> HIDE DEF q
<1>7. \A row \in Rows : OrdersOn(row)' = OrdersOn(row) /\ HalfTickOrders(row)' = HalfTickOrders(row)
  BY <1>2 DEF OrdersOn, HalfTickOrders, Row
<1>8. \A row \in Rows : RefundsTo(row)' = IF row = at THEN RefundsTo(row) \cup {c} ELSE RefundsTo(row)
  BY <1>1, <1>2 DEF RefundsTo, CreditRow
<1>9. ASSUME NEW row \in Rows, row # at PROVE RowInv(row)'
  <2>1. RefundsTo(row)' = RefundsTo(row) /\ balances'[row] = balances[row]
    BY <1>2, <1>3, <1>8, <1>9 DEF TypeOK
  <2>2. QED
    BY <1>7, <2>1, LedgerFrame, LedgerTypes, RowKept
<1>10. Expected(at)' = Expected(at) + q
  <2>1. /\ IsFiniteSet(RefundsTo(at)) /\ c \notin RefundsTo(at)
        /\ \A d \in RefundsTo(at) : Refund'[d] = Refund[d] /\ Refund[d] \in Int
    BY <1>3, LedgerTypes, LedgerFrame
  <2>2. SumFunctionOnSet(Refund', RefundsTo(at)) = RefundedTo(at)
    BY <2>1, SumAgree DEF RefundedTo
  <2>3. SumFunctionOnSet(Refund', RefundsTo(at) \cup {c}) = SumFunctionOnSet(Refund', RefundsTo(at)) + Refund'[c]
    BY <1>3, <1>5, <2>1, SumAdd
  <2>4. RefundedTo(at)' = RefundedTo(at) + q
    BY <1>5, <1>8, <2>2, <2>3 DEF RefundedTo
  <2>5. SpentOn(at)' = SpentOn(at)
    <3>1. SumFunctionOnSet(Cost', OrdersOn(at)) = SpentOn(at)
      BY LedgerTypes, LedgerFrame, SumAgree DEF SpentOn
    <3>2. QED
      BY <1>7, <3>1 DEF SpentOn
  <2>6. Expected(at)' = Opening(at) - SpentOn(at)' + RefundedTo(at)'
    BY DEF Expected, Opening
  <2>7. QED
    BY <1>3, <2>4, <2>5, <2>6, LedgerTypes
<1>11. Expected(at) \in Int
  BY LedgerTypes
<1>12. RowInv(at)'
  <2>1. CASE balances[at] = NoRow
    <3>1. InitialBalances[at] = NoRow /\ OrdersOn(at) = {} /\ RefundsTo(at) = {}
      BY <2>1 DEF LedgerInv, RowInv
    <3>2. Expected(at) = 0
      BY <3>1, SumEmpty DEF Expected, SpentOn, RefundedTo
    <3>3. balances'[at] - Expected(at)' = 0 /\ balances'[at] = q
      BY <1>3, <1>6, <1>10, <2>1, <3>2
    <3>4. Tick * Cardinality(HalfTickOrders(at)) \in Nat
      BY LedgerTypes, ConstantsAssumption
    <3>5. 0 \in 0 .. (Tick * Cardinality(HalfTickOrders(at)))
      BY <3>4
    <3>6. QED
      BY <1>4, <1>6, <1>7, <3>3, <3>5 DEF RowInv
  <2>2. CASE balances[at] # NoRow
    <3>1. Whole(balances[at]) /\ balances'[at] = balances[at] + q /\ balances[at] \in Int
      BY <1>3, <1>6, <2>2 DEF LedgerInv, RowInv, TypeOK
    <3>2. Whole(balances'[at])
      <4>1. PICK j, k \in Int : balances[at] = j * Tick /\ q = k * Tick
        BY <1>4, <3>1 DEF Whole
      <4>2. balances'[at] = (j + k) * Tick /\ j + k \in Int
        BY <3>1, <4>1, ConstantsAssumption
      <4>3. QED
        BY <4>2 DEF Whole
    <3>3. balances'[at] - Expected(at)' = balances[at] - Expected(at)
      BY <1>3, <1>10, <1>11, <3>1
    <3>4. QED
      BY <1>6, <1>7, <2>2, <3>2, <3>3 DEF LedgerInv, RowInv
  <2>3. QED
    BY <2>1, <2>2
<1>13. IsFiniteSet(refunded')
  BY <1>2, FS_AddElement DEF LedgerInv
<1>14. \A d \in refunded' : ask'[d].order \in Placed'
  BY <1>2, <1>3 DEF LedgerInv
<1>15. QED
  BY <1>2, <1>9, <1>12, <1>13, <1>14 DEF LedgerInv

LEMMA InitLedgerInv == Init => LedgerInv
<1> SUFFICES ASSUME Init PROVE LedgerInv
  OBVIOUS
<1>1. Placed = {} /\ refunded = {} /\ balances = InitialBalances
  BY DEF Init, Placed
<1>2. IsFiniteSet(Placed) /\ IsFiniteSet(refunded)
  BY <1>1, FS_EmptySet
<1>3. ASSUME NEW row \in Rows PROVE RowInv(row)
  <2>1. OrdersOn(row) = {} /\ RefundsTo(row) = {} /\ HalfTickOrders(row) = {}
    BY <1>1 DEF OrdersOn, RefundsTo, HalfTickOrders
  <2>2. Expected(row) = Opening(row)
    BY <2>1, SumEmpty, ConstantsAssumption DEF Expected, SpentOn, RefundedTo, Opening
  <2>3. CASE InitialBalances[row] # NoRow
    <3>1. InitialBalances[row] \in Nat /\ InitialBalances[row] % Tick = 0 /\ Tick \in Nat \ {0}
      BY <2>3, ConstantsAssumption
    <3>2. PICK n \in Int : n = InitialBalances[row]
      BY <3>1
    <3>3. PICK k, r \in Int : n = k * Tick + r /\ 0 <= r /\ r < Tick
      BY <3>1, Parts
    <3>4. InitialBalances[row] = k * Tick /\ k \in Int
      <4>1. n % Tick = r
        BY <3>1, <3>3, Division
      <4>2. r = 0 /\ k * Tick \in Int
        BY <3>1, <3>2, <4>1
      <4>3. QED
        BY <3>2, <3>3, <4>2
    <3>5. Cardinality(HalfTickOrders(row)) = 0 /\ 0 \in 0 .. (Tick * 0)
      BY <2>1, <3>1, FS_EmptySet
    <3>6. balances[row] - Expected(row) = 0
      BY <1>1, <2>2, <2>3, <3>1 DEF Opening
    <3>7. QED
      BY <1>1, <2>3, <3>4, <3>5, <3>6 DEF RowInv, Whole
  <2>4. QED
    BY <1>1, <2>1, <2>3 DEF RowInv
<1>4. QED
  BY <1>1, <1>2, <1>3 DEF LedgerInv

LEMMA StepLedgerInv == IInv /\ LedgerInv /\ [Next]_vars => LedgerInv'
<1> SUFFICES ASSUME IInv, LedgerInv, [Next]_vars PROVE LedgerInv'
  OBVIOUS
<1>1. ASSUME NEW p \in Places, PlaceCall(p) PROVE LedgerInv'
  <2>1. CASE Commit(p)
    BY <2>1, LedgerCommit
  <2>2. CASE ~Commit(p)
    <3>1. UNCHANGED <<balances, status, refunded>>
      BY <1>1, <2>2, OnlyCommitWrites, PlaceFrame DEF dbVars, cancelVars, IInv
    <3>2. QED
      BY <3>1, LedgerUntouched DEF Placed
  <2>3. QED
    BY <2>1, <2>2
<1>2. ASSUME NEW c \in Cancels, CancelCall(c) PROVE LedgerInv'
  <2>1. Placed' = Placed
    BY <1>2, CancelFrame DEF IInv
  <2>2. \/ UNCHANGED <<balances, refunded>>
        \/ cpc[c] = "creditCommit" /\ Credit(c) /\ UNCHANGED <<ask, placeVars>>
    BY <1>2 DEF CancelCall, CancelStep, CancelOrder, ReadOrder, BeginRefund, CreditBalanceTx,
       CommitRefund, UpdateStatus, CancelFault, dbVars
  <2>3. QED
    BY <2>1, <2>2, LedgerUntouched, LedgerCredit
<1>3. CASE Crash
  BY <1>3, LedgerUntouched DEF Crash, dbVars, Placed
<1>4. CASE UNCHANGED vars
  BY <1>4, LedgerUntouched DEF vars, cancelVars, dbVars, Placed
<1>5. QED
  BY <1>1, <1>2, <1>3, <1>4, NextCases

(* No deduction and no refund is lost, and none is counted twice: every    *)
(* balance is what the committed orders and refunds make it, to the half   *)
(* ticks of its orders (service.go:132-135, repository.go:130-200).        *)
THEOREM LedgerKept == Spec => []LedgerBalanced
<1>1. IInv /\ LedgerInv => LedgerBalanced
  BY DEF LedgerInv, RowInv, LedgerBalanced
<1>2. Spec => []LedgerInv
  BY Invariance, InitLedgerInv, StepLedgerInv, PTL DEF Spec
<1>3. QED
  BY <1>1, <1>2, Invariance, PTL
-------------------------------------------------------------------------------
(* The service implements OrderPromise.                                    *)

(* A call that has not arrived has no request, one that has returned has a *)
(* reply, and only an order comes with an answer.                          *)
FreshInv ==
  \A p \in Places :
    /\ pc[p] = "idle" => req[p] = NoRequest
    /\ pc[p] = "done" => reply[p] # "none"
    /\ reply[p] # "order" => answer[p] = NoOrder

LEMMA InitFreshInv == Init => FreshInv
BY DEF Init, FreshInv

LEMMA StepFreshInv == IInv /\ FreshInv /\ [Next]_vars => FreshInv'
<1> SUFFICES ASSUME IInv, FreshInv, [Next]_vars PROVE FreshInv'
  OBVIOUS
<1>1. TypeOK /\ PlaceInv /\ CancelInv
  BY DEF IInv
<1>2. ASSUME NEW p \in Places, PlaceCall(p) PROVE FreshInv'
  <2>1. /\ pc'[p] # "idle"
        /\ pc'[p] = "done" => reply'[p] # "none"
        /\ reply'[p] # "order" => answer'[p] = NoOrder
    <3>1. pc[p] # "done" => reply[p] = "none" /\ answer[p] = NoOrder
      BY <1>1 DEF PlaceInv, FreshInv
    <3>2. \/ /\ pc[p] # "done"
             /\ \E s \in PlaceStates \ {"idle", "done"} : pc' = [pc EXCEPT ![p] = s]
             /\ UNCHANGED <<reply, answer>>
          \/ /\ pc' = [pc EXCEPT ![p] = "done"]
             /\ \E r \in PlaceReplies \ {"none"}, o \in Places \cup {NoOrder} :
                  /\ reply' = [reply EXCEPT ![p] = r]
                  /\ answer' = [answer EXCEPT ![p] = o]
                  /\ r # "order" => o = NoOrder
      BY <1>2 DEF PlaceCall, PlaceStep, PlaceOrder, CheckIdempotency, BeginTx, DeductBalanceTx,
         CreateWithTx, InsertOutboxWithTx, Commit, ReplyPlaced, PlaceFault, Goto, Return,
         PlaceStates, PlaceReplies, OrdersWithKey, Placed
    <3>3. QED
      BY <1>1, <3>1, <3>2 DEF TypeOK
  <2>2. ASSUME NEW q \in Places \ {p}
        PROVE  /\ pc'[q] = "idle" => req'[q] = NoRequest
               /\ pc'[q] = "done" => reply'[q] # "none"
               /\ reply'[q] # "order" => answer'[q] = NoOrder
    BY <1>1, <1>2, PlaceFrame DEF FreshInv
  <2>3. QED
    BY <2>1, <2>2 DEF FreshInv
<1>3. ASSUME NEW c \in Cancels, CancelCall(c) PROVE FreshInv'
  BY <1>1, <1>3, CancelFrame DEF FreshInv, placeVars
<1>4. CASE Crash
  BY <1>1, <1>4 DEF Crash, FreshInv, TypeOK, PlaceInv
<1>5. CASE UNCHANGED vars
  BY <1>5 DEF vars, placeVars, FreshInv
<1>6. QED
  BY <1>2, <1>3, <1>4, <1>5, NextCases

(* The variables of the promise.                                           *)
Outcomes  == [p \in Places |-> Outcome(reply[p])]
Cancelled == {p \in Placed : status[p] = "CANCELLED"}

Keeps == Promise!PNext \/ UNCHANGED <<req, Outcomes, answer, Placed, Cancelled>>

LEMMA Returned ==
  ASSUME TypeOK, NEW p \in Places, NEW r \in PlaceReplies, reply' = [reply EXCEPT ![p] = r]
  PROVE  Outcomes' = [Outcomes EXCEPT ![p] = Outcome(r)]
<1>1. \A q \in Places : reply'[q] = IF q = p THEN r ELSE reply[q]
  BY DEF TypeOK
<1>2. \A q \in Places : Outcome(reply'[q]) = IF q = p THEN Outcome(r) ELSE Outcome(reply[q])
  BY <1>1
<1>3. Outcomes' = [q \in Places |-> Outcome(reply'[q])]
  BY DEF Outcomes, Outcome
<1>4. Outcomes' = [q \in Places |-> IF q = p THEN Outcome(r) ELSE Outcome(reply[q])]
  BY <1>2, <1>3
<1>5. QED
  BY <1>4 DEF Outcomes

(* A call that answers nothing and touches no order is not seen.           *)
LEMMA Unseen ==
  ASSUME UNCHANGED <<req, reply, answer, status>>
  PROVE  Keeps
BY DEF Keeps, Outcomes, Cancelled, Placed

(* What the promise knows of a call in progress.                           *)
LEMMA InProgress ==
  ASSUME IInv, FreshInv, NEW p \in Places, pc[p] # "done"
  PROVE  /\ Outcomes[p] = "none"
         /\ answer[p] = NoOrder
         /\ pc[p] # "idle" => req[p] # NoRequest
BY ConstantsAssumption DEF IInv, PlaceInv, FreshInv, Outcomes, Outcome

(* A call arrives.                                                         *)
LEMMA PlaceOrderAsks ==
  ASSUME IInv, FreshInv, NEW p \in Places, PlaceOrder(p)
  PROVE  Keeps
<1>1. PICK r \in Requests :
        /\ req' = [req EXCEPT ![p] = r]
        /\ \/ Return(p, "invalid_argument", NoOrder)
           \/ Return(p, "invalid_quantity", NoOrder)
           \/ Goto(p, "lookup")
  BY DEF PlaceOrder
<1>2. req[p] = NoRequest /\ answer[p] = NoOrder /\ TypeOK
  BY InProgress DEF FreshInv, PlaceOrder, IInv
<1>3. answer' = answer
  BY <1>1, <1>2 DEF Return, Goto, TypeOK
<1>4. Outcomes' \in {Outcomes, [Outcomes EXCEPT ![p] = "refused"]}
  <2>1. CASE Goto(p, "lookup")
    BY <2>1 DEF Goto, Outcomes
  <2>2. ASSUME NEW e \in {"invalid_argument", "invalid_quantity"}, Return(p, e, NoOrder)
        PROVE  Outcomes' = [Outcomes EXCEPT ![p] = "refused"]
    <3>1. e \in PlaceReplies /\ Outcome(e) = "refused"
      BY DEF PlaceReplies, Outcome
    <3>2. QED
      BY <1>2, <2>2, <3>1, Returned DEF Return
  <2>3. QED
    BY <1>1, <2>1, <2>2
<1>5. UNCHANGED <<Placed, Cancelled>>
  BY DEF PlaceOrder, dbVars, Placed, Cancelled
<1>6. Promise!Ask(p, r)
  BY <1>1, <1>2, <1>3, <1>4, <1>5 DEF Promise!Ask, Outcomes, Cancelled
<1>7. QED
  BY <1>1, <1>6 DEF Promise!PNext, Keeps

(* A call in progress is refused, and has placed nothing.                  *)
LEMMA Refused ==
  ASSUME IInv, FreshInv, NEW p \in Places, pc[p] \notin {"idle", "reply", "done"},
         NEW r \in PlaceReplies \ {"none", "order", "error", "lost"},
         Return(p, r, NoOrder), UNCHANGED <<req, status>>
  PROVE  Keeps
<1>1. Outcome(r) = "refused" /\ TypeOK
  BY DEF Outcome, IInv
<1>2. Outcomes' = [Outcomes EXCEPT ![p] = "refused"]
  BY <1>1, Returned DEF Return
<1>3. answer' = answer
  BY <1>1, InProgress DEF Return, TypeOK
<1>4. p \notin Placed
  BY DEF IInv, PlaceInv
<1>5. UNCHANGED <<Placed, Cancelled>>
  BY DEF Placed, Cancelled
<1>6. Promise!Refuse(p)
  BY <1>2, <1>3, <1>4, <1>5, InProgress DEF Promise!Refuse, Promise!Running, Outcomes, Cancelled
<1>7. QED
  BY <1>6 DEF Promise!PNext, Keeps

(* A call in progress returns the order with its key.                      *)
LEMMA OrderReturned ==
  ASSUME IInv, FreshInv, NEW p \in Places, pc[p] \notin {"idle", "done"},
         NEW o \in OrdersWithKey(req[p].key),
         Return(p, "order", o), UNCHANGED <<req, status>>
  PROVE  Keeps
<1>1. Outcome("order") = "order" /\ "order" \in PlaceReplies /\ TypeOK
  BY DEF Outcome, PlaceReplies, IInv
<1>2. Outcomes' = [Outcomes EXCEPT ![p] = "order"]
  BY <1>1, Returned DEF Return
<1>3. answer' = [answer EXCEPT ![p] = o] /\ o \in Promise!SameKey(p)
  BY DEF Return, Promise!SameKey, OrdersWithKey
<1>4. UNCHANGED <<Placed, Cancelled>>
  BY DEF Placed, Cancelled
<1>5. Promise!ReturnOrder(p)
  BY <1>2, <1>3, <1>4, InProgress DEF Promise!ReturnOrder, Promise!Running, Outcomes, Cancelled
<1>6. QED
  BY <1>5 DEF Promise!PNext, Keeps

(* COMMIT is where the order comes to exist.                               *)
LEMMA CommitPlacesOrder ==
  ASSUME IInv, FreshInv, NEW p \in Places, Commit(p)
  PROVE  Keeps
<1>1. /\ TypeOK /\ pc[p] = "commit"
      /\ status' = [status EXCEPT ![p] = "PENDING"]
      /\ UNCHANGED <<req, reply, answer>>
  BY DEF Commit, Goto, Apply, IInv
<1>2. p \notin Placed
  BY <1>1 DEF IInv, PlaceInv
<1>3. Placed' = Placed \cup {p} /\ Cancelled' = Cancelled
  BY <1>1, <1>2 DEF Placed, Cancelled, TypeOK
<1>4. Promise!SameKey(p) = {}
  BY <1>1 DEF Promise!SameKey, IInv, KeyLock, HoldsKey
<1>5. Outcomes' = Outcomes
  BY <1>1 DEF Outcomes
<1>6. Promise!Place(p)
  BY <1>1, <1>3, <1>4, <1>5, InProgress DEF Promise!Place, Promise!Running, Outcomes, Cancelled
<1>7. QED
  BY <1>6 DEF Promise!PNext, Keeps

(* Calls that end without the caller learning how.                         *)
LEMMA Failed ==
  ASSUME IInv, FreshInv, NEW C \in SUBSET Places,
         \A p \in C : pc[p] \notin {"idle", "done"},
         Outcomes' = [p \in Places |-> IF p \in C THEN "unknown" ELSE Outcomes[p]],
         UNCHANGED <<req, answer, status>>
  PROVE  Keeps
<1>1. UNCHANGED <<Placed, Cancelled>>
  BY DEF Placed, Cancelled
<1>2. Promise!Fail(C)
  BY <1>1, InProgress DEF Promise!Fail, Promise!Running, Outcomes, Cancelled
<1>3. QED
  BY <1>2 DEF Promise!PNext, Keeps

LEMMA FaultFails ==
  ASSUME IInv, FreshInv, NEW p \in Places, PlaceFault(p)
  PROVE  Keeps
<1>1. /\ pc[p] \notin {"idle", "done"} /\ TypeOK
      /\ Return(p, "error", NoOrder) /\ UNCHANGED <<req, status>>
  BY DEF PlaceFault, dbVars, IInv
<1>2. "error" \in PlaceReplies /\ Outcome("error") = "unknown"
  BY DEF PlaceReplies, Outcome
<1>3. Outcomes' = [Outcomes EXCEPT ![p] = "unknown"]
  BY <1>1, <1>2, Returned DEF Return
<1>4. Outcomes' = [q \in Places |-> IF q \in {p} THEN "unknown" ELSE Outcomes[q]]
  BY <1>3 DEF Outcomes
<1>5. answer' = answer
  BY <1>1, InProgress DEF Return, TypeOK
<1>6. QED
  BY <1>1, <1>4, <1>5, Failed

LEMMA CrashFails ==
  ASSUME IInv, FreshInv, Crash
  PROVE  Keeps
<1> DEFINE C == {p \in Places : pc[p] \notin {"idle", "done"}}
<1>1. \A p \in Places : reply'[p] = IF p \in C THEN "lost" ELSE reply[p]
  BY DEF Crash
<1>2. Outcome("lost") = "unknown"
  BY DEF Outcome
<1>3. Outcomes' = [p \in Places |-> IF p \in C THEN "unknown" ELSE Outcomes[p]]
  <2> HIDE DEF Outcome
  <2>1. \A p \in Places : Outcome(reply'[p]) = IF p \in C THEN "unknown" ELSE Outcome(reply[p])
    BY <1>1, <1>2
  <2> HIDE DEF C
  <2>2. QED
    BY <2>1 DEF Outcomes
<1>4. UNCHANGED <<req, answer, status>>
  BY DEF Crash, dbVars
<1>5. C \in SUBSET Places /\ \A p \in C : pc[p] \notin {"idle", "done"}
  OBVIOUS
<1> HIDE DEF C
<1>6. QED
  BY <1>3, <1>4, <1>5, Failed

(* Of a CancelOrder call the promise sees only the order's cancellation.   *)
LEMMA CancelKeeps ==
  ASSUME IInv, FreshInv, NEW c \in Cancels, CancelCall(c)
  PROVE  Keeps
<1>1. TypeOK /\ PlaceInv /\ CancelInv
  BY DEF IInv
<1>2. Placed' = Placed /\ UNCHANGED placeVars
  BY <1>1, CancelFrame
<1>3. Outcomes' = Outcomes
  BY <1>2 DEF Outcomes, placeVars
<1>4. CASE status' = status
  BY <1>2, <1>4, Unseen DEF placeVars
<1>5. CASE cpc[c] = "update" /\ status' = [status EXCEPT ![ask[c].order] = "CANCELLED"]
  <2>1. PICK o \in Places : o = ask[c].order /\ o \in Placed
    BY <1>1, <1>5, CreditRowType DEF Placed
  <2>2. Cancelled' = Cancelled \cup {o}
    BY <1>1, <1>2, <1>5, <2>1 DEF Cancelled, TypeOK
  <2>3. CASE o \in Cancelled
    BY <1>2, <1>3, <2>2, <2>3 DEF Keeps, placeVars
  <2>4. CASE o \notin Cancelled
    <3>1. Promise!Cancel(o)
      BY <1>2, <1>3, <2>1, <2>2, <2>4 DEF Promise!Cancel, Outcomes, Cancelled, placeVars
    <3>2. QED
      BY <2>1, <3>1 DEF Promise!PNext, Keeps
  <2>5. QED
    BY <2>3, <2>4
<1>6. QED
  BY <1>1, <1>4, <1>5, CancelWritesStatus

(* A statement of PlaceOrder between the lookup and the reply.             *)
LEMMA StatementKeeps ==
  ASSUME IInv, FreshInv, NEW p \in Places, PlaceStep(p)
  PROVE  Keeps
<1>1. CASE CheckIdempotency(p)
  <2>1. pc[p] = "lookup" /\ UNCHANGED <<req, status>>
    BY <1>1 DEF CheckIdempotency, dbVars
  <2>2. CASE Goto(p, "begin")
    BY <2>1, <2>2, Unseen DEF Goto
  <2>3. CASE Return(p, "invalid_symbol", NoOrder)
    BY <2>1, <2>3, Refused DEF PlaceReplies
  <2>4. ASSUME NEW o \in OrdersWithKey(req[p].key), Return(p, "order", o) PROVE Keeps
    BY <2>1, <2>4, OrderReturned
  <2>5. QED
    BY <1>1, <2>2, <2>3, <2>4 DEF CheckIdempotency
<1>2. CASE BeginTx(p) \/ InsertOutboxWithTx(p)
  BY <1>2, Unseen DEF BeginTx, InsertOutboxWithTx, Goto, dbVars
<1>3. CASE DeductBalanceTx(p)
  <2>1. pc[p] = "deduct" /\ UNCHANGED <<req, status>>
    BY <1>3 DEF DeductBalanceTx, dbVars
  <2>2. CASE Goto(p, "insertOrder")
    BY <2>1, <2>2, Unseen DEF Goto
  <2>3. CASE Return(p, "insufficient", NoOrder)
    BY <2>1, <2>3, Refused DEF PlaceReplies
  <2>4. QED
    BY <1>3, <2>2, <2>3 DEF DeductBalanceTx
<1>4. CASE CreateWithTx(p)
  <2>1. pc[p] = "insertOrder" /\ UNCHANGED <<req, status>>
    BY <1>4 DEF CreateWithTx, dbVars
  <2>2. CASE Goto(p, "insertOutbox")
    BY <2>1, <2>2, Unseen DEF Goto
  <2>3. CASE Return(p, "bad_price", NoOrder)
    BY <2>1, <2>3, Refused DEF PlaceReplies
  <2>4. CASE Return(p, "unique_violation", NoOrder)
    BY <2>1, <2>4, Refused DEF PlaceReplies
  <2>5. QED
    BY <1>4, <2>2, <2>3, <2>4 DEF CreateWithTx
<1>5. CASE Commit(p)
  BY <1>5, CommitPlacesOrder
<1>6. CASE ReplyPlaced(p)
  <2>1. pc[p] = "reply" /\ Return(p, "order", p) /\ UNCHANGED <<req, status>>
    BY <1>6 DEF ReplyPlaced, dbVars
  <2>2. p \in OrdersWithKey(req[p].key)
    BY <2>1 DEF IInv, PlaceInv, OrdersWithKey
  <2>3. QED
    BY <2>1, <2>2, OrderReturned
<1>7. QED
  BY <1>1, <1>2, <1>3, <1>4, <1>5, <1>6 DEF PlaceStep

LEMMA StepKeeps == IInv /\ FreshInv /\ [Next]_vars => Keeps
<1> SUFFICES ASSUME IInv, FreshInv, [Next]_vars PROVE Keeps
  OBVIOUS
<1>1. ASSUME NEW p \in Places, PlaceCall(p) PROVE Keeps
  BY <1>1, PlaceOrderAsks, StatementKeeps, FaultFails DEF PlaceCall
<1>2. CASE UNCHANGED vars
  BY <1>2, Unseen DEF vars, placeVars, dbVars
<1>3. QED
  BY <1>1, <1>2, CancelKeeps, CrashFails, NextCases

LEMMA InitKeeps == Init => Promise!PInit
<1> SUFFICES ASSUME Init PROVE Promise!PInit
  OBVIOUS
<1>1. Placed = {} /\ {p \in Placed : status[p] = "CANCELLED"} = {}
  BY DEF Init, Placed
<1>2. [p \in Places |-> Outcome(reply[p])] = [p \in Places |-> "none"]
  BY DEF Init, Outcome
<1>3. QED
  BY <1>1, <1>2 DEF Init, Promise!PInit

(* The order service implements OrderPromise: to its callers each order    *)
(* comes to exist in one step, under a key of its own and before anyone is *)
(* told of it, whatever statements, locks, failures and crashes it takes.  *)
THEOREM Refinement == Spec => KeepsPromise
<1>1. IInv /\ FreshInv /\ [Next]_vars => [Promise!PNext]_(Promise!promised)
  BY StepKeeps DEF Keeps, Outcomes, Cancelled, Promise!promised
<1>2. Spec => []FreshInv
  BY Invariance, InitFreshInv, StepFreshInv, PTL DEF Spec
<1>3. QED
  BY <1>1, <1>2, Invariance, InitKeeps, PTL DEF Spec, KeepsPromise, Promise!PSpec
================================================================================
