------------------------------ MODULE OrderService ------------------------------
(***************************************************************************)
(* The order service: concurrent PlaceOrder and CancelOrder calls (one     *)
(* goroutine per gRPC call) over one PostgreSQL database and one           *)
(* connection pool (internal/order/{handler,service,repository}.go).       *)
(*                                                                         *)
(* A step is one statement sent to the database, the grain at which the    *)
(* calls interleave.  The writes of an open transaction are invisible: a   *)
(* call keeps the new balance it computed in avail, and Commit applies     *)
(* the three writes at once.  Locks are not variables: who holds a balance *)
(* row or an uncommitted unique key follows from the calls' positions.     *)
(*                                                                         *)
(* An order is named by the PlaceOrder call that creates it; the columns   *)
(* of its row are those of that call's request.                            *)
(***************************************************************************)
EXTENDS Integers, FiniteSets

CONSTANTS
  Places,           \* PlaceOrder calls; a client's retry is a call of its own
  Cancels,          \* CancelOrder calls
  Users,            \* rows of the users table
  Nil,              \* uuid.Nil, for which ownership is not enforced
  Assets,           \* "USD", "BTC", ...
  NoAsset,          \* the empty half of a malformed symbol
  Keys,             \* idempotency keys; "" is a key like any other
  Requests,         \* the requests clients may send
  NoRequest,        \* a call that has not arrived
  NoOrder,          \* no order in an answer
  NoRow,            \* no row in balances for (user, asset)
  InitialBalances,  \* contents of balances when the service starts
  Tick,             \* 10^-8, the step of NUMERIC(20,8), in the requests' unit
  PoolSize,         \* poolConfig.MaxConns
  MaxFaults,        \* bound: statements that fail (connection, context, ...)
  MaxCrashes        \* bound: crashes of the process

Rows == Users \X Assets

(* A request.  wellFormed is what the handler says of its fields and of    *)
(* the user id in its metadata; the others are then what they say.  price  *)
(* is "" (absent), "text" (not a number) or "number"; the service never    *)
(* looks inside it.                                                        *)
Request ==
  [wellFormed : BOOLEAN, user : Users, key : Keys,
   symbol : [base : Assets \cup {NoAsset}, quote : Assets \cup {NoAsset}],
   side : {"BUY", "SELL"}, type : {"LIMIT", "MARKET"},
   price : {"", "text", "number"}, qty : Int]

ASSUME ConstantsAssumption ==
  /\ Nil \notin Users
  /\ NoAsset \notin Assets
  /\ NoOrder \notin Places
  /\ NoRow \notin Int
  /\ Requests \subseteq Request
  /\ NoRequest \notin Requests
  /\ InitialBalances \in [Rows -> Nat \cup {NoRow}]
  /\ Tick \in Nat \ {0}
  /\ \A row \in Rows : InitialBalances[row] # NoRow => InitialBalances[row] % Tick = 0
  /\ PoolSize \in Nat \ {0}
  /\ MaxFaults \in Nat
  /\ MaxCrashes \in Nat

VARIABLES
  req,       \* req[p]: the request of call p
  pc,        \* pc[p]: the statement call p executes next
  avail,     \* avail[p]: the balance written by p's open transaction
  reply,     \* reply[p]: what p returned
  answer,    \* answer[p]: the order p returned
  ask,       \* ask[c]: the caller and the order id of CancelOrder call c
  cpc,       \* cpc[c]: the statement call c executes next
  creply,    \* creply[c]: what c returned
  balances,  \* committed rows of balances (column available)
  status,    \* status[p]: committed column status of order p, "none" if no row
  outbox,    \* orders that have a committed outbox row
  refunded,  \* history: the CancelOrder calls whose refund was committed
  faults,    \* statements that have failed so far
  crashes    \* crashes so far

placeVars  == <<req, pc, avail, reply, answer>>
cancelVars == <<ask, cpc, creply, refunded>>
dbVars     == <<balances, status, outbox>>
envVars    == <<faults, crashes>>
vars       == <<placeVars, cancelVars, dbVars, envVars>>

PlaceStates  == {"idle", "lookup", "begin", "deduct", "insertOrder",
                 "insertOutbox", "commit", "reply", "done"}
CancelStates == {"idle", "read", "begin", "credit", "creditCommit",
                 "update", "done"}
Statuses     == {"none", "PENDING", "PARTIAL", "FILLED", "CANCELLED", "REJECTED"}
PlaceReplies == {"none", "order", "invalid_argument", "invalid_quantity",
                 "invalid_symbol", "insufficient", "bad_price", "unique_violation",
                 "error", "lost"}
CancelReplies == {"none", "cancelled", "not_found", "only_pending",
                  "refund_failed", "error", "lost"}
-------------------------------------------------------------------------------
(* splitSymbol and quoteAsset: a BUY is paid from the quote asset, a SELL  *)
(* from the base asset; either way the amount is the quantity.             *)
QuoteAsset(r) ==
  IF NoAsset \in {r.symbol.base, r.symbol.quote} THEN NoAsset
  ELSE IF r.side = "SELL" THEN r.symbol.base ELSE r.symbol.quote

Row(p) == <<req[p].user, QuoteAsset(req[p])>>

(* Slip: truncating instead of rounding. *)
NumericTruncated(x) == (x \div Tick) * Tick

(* What storing a non-negative amount in a NUMERIC(20,8) column does: it   *)
(* rounds to the nearest multiple of 10^-8, ties upwards.                  *)
Numeric(x) == ((2 * x + Tick) \div (2 * Tick)) * Tick

(* The quantity column of order p. *)
StoredQty(p) == Numeric(req[p].qty)

Placed == {p \in Places : status[p] # "none"}
OrdersWithKey(k) == {p \in Placed : req[p].key = k}

(* The row lock taken by SELECT ... FOR UPDATE or by the upsert, and the   *)
(* entry of the unique index, are held until the transaction ends.         *)
HoldsRow(p) == pc[p] \in {"insertOrder", "insertOutbox", "commit"}
HoldsKey(p) == pc[p] \in {"insertOutbox", "commit"}
CreditRow(c) == <<ask[c].user, QuoteAsset(req[ask[c].order])>>
RefundHolds(c) == cpc[c] = "creditCommit"

(* Slip: SELECT without FOR UPDATE takes no lock and waits for none.       *)
RowFreeNoLock(row) == TRUE

RowFree(row) ==
  /\ \A q \in Places : HoldsRow(q) => Row(q) # row
  /\ \A c \in Cancels : RefundHolds(c) => CreditRow(c) # row

(* pgxpool: an open transaction keeps its connection; a statement outside  *)
(* a transaction borrows one.                                              *)
Connections ==
  Cardinality({p \in Places : pc[p] = "deduct" \/ HoldsRow(p)})
  + Cardinality({c \in Cancels : cpc[c] \in {"credit", "creditCommit"}})
FreeConnection == Connections < PoolSize

Init ==
  /\ req = [p \in Places |-> NoRequest]
  /\ pc = [p \in Places |-> "idle"]
  /\ avail = [p \in Places |-> 0]
  /\ reply = [p \in Places |-> "none"]
  /\ answer = [p \in Places |-> NoOrder]
  /\ ask = [c \in Cancels |-> NoRequest]
  /\ cpc = [c \in Cancels |-> "idle"]
  /\ creply = [c \in Cancels |-> "none"]
  /\ balances = InitialBalances
  /\ status = [p \in Places |-> "none"]
  /\ outbox = {}
  /\ refunded = {}
  /\ faults = 0
  /\ crashes = 0

Goto(p, s) == pc' = [pc EXCEPT ![p] = s] /\ UNCHANGED <<reply, answer>>

(* The call returns r, with order o; a transaction still open rolls back.  *)
Return(p, r, o) ==
  /\ pc' = [pc EXCEPT ![p] = "done"]
  /\ reply' = [reply EXCEPT ![p] = r]
  /\ answer' = [answer EXCEPT ![p] = o]

CGoto(c, s) == cpc' = [cpc EXCEPT ![c] = s] /\ UNCHANGED creply
CReturn(c, r) ==
  /\ cpc' = [cpc EXCEPT ![c] = "done"]
  /\ creply' = [creply EXCEPT ![c] = r]
-------------------------------------------------------------------------------
(* PlaceOrder *)

(* What the handler lets pass.                                             *)
Acceptable(r) == r.wellFormed /\ (r.type = "LIMIT" => r.price # "")

(* A call arrives; the handler and the service check the request.          *)
PlaceOrder(p) ==
  /\ pc[p] = "idle"
  /\ \E r \in Requests :
       /\ req' = [req EXCEPT ![p] = r]
       /\ \/ ~Acceptable(r) /\ Return(p, "invalid_argument", NoOrder)
          \/ Acceptable(r) /\ r.qty <= 0 /\ Return(p, "invalid_quantity", NoOrder)
          \/ Acceptable(r) /\ r.qty > 0 /\ Goto(p, "lookup")
  /\ UNCHANGED <<avail, cancelVars, dbVars, envVars>>

(* GetByIdempotencyKey; the symbol is looked at only if the key is new.    *)
CheckIdempotency(p) ==
  /\ pc[p] = "lookup"
  /\ FreeConnection
  /\ \/ \E o \in OrdersWithKey(req[p].key) : Return(p, "order", o)
     \/ /\ OrdersWithKey(req[p].key) = {}
        /\ QuoteAsset(req[p]) = NoAsset
        /\ Return(p, "invalid_symbol", NoOrder)
     \/ /\ OrdersWithKey(req[p].key) = {}
        /\ QuoteAsset(req[p]) # NoAsset
        /\ Goto(p, "begin")
  /\ UNCHANGED <<req, avail, cancelVars, dbVars, envVars>>

BeginTx(p) ==
  /\ pc[p] = "begin"
  /\ FreeConnection
  /\ Goto(p, "deduct")
  /\ UNCHANGED <<req, avail, cancelVars, dbVars, envVars>>

(* Slip: the balance is not compared with the amount. *)
InsufficientUnchecked(p) == FALSE

(* available.LessThan(amount), on the row just read.                       *)
Insufficient(p) == balances[Row(p)] < req[p].qty

(* SELECT ... FOR UPDATE (waits for the row if there is one), the check,   *)
(* and the UPDATE with the value computed from what was read.              *)
DeductBalanceTx(p) ==
  /\ pc[p] = "deduct"
  /\ LET available == balances[Row(p)] IN
       \/ /\ available = NoRow
          /\ Return(p, "insufficient", NoOrder)
          /\ UNCHANGED avail
       \/ /\ available # NoRow
          /\ RowFree(Row(p))
          /\ Insufficient(p)
          /\ Return(p, "insufficient", NoOrder)
          /\ UNCHANGED avail
       \/ /\ available # NoRow
          /\ RowFree(Row(p))
          /\ ~Insufficient(p)
          /\ avail' = [avail EXCEPT ![p] = Numeric(available - req[p].qty)]
          /\ Goto(p, "insertOrder")
  /\ UNCHANGED <<req, cancelVars, dbVars, envVars>>

(* Slip: an index on idempotency_key that is not unique. *)
CreateWithTxNotUnique(p) ==
  /\ pc[p] = "insertOrder"
  /\ Goto(p, "insertOutbox")
  /\ UNCHANGED <<req, avail, cancelVars, dbVars, envVars>>

(* INSERT INTO orders: price must parse as NUMERIC; a key inserted by an   *)
(* open transaction is waited for; a committed one is a unique violation.  *)
CreateWithTx(p) ==
  /\ pc[p] = "insertOrder"
  /\ \/ /\ req[p].price # "number"
        /\ Return(p, "bad_price", NoOrder)
     \/ /\ req[p].price = "number"
        /\ \A q \in Places : HoldsKey(q) => req[q].key # req[p].key
        /\ OrdersWithKey(req[p].key) # {}
        /\ Return(p, "unique_violation", NoOrder)
     \/ /\ req[p].price = "number"
        /\ \A q \in Places : HoldsKey(q) => req[q].key # req[p].key
        /\ OrdersWithKey(req[p].key) = {}
        /\ Goto(p, "insertOutbox")
  /\ UNCHANGED <<req, avail, cancelVars, dbVars, envVars>>

(* Slip: the event is inserted through the pool instead of the transaction. *)
InsertOutboxOutsideTx(p) ==
  /\ pc[p] = "insertOutbox"
  /\ outbox' = outbox \cup {p}
  /\ Goto(p, "commit")
  /\ UNCHANGED <<req, avail, cancelVars, balances, status, envVars>>

InsertOutboxWithTx(p) ==
  /\ pc[p] = "insertOutbox"
  /\ Goto(p, "commit")
  /\ UNCHANGED <<req, avail, cancelVars, dbVars, envVars>>

(* Slip: a status the schema does not know. *)
ApplyOpen(p) ==
  /\ balances' = [balances EXCEPT ![Row(p)] = avail[p]]
  /\ status' = [status EXCEPT ![p] = "OPEN"]
  /\ outbox' = outbox \cup {p}

(* The transaction's three writes become visible together.                 *)
Apply(p) ==
  /\ balances' = [balances EXCEPT ![Row(p)] = avail[p]]
  /\ status' = [status EXCEPT ![p] = "PENDING"]
  /\ outbox' = outbox \cup {p}

Commit(p) ==
  /\ pc[p] = "commit"
  /\ Apply(p)
  /\ Goto(p, "reply")
  /\ UNCHANGED <<req, avail, cancelVars, envVars>>

(* The acknowledgement of COMMIT arrives and the call returns its order.   *)
ReplyPlaced(p) ==
  /\ pc[p] = "reply"
  /\ Return(p, "order", p)
  /\ UNCHANGED <<req, avail, cancelVars, dbVars, envVars>>

(* A statement fails, or the call's context is cancelled.  At "reply" the  *)
(* transaction has committed and only the acknowledgement is lost: the     *)
(* call cannot tell and returns the same error.                            *)
PlaceFault(p) ==
  /\ pc[p] \notin {"idle", "done"}
  /\ faults < MaxFaults
  /\ faults' = faults + 1
  /\ Return(p, "error", NoOrder)
  /\ UNCHANGED <<req, avail, cancelVars, dbVars, crashes>>
-------------------------------------------------------------------------------
(* CancelOrder *)

(* A call arrives for an order id the client knows, or for one that has    *)
(* not been created yet (the id of an order is named by its call).         *)
CancelOrder(c) ==
  /\ cpc[c] = "idle"
  /\ \E u \in Users \cup {Nil}, o \in Places :
       ask' = [ask EXCEPT ![c] = [user |-> u, order |-> o]]
  /\ CGoto(c, "read")
  /\ UNCHANGED <<refunded, placeVars, dbVars, envVars>>

(* Slip: polling until the order can be cancelled. *)
ReadOrderPolling(c) ==
  /\ cpc[c] = "read"
  /\ \/ ask[c].order \notin Placed /\ UNCHANGED cpc
     \/ ask[c].order \in Placed /\ CGoto(c, "begin")
  /\ UNCHANGED <<ask, creply, refunded, placeVars, dbVars, envVars>>

(* GetByID, the ownership check and the status check.  What follows uses   *)
(* the row read here.                                                      *)
ReadOrder(c) ==
  LET o == ask[c].order
      visible == o \in Placed /\ ask[c].user \in {Nil, req[o].user} IN
  /\ cpc[c] = "read"
  /\ FreeConnection
  /\ \/ ~visible /\ CReturn(c, "not_found")
     \/ visible /\ status[o] # "PENDING" /\ CReturn(c, "only_pending")
     \/ visible /\ status[o] = "PENDING" /\ CGoto(c, "begin")
  /\ UNCHANGED <<ask, refunded, placeVars, dbVars, envVars>>

BeginRefund(c) ==
  /\ cpc[c] = "begin"
  /\ FreeConnection
  /\ CGoto(c, "credit")
  /\ UNCHANGED <<ask, refunded, placeVars, dbVars, envVars>>

(* Slip: a failed credit is logged and the order cancelled all the same. *)
CreditBalanceTxIgnored(c) ==
  /\ cpc[c] = "credit"
  /\ \/ ask[c].user = Nil /\ CGoto(c, "update")
     \/ ask[c].user # Nil /\ RowFree(CreditRow(c)) /\ CGoto(c, "creditCommit")
  /\ UNCHANGED <<ask, refunded, placeVars, dbVars, envVars>>

(* The upsert, to the balance of the caller: it waits for the row, and the *)
(* foreign key to users refuses uuid.Nil.                                  *)
CreditBalanceTx(c) ==
  /\ cpc[c] = "credit"
  /\ \/ ask[c].user = Nil /\ CReturn(c, "refund_failed")
     \/ ask[c].user # Nil /\ RowFree(CreditRow(c)) /\ CGoto(c, "creditCommit")
  /\ UNCHANGED <<ask, refunded, placeVars, dbVars, envVars>>

(* available = balances.available + quantity, or a new row.                *)
Credit(c) ==
  LET row == CreditRow(c)
      old == IF balances[row] = NoRow THEN 0 ELSE balances[row] IN
  /\ balances' = [balances EXCEPT ![row] = old + StoredQty(ask[c].order)]
  /\ refunded' = refunded \cup {c}
  /\ UNCHANGED <<status, outbox>>

CommitRefund(c) ==
  /\ cpc[c] = "creditCommit"
  /\ Credit(c)
  /\ CGoto(c, "update")
  /\ UNCHANGED <<ask, placeVars, envVars>>

(* UPDATE orders SET status, on its own connection, whatever the status is *)
(* by now.                                                                 *)
UpdateStatus(c) ==
  /\ cpc[c] = "update"
  /\ FreeConnection
  /\ status' = [status EXCEPT ![ask[c].order] = "CANCELLED"]
  /\ CReturn(c, "cancelled")
  /\ UNCHANGED <<ask, refunded, balances, outbox, placeVars, envVars>>

(* A statement of CancelOrder fails.  A COMMIT or an UPDATE whose          *)
(* acknowledgement is lost may have taken effect.                          *)
CancelFault(c) ==
  /\ faults < MaxFaults
  /\ faults' = faults + 1
  /\ \/ /\ cpc[c] = "read"
        /\ CReturn(c, "error")
        /\ UNCHANGED <<refunded, dbVars>>
     \/ /\ cpc[c] \in {"begin", "credit", "creditCommit"}
        /\ CReturn(c, "refund_failed")
        /\ UNCHANGED <<refunded, dbVars>>
     \/ /\ cpc[c] = "creditCommit"
        /\ CReturn(c, "refund_failed")
        /\ Credit(c)
     \/ /\ cpc[c] = "update"
        /\ CReturn(c, "error")
        /\ \/ UNCHANGED status
           \/ status' = [status EXCEPT ![ask[c].order] = "CANCELLED"]
        /\ UNCHANGED <<refunded, balances, outbox>>
  /\ UNCHANGED <<ask, placeVars, crashes>>
-------------------------------------------------------------------------------
(* The process dies: the calls in progress are never answered and the      *)
(* database rolls their transactions back.  New calls find it restarted.   *)
Crash ==
  LET Lost(at) == at \notin {"idle", "done"} IN
  /\ crashes < MaxCrashes
  /\ crashes' = crashes + 1
  /\ pc' = [p \in Places |-> IF Lost(pc[p]) THEN "done" ELSE pc[p]]
  /\ reply' = [p \in Places |-> IF Lost(pc[p]) THEN "lost" ELSE reply[p]]
  /\ cpc' = [c \in Cancels |-> IF Lost(cpc[c]) THEN "done" ELSE cpc[c]]
  /\ creply' = [c \in Cancels |-> IF Lost(cpc[c]) THEN "lost" ELSE creply[c]]
  /\ UNCHANGED <<req, avail, answer, ask, refunded, dbVars, faults>>

(* Every call has returned: nothing is left to do.                         *)
Quiescent ==
  /\ \A p \in Places : pc[p] = "done"
  /\ \A c \in Cancels : cpc[c] = "done"
  /\ UNCHANGED vars

PlaceStep(p) ==
  \/ CheckIdempotency(p) \/ BeginTx(p) \/ DeductBalanceTx(p)
  \/ CreateWithTx(p) \/ InsertOutboxWithTx(p) \/ Commit(p) \/ ReplyPlaced(p)

CancelStep(c) ==
  \/ ReadOrder(c) \/ BeginRefund(c) \/ CreditBalanceTx(c)
  \/ CommitRefund(c) \/ UpdateStatus(c)

Next ==
  \/ \E p \in Places : PlaceOrder(p) \/ PlaceStep(p) \/ PlaceFault(p)
  \/ \E c \in Cancels : CancelOrder(c) \/ CancelStep(c) \/ CancelFault(c)
  \/ Crash
  \/ Quiescent

(* A goroutine that can run its next statement eventually does.  Nothing   *)
(* obliges a client to call, a statement to fail or the process to die.    *)
Fairness ==
  /\ \A p \in Places : WF_vars(PlaceStep(p))
  /\ \A c \in Cancels : WF_vars(CancelStep(c))

Spec == Init /\ [][Next]_vars
FairSpec == Spec /\ Fairness
-------------------------------------------------------------------------------
(* Properties *)

(* The types of the variables.                                             *)
TypeOK ==
  /\ req \in [Places -> Requests \cup {NoRequest}]
  /\ pc \in [Places -> PlaceStates]
  /\ avail \in [Places -> Int]
  /\ reply \in [Places -> PlaceReplies]
  /\ answer \in [Places -> Places \cup {NoOrder}]
  /\ ask \in [Cancels -> [user : Users \cup {Nil}, order : Places] \cup {NoRequest}]
  /\ cpc \in [Cancels -> CancelStates]
  /\ creply \in [Cancels -> CancelReplies]
  /\ balances \in [Rows -> Int \cup {NoRow}]
  /\ status \in [Places -> Statuses]
  /\ outbox \in SUBSET Places
  /\ refunded \in SUBSET Cancels
  /\ faults \in 0 .. MaxFaults
  /\ crashes \in 0 .. MaxCrashes

(* No balance is ever negative, although no CHECK in the schema says so:   *)
(* concurrent orders on one row, refunds and rounding included.            *)
NoOverdraft ==
  \A row \in Rows : balances[row] # NoRow => balances[row] >= 0

(* While a transaction holds a balance row, the value it is about to write *)
(* is computed from the row's present content: no deduction and no refund  *)
(* is overwritten (12-architecture.md, Decision 7).                        *)
NoLostUpdate ==
  \A p \in Places : HoldsRow(p) =>
    /\ balances[Row(p)] # NoRow
    /\ avail[p] = Numeric(balances[Row(p)] - req[p].qty)

(* An idempotency key never names two orders, however many calls with the  *)
(* key run at once, fail or are retried.                                   *)
OneOrderPerKey ==
  \A p, q \in Placed : req[p].key = req[q].key => p = q

(* Calls with the same key that return an order return the same one.       *)
IdempotentReplies ==
  \A p, q \in Places :
    /\ reply[p] = "order" /\ reply[q] = "order" /\ req[p].key = req[q].key
    => answer[p] = answer[q]

(* An order and the event that announces it are created together, and a    *)
(* call refused for a reason of its own has created neither.               *)
AtomicPlacement ==
  /\ outbox = Placed
  /\ \A p \in Places :
       reply[p] \in PlaceReplies \ {"none", "order", "error", "lost"} => p \notin Placed

(* An order is CANCELLED only after its owner's refund was committed,      *)
(* whatever failed or crashed between the two statements.                  *)
CancelledWasRefunded ==
  \A p \in Placed : status[p] = "CANCELLED" =>
    \E c \in refunded : ask[c] = [user |-> req[p].user, order |-> p]

(* What a caller can tell from a reply.                                    *)
Outcome(r) ==
  IF r \in {"none", "order"} THEN r
  ELSE IF r \in {"error", "lost"} THEN "unknown" ELSE "refused"

Promise == INSTANCE OrderPromise WITH
  Calls <- Places, asked <- req, outcome <- [p \in Places |-> Outcome(reply[p])],
  placed <- Placed, cancelled <- {p \in Placed : status[p] = "CANCELLED"}

(* Seen from its callers the service is the atomic one of OrderPromise:    *)
(* each call places at most one order, before it answers, under a key no   *)
(* other order has; a refused call has placed none; calls with one key     *)
(* that return an order return the same; a cancelled order stays so.       *)
KeepsPromise == Promise!PSpec

(* Every call that arrives returns: rows, keys and connections are always  *)
(* released, and no two calls wait for one another.                        *)
AllCallsReturn ==
  /\ \A p \in Places : (pc[p] # "idle") ~> (pc[p] = "done")
  /\ \A c \in Cancels : (cpc[c] # "idle") ~> (cpc[c] = "done")
================================================================================
