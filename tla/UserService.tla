------------------------------- MODULE UserService -------------------------------
(***************************************************************************)
(* The user service: registration, login, balances, deposits and           *)
(* deductions, at the grain of one database statement                      *)
(* (internal/user/{handler,service,repository}.go with                     *)
(* migrations/001_create_users.up.sql), beside the order service, whose    *)
(* transactions write the same balances table                              *)
(* (internal/order/repository.go, DeductBalanceTx and CreditBalanceTx).    *)
(*                                                                         *)
(* A row of balances is locked by FOR UPDATE or by writing it, until the   *)
(* end of the transaction; a statement that meets a locked row waits.      *)
(*                                                                         *)
(* Amounts and balances are decimals, given as integers in a unit finer    *)
(* than a tick of NUMERIC(20,8), or NaN.  Storing one rounds it; this      *)
(* service reads one into a float64 and compares there, the order service  *)
(* computes with decimals.                                                 *)
(***************************************************************************)
EXTENDS Integers, Sequences, FiniteSets, Functions

CONSTANTS
  Calls,         \* calls in progress: of this service's API, and order transactions
  Requests,      \* Requests[k]: what call k may ask for
  Emails,
  Passwords,
  Unhashable,    \* passwords bcrypt refuses: more than 72 bytes
  DefaultAssets, \* the sequence of assets every user gets a row of
  None,          \* no row, no answer yet
  NaN,           \* not a number: a float64 and a NUMERIC like any other
  Tick,          \* 10^-8, the step of NUMERIC(20,8), in the unit of the amounts
  Limit,         \* 10^12, which NUMERIC(20,8) does not hold
  Float64,       \* Float64[x]: what the decimal x is once read into a float64
  MaxFaults      \* bound: statements that fail, commits whose answer is lost

Assets == {DefaultAssets[i] : i \in 1 .. Len(DefaultAssets)}

Account == Emails \X Assets

Decimals == DOMAIN Float64

(* complete: the required fields are there, the user id parses.            *)
Request == [op : {"register", "login", "balance", "deduct", "credit", "order"},
            account : Account, amount : Decimals \cup {NaN}, password : Passwords, complete : BOOLEAN]

Replies == {"OK", "AlreadyExists", "InvalidArgument", "Unauthenticated",
            "FailedPrecondition", "Internal"}

(* Reading into a float64 merges decimals, and keeps their order and their *)
(* sign.  An amount of this service comes as a float64 and is written as   *)
(* the shortest decimal that reads back as it; an infinite one is among    *)
(* those that Limit excludes.  The order service has checked its quantity  *)
(* before its transaction.                                                 *)
ASSUME UserAssumption ==
  /\ Tick \in Nat \ {0}
  /\ Limit \in Nat
  /\ Decimals \subseteq Int /\ -Limit .. Limit \subseteq Decimals
  /\ Float64 \in [Decimals -> Int]
  /\ \A x, y \in Decimals : x <= y => Float64[x] <= Float64[y]
  /\ \A x \in Decimals : (x < 0 <=> Float64[x] < 0) /\ (x > 0 <=> Float64[x] > 0)
  /\ DefaultAssets \in Seq(Assets)
  /\ Requests \in [Calls -> SUBSET Request]
  /\ \A k \in Calls : \A q \in Requests[k] : q.op = "order" => q.amount # NaN /\ q.amount > 0
  /\ Unhashable \subseteq Passwords
  /\ NaN \notin Int
  /\ None \notin Int \cup {NaN} \cup Calls \cup Replies
  /\ MaxFaults \in Nat

VARIABLES
  req,       \* req[k]: the request of call k
  pc,        \* pc[k]: where call k is
  users,     \* users[e]: the call whose registration the row of e comes from
  balance,   \* balance[a]: the available column of account a, or None
  lock,      \* lock[a]: the call whose open transaction holds the row
  toInit,    \* toInit[k]: assets whose row registration k has yet to insert
  read,      \* read[k]: the balance call k read FOR UPDATE
  shown,     \* shown[k]: the balances call k read for its answer, by asset
  reply,     \* reply[k]: the answer of call k
  applied,   \* history: calls whose change of a balance is committed
  faults     \* failures so far

vars == <<req, pc, users, balance, lock, toInit, read, shown, reply, applied, faults>>

Op(k) == req[k].op
Acc(k) == req[k].account
Email(k) == Acc(k)[1]
Amount(k) == req[k].amount
Password(k) == req[k].password

Init ==
  /\ req \in [Calls -> UNION {Requests[k] : k \in Calls}] /\ \A k \in Calls : req[k] \in Requests[k]
  /\ pc = [k \in Calls |-> "start"]
  /\ users = [e \in Emails |-> None]
  /\ balance = [a \in Account |-> None]
  /\ lock = [a \in Account |-> None]
  /\ toInit = [k \in Calls |-> <<>>]
  /\ read = [k \in Calls |-> None]
  /\ shown = [k \in Calls |-> None]
  /\ reply = [k \in Calls |-> None]
  /\ applied = {}
  /\ faults = 0

Go(k, here, there) ==
  /\ pc[k] = here
  /\ pc' = [pc EXCEPT ![k] = there]
  /\ UNCHANGED req

Answer(k, here, r) ==
  /\ Go(k, here, "done")
  /\ reply' = [reply EXCEPT ![k] = r]

Exists(a) == balance[a] # None

(* Slip: the row is read without FOR UPDATE. *)
RowFreeNoLock(a) == TRUE

RowFree(a) == lock[a] = None

(* The request has its fields, its user id parses, its amount is not       *)
(* "<= 0", which NaN is not.                                               *)
Sound(k) ==
  /\ req[k].complete
  /\ Op(k) \in {"deduct", "credit"} /\ Amount(k) # NaN => Amount(k) > 0

RefuseArgument(k) ==
  /\ Op(k) # "order"
  /\ ~Sound(k)
  /\ Answer(k, "start", "InvalidArgument")
  /\ UNCHANGED <<users, balance, lock, toInit, read, shown, applied, faults>>
-------------------------------------------------------------------------------
(* Decimals and floats *)

Plus(x, y) == IF NaN \in {x, y} THEN NaN ELSE x + y

Minus(x, y) == IF NaN \in {x, y} THEN NaN ELSE x - y

Rounded(x) == ((2 * x + Tick) \div (2 * Tick)) * Tick

(* What assigning to a NUMERIC(20,8) column stores: the nearest tick, of   *)
(* two the one away from zero.                                             *)
Numeric(x) == IF x = NaN THEN NaN ELSE IF x < 0 THEN -Rounded(-x) ELSE Rounded(x)

(* What Scan makes of a column; there is nothing to scan without a row.    *)
Scan(x) == IF x \in {NaN, None} THEN x ELSE Float64[x]

(* x < y between two float64: never, if one of them is NaN.                *)
FloatLess(x, y) == NaN \notin {x, y} /\ Float64[x] < Float64[y]
-------------------------------------------------------------------------------
(* Register *)

(* More than 128 characters, or more bytes than bcrypt hashes.             *)
RefusePassword(k) ==
  /\ Op(k) = "register" /\ Sound(k)
  /\ Password(k) \in Unhashable
  /\ Answer(k, "start", "Internal")
  /\ UNCHANGED <<users, balance, lock, toInit, read, shown, applied, faults>>

Registering(k) == Op(k) = "register" /\ Sound(k) /\ Password(k) \notin Unhashable

(* INSERT INTO users: the unique index admits one row of an email.         *)
InsertUser(k) ==
  /\ Registering(k)
  /\ users[Email(k)] = None
  /\ Go(k, "start", "balances")
  /\ users' = [users EXCEPT ![Email(k)] = k]
  /\ toInit' = [toInit EXCEPT ![k] = DefaultAssets]
  /\ UNCHANGED <<balance, lock, read, shown, reply, applied, faults>>

EmailExists(k) ==
  /\ Registering(k)
  /\ users[Email(k)] # None
  /\ Answer(k, "start", "AlreadyExists")
  /\ UNCHANGED <<users, balance, lock, toInit, read, shown, applied, faults>>

(* The rows of the default assets, each INSERT a transaction of its own; a *)
(* row that a deposit has made already is kept.                            *)
InsertBalance(k) ==
  /\ pc[k] = "balances"
  /\ toInit[k] # <<>>
  /\ LET a == <<Email(k), Head(toInit[k])>> IN
     balance' = [balance EXCEPT ![a] = IF Exists(a) THEN @ ELSE 0]
  /\ toInit' = [toInit EXCEPT ![k] = Tail(@)]
  /\ UNCHANGED <<req, pc, users, lock, read, shown, reply, applied, faults>>

Registered(k) ==
  /\ toInit[k] = <<>>
  /\ Answer(k, "balances", "OK")
  /\ UNCHANGED <<users, balance, lock, toInit, read, shown, applied, faults>>
-------------------------------------------------------------------------------
(* Login *)

(* There is a row of the email, and the password is the one it was made    *)
(* with.                                                                   *)
Matches(k) == users[Email(k)] # None /\ Password(users[Email(k)]) = Password(k)

(* The row is read once; the rest is computed from it.  "OK" brings a      *)
(* token for the row's user.                                               *)
Login(k) ==
  /\ Op(k) = "login" /\ Sound(k)
  /\ Answer(k, "start", IF Matches(k) THEN "OK" ELSE "Unauthenticated")
  /\ UNCHANGED <<users, balance, lock, toInit, read, shown, applied, faults>>
-------------------------------------------------------------------------------
(* GetBalance *)

(* Slip: DeductBalance answers with the balance it read before. *)
ShowReadBefore(k, here) ==
  /\ shown' = [shown EXCEPT ![k] = [s \in Assets |->
                 Scan(IF Op(k) = "deduct" THEN read[k] ELSE balance[<<Email(k), s>>])]]
  /\ Answer(k, here, "OK")
  /\ UNCHANGED <<users, balance, lock, toInit, read, applied, faults>>

(* GetBalances: one SELECT, outside any transaction, into float64.         *)
ShowBalances(k, here) ==
  /\ shown' = [shown EXCEPT ![k] = [s \in Assets |-> Scan(balance[<<Email(k), s>>])]]
  /\ Answer(k, here, "OK")
  /\ UNCHANGED <<users, balance, lock, toInit, read, applied, faults>>

GetBalance(k) == Op(k) = "balance" /\ Sound(k) /\ ShowBalances(k, "start")

(* DeductBalance and CreditBalance read the balance for their answer after *)
(* their change has been committed.                                        *)
ReportBalance(k) == ShowBalances(k, "report")
-------------------------------------------------------------------------------
(* DeductBalance *)

Available(a) == IF Exists(a) THEN balance[a] ELSE 0

(* The service's own check, outside the transaction.                       *)
CheckAvailable(k) ==
  /\ Op(k) = "deduct" /\ Sound(k)
  /\ \/ /\ ~FloatLess(Available(Acc(k)), Amount(k))
        /\ Go(k, "start", "begun")
        /\ UNCHANGED reply
     \/ /\ FloatLess(Available(Acc(k)), Amount(k))
        /\ Answer(k, "start", "FailedPrecondition")
  /\ UNCHANGED <<users, balance, lock, toInit, read, shown, applied, faults>>

(* An order's transaction starts with the locked read.                     *)
BeginOrder(k) ==
  /\ Op(k) = "order"
  /\ Go(k, "start", "begun")
  /\ UNCHANGED <<users, balance, lock, toInit, read, shown, reply, applied, faults>>

SelectForUpdate(k) ==
  /\ Exists(Acc(k))
  /\ RowFree(Acc(k))
  /\ Go(k, "begun", "selected")
  /\ lock' = [lock EXCEPT ![Acc(k)] = k]
  /\ read' = [read EXCEPT ![k] = balance[Acc(k)]]
  /\ UNCHANGED <<users, balance, toInit, shown, reply, applied, faults>>

NoRow(k) ==
  /\ ~Exists(Acc(k))
  /\ Answer(k, "begun", "Internal")
  /\ UNCHANGED <<users, balance, lock, toInit, read, shown, applied, faults>>

(* Slip: the transaction relies on the check made before it. *)
InsufficientUnchecked(k) == FALSE

(* This service compares float64 with float64; the order service compares  *)
(* decimals, and has none for a NaN: its Scan fails.                       *)
Insufficient(k) ==
  IF Op(k) = "order" THEN read[k] # NaN => read[k] < Amount(k)
  ELSE FloatLess(read[k], Amount(k))

RefuseDeduction(k) ==
  /\ Answer(k, "selected", "Internal")
  /\ Insufficient(k)
  /\ lock' = [lock EXCEPT ![Acc(k)] = None]
  /\ UNCHANGED <<users, balance, toInit, read, shown, applied, faults>>

(* The value a change leaves in the row: this service lets the database    *)
(* add and subtract, the order service writes the difference it computed.  *)
NewAvailable(k) ==
  Numeric(CASE Op(k) = "order" -> Minus(read[k], Amount(k))
            [] Op(k) = "credit" -> Plus(Available(Acc(k)), Amount(k))
            [] OTHER -> Minus(balance[Acc(k)], Amount(k)))

(* A deposit's amount is first made into a row of its own, which ON        *)
(* CONFLICT then sets aside.                                               *)
Fits(k) ==
  \A x \in {NewAvailable(k)} \cup (IF Op(k) = "credit" THEN {Numeric(Amount(k))} ELSE {}) :
    x # NaN => -Limit < x /\ x < Limit

(* The order service's answer is its own affair.                           *)
Commit(k) ==
  /\ IF Op(k) = "order" THEN Answer(k, "selected", "OK")
     ELSE Go(k, "selected", "report") /\ UNCHANGED reply
  /\ ~Insufficient(k) /\ Fits(k)
  /\ balance' = [balance EXCEPT ![Acc(k)] = NewAvailable(k)]
  /\ lock' = [lock EXCEPT ![Acc(k)] = IF @ = k THEN None ELSE @]
  /\ applied' = applied \cup {k}
  /\ UNCHANGED <<users, toInit, read, shown, faults>>
-------------------------------------------------------------------------------
(* CreditBalance *)

Crediting(k) ==
  /\ Op(k) = "credit" /\ Sound(k) /\ pc[k] = "start"
  /\ users[Email(k)] # None
  /\ RowFree(Acc(k))

(* INSERT ... ON CONFLICT DO UPDATE SET available = available + $3.        *)
Credit(k) ==
  /\ Crediting(k) /\ Fits(k)
  /\ Go(k, "start", "report")
  /\ balance' = [balance EXCEPT ![Acc(k)] = NewAvailable(k)]
  /\ applied' = applied \cup {k}
  /\ UNCHANGED <<users, lock, toInit, read, shown, reply, faults>>

(* balances.user_id REFERENCES users(id).                                  *)
NoSuchUser(k) ==
  /\ Op(k) = "credit" /\ Sound(k)
  /\ users[Email(k)] = None
  /\ Answer(k, "start", "Internal")
  /\ UNCHANGED <<users, balance, lock, toInit, read, shown, applied, faults>>

(* NUMERIC(20,8) does not hold the value: the statement fails.             *)
Overflow(k) ==
  /\ Crediting(k) \/ (pc[k] = "selected" /\ ~Insufficient(k))
  /\ ~Fits(k)
  /\ Answer(k, pc[k], "Internal")
  /\ lock' = [lock EXCEPT ![Acc(k)] = IF @ = k THEN None ELSE @]
  /\ UNCHANGED <<users, balance, toInit, read, shown, applied, faults>>
-------------------------------------------------------------------------------
(* Failures *)

(* A statement fails: the transaction rolls back and the caller is told;   *)
(* what registration has inserted, or a deposit or deduction committed,    *)
(* stays.                                                                  *)
Fail(k) ==
  /\ faults < MaxFaults
  /\ faults' = faults + 1
  /\ pc[k] # "done"
  /\ Op(k) # "order" => Sound(k)
  /\ Answer(k, pc[k], "Internal")
  /\ lock' = [a \in Account |-> IF lock[a] = k THEN None ELSE lock[a]]
  /\ UNCHANGED <<users, balance, toInit, read, shown, applied>>

(* The database commits a change and the answer is lost.                   *)
AnswerLost(k) ==
  /\ faults < MaxFaults
  /\ faults' = faults + 1
  /\ Crediting(k) \/ (pc[k] = "selected" /\ ~Insufficient(k))
  /\ Fits(k)
  /\ balance' = [balance EXCEPT ![Acc(k)] = NewAvailable(k)]
  /\ lock' = [lock EXCEPT ![Acc(k)] = IF @ = k THEN None ELSE @]
  /\ applied' = applied \cup {k}
  /\ Answer(k, pc[k], "Internal")
  /\ UNCHANGED <<users, toInit, read, shown>>

Done == (\A k \in Calls : pc[k] = "done") /\ UNCHANGED vars

Register(k) == RefusePassword(k) \/ InsertUser(k) \/ EmailExists(k) \/ InsertBalance(k) \/ Registered(k)

Deduct(k) ==
  \/ CheckAvailable(k) \/ BeginOrder(k)
  \/ SelectForUpdate(k) \/ NoRow(k) \/ RefuseDeduction(k) \/ Commit(k)

Next ==
  \/ \E k \in Calls :
       \/ RefuseArgument(k) \/ Register(k) \/ Login(k) \/ GetBalance(k) \/ ReportBalance(k)
       \/ Deduct(k) \/ Credit(k) \/ NoSuchUser(k) \/ Overflow(k)
       \/ Fail(k) \/ AnswerLost(k)
  \/ Done

Spec == Init /\ [][Next]_vars
-------------------------------------------------------------------------------
(* Properties *)

(* The types of the variables; a lock is held by a call in a transaction.  *)
TypeOK ==
  /\ req \in [Calls -> Request]
  /\ pc \in [Calls -> {"start", "balances", "begun", "selected", "report", "done"}]
  /\ users \in [Emails -> Calls \cup {None}]
  /\ balance \in [Account -> (-Limit .. Limit) \cup {NaN, None}]
  /\ lock \in [Account -> Calls \cup {None}]
  /\ \A a \in Account : lock[a] # None => pc[lock[a]] = "selected" /\ Acc(lock[a]) = a
  /\ toInit \in [Calls -> Seq(Assets)]
  /\ read \in [Calls -> (-Limit .. Limit) \cup {NaN, None}]
  /\ shown \in [Calls -> [Assets -> Int \cup {NaN, None}] \cup {None}]
  /\ reply \in [Calls -> Replies \cup {None}]
  /\ applied \subseteq Calls
  /\ faults \in Nat

Counted(a) == balance[a] \notin {NaN, None}

(* A balance falls below zero only by what float64 does not tell apart: a  *)
(* deduction of an amount that reads as the same float64 as some balance   *)
(* it exceeds.  Whatever runs beside it, a deduction checks again under    *)
(* the row lock what it checked before, an order finds nothing to spend in *)
(* a negative balance, and a second deduction takes no more from it.       *)
OverdraftIsRounding ==
  \A a \in Account : Counted(a) /\ balance[a] < 0 =>
    \E k \in applied : \E b \in Decimals :
      /\ Op(k) = "deduct" /\ Acc(k) = a /\ Amount(k) # NaN
      /\ b < Amount(k) /\ Float64[b] = Float64[Amount(k)]
      /\ balance[a] >= Numeric(b - Amount(k))

(* What call k adds to a balance, as far as it is a number.                *)
Signed == [k \in Calls |-> IF Amount(k) = NaN THEN 0
                           ELSE IF Op(k) = "credit" THEN Amount(k) ELSE -Amount(k)]

Sum(S) == SumFunctionOnSet(Signed, S)

(* The calls of S whose amount is not a whole number of ticks.             *)
OffTick(S) == {k \in S : Signed[k] % Tick # 0}

(* b is what the changes S make of an empty balance, but for the rounding  *)
(* of each that is not a whole number of ticks; one NaN makes it NaN.      *)
Reflects(b, S) ==
  IF \E k \in S : Amount(k) = NaN THEN b = NaN
  ELSE /\ b # NaN
       /\ LET error == 2 * (b - Sum(S))
              most  == Tick * Cardinality(OffTick(S))
          IN  -most <= error /\ error <= most

On(a) == {k \in applied : Acc(k) = a}

(* A balance is the sum of the deposits, deductions and orders committed   *)
(* on it, up to half a tick for each amount the column rounds: none lost,  *)
(* none twice.  Two services with different ways of writing the row never  *)
(* overwrite each other, nor does a registration.                          *)
BalanceIsSumOfChanges == \A a \in Account : Reflects(Available(a), On(a))

(* The balances an answer shows are, as float64, balances after a set of   *)
(* committed changes, the call's own among them, although they are read    *)
(* after its transaction, when others may have changed them and the read   *)
(* itself may fail.                                                        *)
ShownCounts(k) ==
  \A s \in Assets :
    LET a == <<Email(k), s>> IN
    \E b \in Decimals \cup {NaN} :
      /\ Scan(b) = (IF shown[k][s] = None THEN 0 ELSE shown[k][s])
      /\ \E S \in SUBSET On(a) :
           /\ Op(k) # "balance" /\ a = Acc(k) => k \in S
           /\ Reflects(b, S)

(* What a call is told is so, and stays so: a registration told OK has its *)
(* row and its balances; a login told OK is of the one who registered, and *)
(* with the password that was registered; a deposit or deduction told OK   *)
(* is committed and in the balance it shows; one that was refused is not   *)
(* committed.  "Internal" says nothing.                                    *)
RepliesTruthful ==
  \A k \in Calls :
    /\ reply[k] = "OK" =>
         CASE Op(k) = "register" -> users[Email(k)] = k /\ \A s \in Assets : Exists(<<Email(k), s>>)
           [] Op(k) = "login" -> /\ users[Email(k)] # None
                                 /\ Password(users[Email(k)]) = Password(k)
           [] Op(k) = "balance" -> ShownCounts(k)
           [] Op(k) = "order" -> k \in applied
           [] OTHER -> k \in applied /\ ShownCounts(k)
    /\ reply[k] \in Replies \ {"OK", "Internal"} => k \notin applied /\ users[Email(k)] # k

================================================================================
