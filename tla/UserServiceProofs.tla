--------------------------- MODULE UserServiceProofs ---------------------------
(***************************************************************************)
(* Proofs about the user service, for any users, assets, requests, calls   *)
(* and number of failures.                                                 *)
(***************************************************************************)
EXTENDS UserService, Totals, SequenceTheorems

(* A transaction that has read its row holds it, and the row is still as   *)
(* it was read.                                                            *)
LockInv ==
  \A k \in Calls : pc[k] = "selected" =>
    /\ lock[Acc(k)] = k
    /\ Exists(Acc(k))
    /\ read[k] = balance[Acc(k)]

(* Only a deduction or an order is in a transaction.                       *)
InTransaction == \A k \in Calls : pc[k] \in {"begun", "selected"} => Op(k) \in {"deduct", "order"}

Whole(x) == \E m \in Int : x = m * Tick

(* Every balance is a whole number of ticks.                               *)
OnTick == \A a \in Account : Counted(a) => Whole(balance[a])

IInv == TypeOK /\ LockInv /\ InTransaction /\ OnTick /\ OverdraftIsRounding
-------------------------------------------------------------------------------
(* Rounding *)

LEMMA RoundedIs ==
  ASSUME NEW x \in Nat
  PROVE  /\ Rounded(x) \in Nat /\ Whole(Rounded(x))
         /\ -Tick <= 2 * (Rounded(x) - x) /\ 2 * (Rounded(x) - x) <= Tick
<1> DEFINE n == 2 * x + Tick
           d == 2 * Tick
           q == n \div d
<1>1. Tick \in Nat /\ d \in Nat \ {0} /\ n \in Nat
  BY UserAssumption
<1>2. q \in Nat /\ n % d \in 0 .. d - 1 /\ n = d * q + (n % d)
  <2> HIDE DEF n, d
  <2>1. QED
    BY <1>1
<1>3. q * Tick \in Nat
  <2> HIDE DEF q
  <2>1. QED
    BY <1>1, <1>2
<1>4. d * q = 2 * (q * Tick)
  <2> HIDE DEF q
  <2>1. QED
    BY <1>1, <1>2
<1>5. Rounded(x) = q * Tick /\ Whole(Rounded(x))
  <2>1. Rounded(x) = q * Tick
    BY DEF Rounded
  <2>2. QED
    BY <1>2, <2>1 DEF Whole
<1> HIDE DEF q
<1>6. 2 * (q * Tick) = 2 * x + Tick - (n % d)
  <2>1. n = 2 * x + Tick
    OBVIOUS
  <2>2. n % d \in Int
    BY <1>2
  <2>3. n = 2 * (q * Tick) + (n % d)
    BY <1>2, <1>4
  <2> DEFINE w == q * Tick
             r == n % d
  <2>4. w \in Int /\ r \in Int /\ 2 * x + Tick = 2 * w + r
    BY <1>3, <2>1, <2>2, <2>3
  <2> HIDE DEF n, d, w, r
  <2>5. 2 * w = 2 * x + Tick - r
    BY <1>1, <2>4
  <2>6. QED
    BY <2>5 DEF w, r
<1>7. 0 <= n % d /\ n % d <= 2 * Tick /\ n % d \in Int
  BY <1>1, <1>2
<1> HIDE DEF n, d
<1>8. QED
  BY <1>1, <1>3, <1>5, <1>6, <1>7

(* Storing a decimal moves it by half a tick at most.                      *)
LEMMA NumericIs ==
  ASSUME NEW x \in Int
  PROVE  /\ Numeric(x) \in Int /\ Whole(Numeric(x)) /\ (x >= 0 => Numeric(x) >= 0)
         /\ -Tick <= 2 * (Numeric(x) - x) /\ 2 * (Numeric(x) - x) <= Tick
<1>1. x # NaN /\ Tick \in Nat
  BY UserAssumption
<1>2. CASE x >= 0
  <2>1. Numeric(x) = Rounded(x) /\ x \in Nat
    BY <1>1, <1>2 DEF Numeric
  <2>2. QED
    BY <2>1, RoundedIs
<1>3. CASE x < 0
  <2>1. Numeric(x) = -Rounded(-x) /\ -x \in Nat
    BY <1>1, <1>3 DEF Numeric
  <2>2. /\ Rounded(-x) \in Nat /\ Whole(Rounded(-x))
        /\ -Tick <= 2 * (Rounded(-x) + x) /\ 2 * (Rounded(-x) + x) <= Tick
    BY <2>1, RoundedIs
  <2>3. PICK m \in Int : Rounded(-x) = m * Tick
    BY <2>2 DEF Whole
  <2>4. -m \in Int /\ Numeric(x) = (-m) * Tick
    BY <1>1, <2>1, <2>3
  <2>5. 2 * (Numeric(x) - x) = -(2 * (Rounded(-x) + x))
    BY <2>1, <2>2
  <2>6. Numeric(x) \in Int /\ Whole(Numeric(x))
    <3>1. Numeric(x) \in Int
      BY <2>1, <2>2
    <3>2. Whole(Numeric(x))
      BY <2>4 DEF Whole
    <3>3. QED
      BY <3>1, <3>2
  <2>7. -Tick <= 2 * (Numeric(x) - x) /\ 2 * (Numeric(x) - x) <= Tick
    BY <1>1, <2>2, <2>5
  <2>8. QED
    BY <1>3, <2>6, <2>7
<1>4. QED
  BY <1>2, <1>3

LEMMA WholeInt == ASSUME NEW x, Whole(x) PROVE x \in Int
BY UserAssumption DEF Whole

LEMMA WholeGap ==
  ASSUME NEW x, NEW y, Whole(x), Whole(y), x > y - Tick
  PROVE  x >= y
<1>1. PICK m \in Int : x = m * Tick
  BY DEF Whole
<1>2. PICK l \in Int : y = l * Tick
  BY DEF Whole
<1>3. Tick \in Nat \ {0}
  BY UserAssumption
<1>4. ASSUME m < l PROVE FALSE
  <2>1. m <= l - 1 /\ (l - 1) * Tick = l * Tick - Tick
    BY <1>3, <1>4
  <2>2. m * Tick <= (l - 1) * Tick
    BY <1>3, <2>1
  <2>3. m * Tick \in Int /\ l * Tick \in Int
    BY <1>3
  <2>4. QED
    BY <1>1, <1>2, <1>3, <2>1, <2>2, <2>3
<1>5. l <= m
  BY <1>4
<1>6. l * Tick <= m * Tick
  BY <1>3, <1>5
<1>7. QED
  BY <1>1, <1>2, <1>6

(* A whole number of ticks is stored as it is.                             *)
LEMMA NumericWhole == ASSUME NEW x, Whole(x) PROVE Numeric(x) = x
<1>1. x \in Int /\ Tick \in Nat \ {0}
  BY WholeInt, UserAssumption
<1>2. /\ Numeric(x) \in Int /\ Whole(Numeric(x))
      /\ -Tick <= 2 * (Numeric(x) - x) /\ 2 * (Numeric(x) - x) <= Tick
  BY <1>1, NumericIs
<1>3. Numeric(x) > x - Tick /\ x > Numeric(x) - Tick
  BY <1>1, <1>2
<1>4. Numeric(x) >= x /\ x >= Numeric(x)
  BY <1>2, <1>3, WholeGap
<1>5. QED
  BY <1>1, <1>2, <1>4

LEMMA WholePlus == ASSUME NEW x, NEW y, Whole(x), Whole(y) PROVE Whole(x + y)
<1>1. PICK m \in Int : x = m * Tick
  BY DEF Whole
<1>2. PICK l \in Int : y = l * Tick
  BY DEF Whole
<1>3. m + l \in Int /\ x + y = (m + l) * Tick
  BY <1>1, <1>2, UserAssumption
<1>4. QED
  BY <1>3 DEF Whole

LEMMA WholeOf == ASSUME NEW x \in Int, x % Tick = 0 PROVE Whole(x)
<1>1. Tick \in Nat \ {0}
  BY UserAssumption
<1>2. x \div Tick \in Int /\ x = Tick * (x \div Tick) + (x % Tick)
  BY <1>1
<1>3. x = (x \div Tick) * Tick
  BY <1>1, <1>2
<1>4. QED
  BY <1>2, <1>3 DEF Whole

LEMMA WholeZero == Whole(0)
<1>1. 0 \in Int /\ 0 = 0 * Tick
  BY UserAssumption
<1>2. QED
  BY <1>1 DEF Whole
-------------------------------------------------------------------------------
LEMMA Names ==
  DefaultAssets \in Seq(Assets) /\ None \notin Calls \cup Replies /\ NaN # None
BY UserAssumption

LEMMA AccountType ==
  ASSUME TypeOK, NEW k \in Calls
  PROVE  /\ Acc(k) \in Account /\ Email(k) \in Emails
         /\ Amount(k) \in Decimals \cup {NaN} /\ Amount(k) \in Int \cup {NaN}
         /\ \A s \in Assets : <<Email(k), s>> \in Account
<1>1. req[k] \in Request
  BY DEF TypeOK
<1>2. Acc(k) \in Emails \X Assets /\ Amount(k) \in Decimals \cup {NaN}
  BY <1>1 DEF Request, Acc, Amount, Account
<1>3. QED
  BY <1>2, UserAssumption DEF Email, Account

LEMMA InitIInv == Init => IInv
<1> SUFFICES ASSUME Init PROVE IInv
  OBVIOUS
<1>1. req \in [Calls -> Request]
  BY UserAssumption DEF Init
<1>2. TypeOK
  BY <1>1, UserAssumption DEF Init, TypeOK
<1>3. LockInv /\ InTransaction /\ OnTick /\ OverdraftIsRounding
  BY DEF Init, LockInv, InTransaction, OnTick, OverdraftIsRounding, Counted, Exists
<1>4. QED
  BY <1>2, <1>3 DEF IInv

(* The steps that touch neither a balance nor a lock.                      *)
Calm(k) ==
  \/ RefuseArgument(k) \/ RefusePassword(k) \/ InsertUser(k) \/ EmailExists(k)
  \/ Registered(k) \/ Login(k) \/ GetBalance(k) \/ ReportBalance(k) \/ CheckAvailable(k)
  \/ BeginOrder(k) \/ NoRow(k) \/ NoSuchUser(k)

LEMMA CalmFrame ==
  ASSUME TypeOK, NEW k \in Calls, Calm(k)
  PROVE  /\ UNCHANGED <<req, balance, lock, read, applied, faults>>
         /\ pc[k] \in {"start", "balances", "begun", "report"}
         /\ \E s \in {"balances", "begun", "done"} : pc' = [pc EXCEPT ![k] = s]
         /\ reply' = reply \/ \E r \in Replies : reply' = [reply EXCEPT ![k] = r]
BY DEF Calm, RefuseArgument, RefusePassword, InsertUser, EmailExists, Registered, Login,
       GetBalance, ReportBalance, ShowBalances, CheckAvailable, BeginOrder, NoRow, NoSuchUser, Answer, Go, Replies

LEMMA CalmTypeOK ==
  ASSUME TypeOK, NEW k \in Calls, Calm(k)
  PROVE  TypeOK'
<1>1. /\ users' \in [Emails -> Calls \cup {None}]
      /\ toInit' \in [Calls -> Seq(Assets)]
  <2>1. CASE InsertUser(k)
    BY <2>1, AccountType, UserAssumption DEF InsertUser, TypeOK
  <2>2. CASE ~InsertUser(k)
    <3>1. UNCHANGED <<users, toInit>>
      BY <2>2 DEF Calm, RefuseArgument, RefusePassword, EmailExists, Registered, Login,
                  GetBalance, ReportBalance, ShowBalances, CheckAvailable, BeginOrder, NoRow, NoSuchUser
    <3>2. QED
      BY <3>1 DEF TypeOK
  <2>3. QED
    BY <2>1, <2>2
<1>2. shown' \in [Calls -> [Assets -> Int \cup {NaN, None}] \cup {None}]
  <2>1. CASE GetBalance(k) \/ ReportBalance(k)
    <3>1. [s \in Assets |-> Scan(balance[<<Email(k), s>>])] \in [Assets -> Int \cup {NaN, None}]
      <4>1. ASSUME NEW s \in Assets PROVE Scan(balance[<<Email(k), s>>]) \in Int \cup {NaN, None}
        BY AccountType, UserAssumption DEF TypeOK, Scan
      <4>2. QED
        BY <4>1
    <3>2. QED
      BY <2>1, <3>1 DEF GetBalance, ReportBalance, ShowBalances, TypeOK
  <2>2. CASE ~(GetBalance(k) \/ ReportBalance(k))
    <3>1. UNCHANGED shown
      BY <2>2 DEF Calm, RefuseArgument, RefusePassword, InsertUser, EmailExists, Registered,
                  Login, CheckAvailable, BeginOrder, NoRow, NoSuchUser
    <3>2. QED
      BY <3>1 DEF TypeOK
  <2>3. QED
    BY <2>1, <2>2
<1>3. \A a \in Account : lock'[a] # None => pc'[lock'[a]] = "selected" /\ req'[lock'[a]].account = a
  <2> SUFFICES ASSUME NEW a \in Account, lock[a] # None
               PROVE  pc'[lock[a]] = "selected" /\ req[lock[a]].account = a
    BY CalmFrame
  <2>1. lock[a] \in Calls /\ pc[lock[a]] = "selected" /\ Acc(lock[a]) = a
    BY DEF TypeOK
  <2>2. lock[a] # k
    BY <2>1, CalmFrame
  <2>3. PICK t \in {"balances", "begun", "done"} : pc' = [pc EXCEPT ![k] = t]
    BY CalmFrame
  <2>4. pc'[lock[a]] = pc[lock[a]]
    BY <2>1, <2>2, <2>3 DEF TypeOK
  <2>5. QED
    BY <2>1, <2>4 DEF Acc
<1>4. pc' \in [Calls -> {"start", "balances", "begun", "selected", "report", "done"}]
  <2>1. PICK t \in {"balances", "begun", "done"} : pc' = [pc EXCEPT ![k] = t]
    BY CalmFrame
  <2>2. QED
    BY <2>1 DEF TypeOK
<1>5. reply' \in [Calls -> Replies \cup {None}]
  <2>1. CASE reply' = reply
    BY <2>1 DEF TypeOK
  <2>2. ASSUME NEW r \in Replies, reply' = [reply EXCEPT ![k] = r]
        PROVE  reply' \in [Calls -> Replies \cup {None}]
    BY <2>2 DEF TypeOK
  <2>3. QED
    BY <2>1, <2>2, CalmFrame
<1>6. UNCHANGED <<req, balance, lock, read, applied, faults>>
  BY CalmFrame
<1>7. QED
  BY <1>1, <1>2, <1>3, <1>4, <1>5, <1>6 DEF TypeOK, Acc

(* Steps that write no balance keep what is said of the balances.          *)
LEMMA BalancesKept ==
  ASSUME OnTick, OverdraftIsRounding, UNCHANGED <<req, applied>>,
         \A a \in Account : balance'[a] = balance[a] \/ balance'[a] = 0
  PROVE  OnTick' /\ OverdraftIsRounding'
<1>1. OnTick'
  BY WholeZero DEF OnTick, Counted
<1>2. ASSUME NEW a \in Account, Counted(a)', balance'[a] < 0
      PROVE  \E k \in applied' : \E b \in Decimals :
               /\ Op(k)' = "deduct" /\ Acc(k)' = a /\ Amount(k)' # NaN
               /\ b < Amount(k)' /\ Float64[b] = Float64[Amount(k)']
               /\ balance'[a] >= Numeric(b - Amount(k)')
  <2>1. balance'[a] = balance[a] /\ Counted(a) /\ balance[a] < 0
    BY <1>2 DEF Counted
  <2>2. QED
    BY <2>1 DEF OverdraftIsRounding, Op, Acc, Amount
<1>3. QED
  BY <1>1, <1>2 DEF OverdraftIsRounding

LEMMA TransactionsKept ==
  ASSUME IInv, UNCHANGED req,
         \A j \in Calls : pc'[j] \in {"begun", "selected"} =>
           pc[j] \in {"begun", "selected"} \/ Op(j) \in {"deduct", "order"}
  PROVE  InTransaction'
BY DEF IInv, InTransaction, Op

LEMMA CalmIInv ==
  ASSUME IInv, NEW k \in Calls, Calm(k)
  PROVE  IInv'
<1>1. TypeOK'
  BY CalmTypeOK DEF IInv
<1>2. LockInv'
  <2>1. TypeOK /\ LockInv /\ UNCHANGED <<req, balance, lock, read>>
    BY CalmFrame DEF IInv
  <2>2. \A j \in Calls : pc'[j] = "selected" => pc[j] = "selected"
    BY CalmFrame, <2>1 DEF TypeOK
  <2>3. QED
    BY <2>1, <2>2 DEF LockInv, Acc, Exists
<1>3. OnTick' /\ OverdraftIsRounding'
  BY CalmFrame, BalancesKept DEF IInv
<1>4. InTransaction'
  <2>1. \A j \in Calls : pc'[j] \in {"begun", "selected"} =>
          pc[j] \in {"begun", "selected"} \/ Op(j) \in {"deduct", "order"}
    BY DEF IInv, TypeOK, Calm, RefuseArgument, RefusePassword, InsertUser, EmailExists, Registered,
           Login, GetBalance, ReportBalance, ShowBalances, CheckAvailable, BeginOrder, NoRow,
           NoSuchUser, Answer, Go
  <2>2. QED
    BY <2>1, CalmFrame, TransactionsKept DEF IInv
<1>5. QED
  BY <1>1, <1>2, <1>3, <1>4 DEF IInv

(* A new row of balances holds nothing, an old one is left alone.          *)
LEMMA InsertBalanceIInv ==
  ASSUME IInv, NEW k \in Calls, InsertBalance(k)
  PROVE  IInv'
<1> DEFINE a == <<Email(k), Head(toInit[k])>>
<1>1. /\ TypeOK /\ LockInv /\ OnTick /\ OverdraftIsRounding
      /\ 0 # None /\ 0 \in -Limit .. Limit
      /\ UNCHANGED <<req, pc, users, lock, read, shown, reply, applied, faults>>
  BY UserAssumption DEF IInv, InsertBalance
<1>2. balance' = [balance EXCEPT ![a] = IF Exists(a) THEN balance[a] ELSE 0]
  BY DEF InsertBalance
<1>3. toInit' \in [Calls -> Seq(Assets)]
  <2>1. toInit[k] \in Seq(Assets) /\ toInit[k] # <<>>
    BY <1>1 DEF TypeOK, InsertBalance
  <2>2. Tail(toInit[k]) \in Seq(Assets)
    BY <2>1
  <2>3. QED
    BY <1>1, <2>2 DEF TypeOK, InsertBalance
<1>4. a \in Account
  <2>1. toInit[k] \in Seq(Assets) /\ toInit[k] # <<>>
    BY <1>1 DEF TypeOK, InsertBalance
  <2>2. Head(toInit[k]) \in Assets
    BY <2>1
  <2>3. QED
    BY <1>1, <2>2, AccountType
<1>5. \A b \in Account : balance'[b] = balance[b] \/ (~Exists(b) /\ balance'[b] = 0)
  <2> HIDE DEF a
  <2>1. QED
    BY <1>1, <1>2, <1>4 DEF TypeOK
<1>6. balance' \in [Account -> (-Limit .. Limit) \cup {NaN, None}]
  <2> HIDE DEF a
  <2>1. QED
    BY <1>1, <1>2, <1>4 DEF TypeOK
<1>7. TypeOK'
  BY <1>1, <1>3, <1>6 DEF TypeOK, Acc
<1>8. LockInv'
  BY <1>1, <1>5, AccountType DEF LockInv, Exists, Acc
<1>9. OnTick' /\ OverdraftIsRounding'
  BY <1>1, <1>5, BalancesKept
<1>10. InTransaction'
  BY <1>1, TransactionsKept
<1>11. QED
  BY <1>7, <1>8, <1>9, <1>10 DEF IInv

(* The locked read.                                                        *)
LEMMA SelectIInv ==
  ASSUME IInv, NEW k \in Calls, SelectForUpdate(k)
  PROVE  IInv'
<1>1. /\ TypeOK /\ LockInv /\ k # None
      /\ UNCHANGED <<req, users, balance, toInit, shown, reply, applied, faults>>
      /\ pc[k] = "begun" /\ pc' = [pc EXCEPT ![k] = "selected"]
      /\ lock[Acc(k)] = None /\ lock' = [lock EXCEPT ![Acc(k)] = k]
      /\ Exists(Acc(k)) /\ read' = [read EXCEPT ![k] = balance[Acc(k)]]
  BY UserAssumption DEF IInv, SelectForUpdate, Go, RowFree
<1>2. Acc(k) \in Account
  BY <1>1, AccountType
<1>3. \A a \in Account : lock'[a] # None => pc'[lock'[a]] = "selected" /\ req'[lock'[a]].account = a
  BY <1>1, <1>2 DEF TypeOK, Acc
<1>4. read' \in [Calls -> (-Limit .. Limit) \cup {NaN, None}]
  BY <1>1, <1>2 DEF TypeOK
<1>5. TypeOK'
  BY <1>1, <1>2, <1>3, <1>4 DEF TypeOK, Acc
<1>6. LockInv'
  <2> SUFFICES ASSUME NEW j \in Calls, pc'[j] = "selected"
               PROVE  /\ lock'[req[j].account] = j
                      /\ balance[req[j].account] # None
                      /\ read'[j] = balance[req[j].account]
    BY <1>1 DEF LockInv, Acc, Exists
  <2>1. CASE j = k
    BY <1>1, <1>2, <2>1 DEF TypeOK, Acc, Exists
  <2>2. CASE j # k
    <3>1. pc[j] = "selected"
      BY <1>1, <2>2 DEF TypeOK
    <3>2. lock[Acc(j)] = j /\ Acc(j) # Acc(k) /\ Acc(j) \in Account /\ j # None
      BY <1>1, <3>1, AccountType, UserAssumption DEF LockInv
    <3>3. QED
      BY <1>1, <2>2, <3>1, <3>2 DEF LockInv, TypeOK, Acc, Exists
  <2>3. QED
    BY <2>1, <2>2
<1>7. OnTick' /\ OverdraftIsRounding'
  BY <1>1, BalancesKept DEF IInv
<1>8. InTransaction'
  BY <1>1, TransactionsKept DEF TypeOK
<1>9. QED
  BY <1>5, <1>6, <1>7, <1>8 DEF IInv

(* A value below zero is explained by the deduction that leaves it, or is  *)
(* no less than what was there.                                            *)
Explained(k, v) ==
  \/ /\ Op(k) = "deduct" /\ Amount(k) # NaN
     /\ \E b \in Decimals : /\ b < Amount(k) /\ Float64[b] = Float64[Amount(k)]
                            /\ v >= Numeric(b - Amount(k))
  \/ Counted(Acc(k)) /\ balance[Acc(k)] <= v

(* A write to a row nobody else holds, at the end of the writer's          *)
(* transaction if it has one.                                              *)
Write(k, v) ==
  /\ v \in (-Limit .. Limit) \cup {NaN}
  /\ v # NaN => Whole(v)
  /\ v # NaN /\ v < 0 => Explained(k, v)
  /\ lock[Acc(k)] \in {None, k}
  /\ balance' = [balance EXCEPT ![Acc(k)] = v]
  /\ lock' = [lock EXCEPT ![Acc(k)] = IF @ = k THEN None ELSE @]
  /\ \E s \in {"report", "done"} : pc' = [pc EXCEPT ![k] = s]
  /\ pc[k] \in {"start", "selected"}
  /\ reply' = reply \/ \E r \in Replies : reply' = [reply EXCEPT ![k] = r]
  /\ applied' = applied \cup {k}
  /\ faults' \in {faults, faults + 1}
  /\ UNCHANGED <<req, users, toInit, read, shown>>

LEMMA WriteIInv ==
  ASSUME IInv, NEW k \in Calls, NEW v, Write(k, v)
  PROVE  IInv'
<1>1. TypeOK /\ LockInv /\ OnTick /\ OverdraftIsRounding /\ k # None /\ Acc(k) \in Account
  BY AccountType, UserAssumption DEF IInv
<1>2. PICK s \in {"report", "done"} : pc' = [pc EXCEPT ![k] = s]
  BY DEF Write
<1>3. balance' \in [Account -> (-Limit .. Limit) \cup {NaN, None}]
  BY <1>1 DEF Write, TypeOK
<1>4. lock' \in [Account -> Calls \cup {None}]
  BY <1>1 DEF Write, TypeOK
<1>5. \A a \in Account : lock'[a] # None => lock[a] = lock'[a] /\ lock[a] # k
  BY <1>1 DEF Write, TypeOK
<1>6. \A a \in Account : lock'[a] # None => pc'[lock'[a]] = "selected" /\ req'[lock'[a]].account = a
  <2> SUFFICES ASSUME NEW a \in Account, lock'[a] # None
               PROVE  pc'[lock[a]] = "selected" /\ req[lock[a]].account = a
    BY <1>5 DEF Write
  <2>1. lock[a] \in Calls /\ lock[a] # k /\ pc[lock[a]] = "selected" /\ Acc(lock[a]) = a
    BY <1>1, <1>5 DEF TypeOK
  <2>2. QED
    BY <1>1, <1>2, <2>1 DEF TypeOK, Acc
<1>7. TypeOK'
  <2>1. /\ pc' \in [Calls -> {"start", "balances", "begun", "selected", "report", "done"}]
        /\ applied' \subseteq Calls
        /\ faults' \in Nat
        /\ reply' \in [Calls -> Replies \cup {None}]
    <3>1. /\ pc \in [Calls -> {"start", "balances", "begun", "selected", "report", "done"}]
          /\ applied \subseteq Calls /\ faults \in Nat
          /\ reply \in [Calls -> Replies \cup {None}]
      BY <1>1 DEF TypeOK
    <3>2. reply' \in [Calls -> Replies \cup {None}]
      BY <3>1 DEF Write
    <3>3. applied' \subseteq Calls /\ faults' \in Nat
      BY <3>1 DEF Write
    <3>4. QED
      BY <1>2, <3>1, <3>2, <3>3
  <2>2. UNCHANGED <<req, users, toInit, read, shown>>
    BY DEF Write
  <2>3. QED
    BY <1>1, <1>3, <1>4, <1>6, <2>1, <2>2 DEF TypeOK, Acc
<1>8. LockInv'
  <2> SUFFICES ASSUME NEW j \in Calls, pc'[j] = "selected"
               PROVE  /\ lock'[req[j].account] = j
                      /\ balance'[req[j].account] # None
                      /\ read[j] = balance'[req[j].account]
    BY DEF LockInv, Acc, Exists, Write
  <2>1. j # k /\ pc[j] = "selected"
    BY <1>1, <1>2 DEF TypeOK
  <2>2. lock[Acc(j)] = j /\ Acc(j) \in Account /\ j # None
    BY <1>1, <2>1, AccountType, UserAssumption DEF LockInv
  <2>3. Acc(j) # Acc(k)
    BY <2>1, <2>2 DEF Write
  <2>4. QED
    BY <1>1, <2>1, <2>2, <2>3 DEF LockInv, Write, TypeOK, Acc, Exists
<1>9. \A a \in Account : balance'[a] = IF a = Acc(k) THEN v ELSE balance[a]
  BY <1>1 DEF Write, TypeOK
<1>10. OnTick'
  BY <1>1, <1>9 DEF OnTick, Counted, Write
<1>11. OverdraftIsRounding'
  <2>1. /\ applied' = applied \cup {k}
        /\ \A j \in Calls : Op(j)' = Op(j) /\ Acc(j)' = Acc(j) /\ Amount(j)' = Amount(j)
        /\ applied \subseteq Calls
    BY <1>1 DEF Write, Op, Acc, Amount, TypeOK
  <2> SUFFICES ASSUME NEW a \in Account, Counted(a)', balance'[a] < 0
               PROVE  \E j \in applied' : \E b \in Decimals :
                        /\ Op(j) = "deduct" /\ Acc(j) = a /\ Amount(j) # NaN
                        /\ b < Amount(j) /\ Float64[b] = Float64[Amount(j)]
                        /\ balance'[a] >= Numeric(b - Amount(j))
    BY <1>1, <2>1 DEF OverdraftIsRounding
  <2>2. ASSUME Counted(a), balance[a] <= balance'[a]
        PROVE  \E j \in applied' : \E b \in Decimals :
                 /\ Op(j) = "deduct" /\ Acc(j) = a /\ Amount(j) # NaN
                 /\ b < Amount(j) /\ Float64[b] = Float64[Amount(j)]
                 /\ balance'[a] >= Numeric(b - Amount(j))
    <3>1. balance[a] \in Int /\ balance'[a] \in Int
      BY <1>1, <1>3, <2>2, UserAssumption DEF TypeOK, Counted
    <3>2. PICK j \in applied, b \in Decimals :
                 /\ Op(j) = "deduct" /\ Acc(j) = a /\ Amount(j) # NaN
                 /\ b < Amount(j) /\ Float64[b] = Float64[Amount(j)]
                 /\ balance[a] >= Numeric(b - Amount(j))
      BY <1>1, <2>2, <3>1 DEF OverdraftIsRounding
    <3>3. Amount(j) \in Int /\ b \in Int
      BY <1>1, <2>1, <3>2, AccountType, UserAssumption
    <3>4. Numeric(b - Amount(j)) \in Int
      BY <3>3, NumericIs
    <3>5. balance'[a] >= Numeric(b - Amount(j))
      BY <2>2, <3>1, <3>2, <3>4
    <3>6. QED
      BY <2>1, <3>2, <3>5
  <2>3. CASE a # Acc(k)
    <3>1. balance'[a] = balance[a] /\ Counted(a) /\ balance[a] \in Int
      BY <1>1, <1>9, <2>3, UserAssumption DEF Counted, TypeOK
    <3>2. QED
      BY <2>2, <3>1
  <2>4. CASE a = Acc(k)
    <3>1. balance'[a] = v /\ v # NaN
      BY <1>9, <2>4 DEF Counted
    <3>2. Explained(k, v)
      BY <3>1 DEF Write
    <3>3. QED
      BY <2>1, <2>2, <2>4, <3>1, <3>2 DEF Explained
  <2>5. QED
    BY <2>3, <2>4
<1>12. InTransaction'
  BY <1>1, <1>2, TransactionsKept DEF TypeOK, Write
<1>13. QED
  BY <1>7, <1>8, <1>10, <1>11, <1>12 DEF IInv

(* A call is about to write its row.                                       *)
Writing(k) == Crediting(k) \/ (pc[k] = "selected" /\ ~Insufficient(k))

(* The value is a number of ticks the column holds, or NaN: it is what the *)
(* change makes of the balance, since the row has been locked since it was *)
(* read.  It is below zero only if the comparison could not tell.          *)
LEMMA Stored ==
  ASSUME IInv, NEW k \in Calls, Writing(k), Fits(k)
  PROVE  LET v == NewAvailable(k) IN
         /\ v = IF Amount(k) = NaN \/ Available(Acc(k)) = NaN THEN NaN
                ELSE Numeric(Available(Acc(k)) + Signed[k])
         /\ v \in (-Limit .. Limit) \cup {NaN}
         /\ v # NaN => Whole(v)
         /\ v # NaN /\ v < 0 => Explained(k, v)
         /\ lock[Acc(k)] \in {None, k}
<1> DEFINE v == NewAvailable(k)
           b == Available(Acc(k))
           A == Amount(k)
<1>1. /\ TypeOK /\ Acc(k) \in Account /\ A \in Decimals \cup {NaN} /\ A \in Int \cup {NaN}
      /\ b \in (-Limit .. Limit) \cup {NaN}
      /\ Limit \in Nat /\ NaN \notin Int /\ -Limit .. Limit \subseteq Decimals
      /\ Decimals \subseteq Int
  <2>1. TypeOK /\ Acc(k) \in Account
    BY AccountType DEF IInv
  <2>2. b \in (-Limit .. Limit) \cup {NaN}
    BY <2>1, UserAssumption DEF TypeOK, Available, Exists
  <2>3. QED
    BY <2>1, <2>2, AccountType, UserAssumption
<1>2. lock[Acc(k)] \in {None, k}
  BY DEF Writing, Crediting, RowFree, IInv, LockInv
<1>3. pc[k] = "selected" => /\ read[k] = b /\ balance[Acc(k)] = b /\ Exists(Acc(k))
  BY DEF IInv, LockInv, Available
<1>4. Op(k) = "credit" \/ (pc[k] = "selected" /\ Op(k) \in {"deduct", "order"})
  BY DEF Writing, Crediting, IInv, InTransaction
<1>5. Op(k) = "credit" /\ A # NaN => A > 0
  BY DEF Writing, Crediting, Sound, IInv, InTransaction
<1> HIDE DEF b, A
<1>6. v = IF A = NaN \/ b = NaN THEN NaN
          ELSE Numeric(b + Signed[k])
  <2>1. Numeric(NaN) = NaN
    BY DEF Numeric
  <2>2. CASE Op(k) = "credit"
    <3>1. v = Numeric(Plus(b, A))
      BY <2>2 DEF NewAvailable, b, A
    <3>2. A # NaN => Signed[k] = A
      BY <2>2 DEF Signed, A
    <3>3. QED
      BY <2>1, <3>1, <3>2 DEF Plus
  <2>3. CASE Op(k) # "credit"
    <3>1. v = Numeric(Minus(b, A))
      BY <1>3, <1>4, <2>3 DEF NewAvailable, b, A
    <3>2. A # NaN => Signed[k] = -A
      BY <2>3 DEF Signed, A
    <3>3. A # NaN /\ b # NaN => A \in Int /\ b \in Int
      BY <1>1
    <3>4. A # NaN /\ b # NaN => b - A = b + Signed[k]
      BY <3>2, <3>3
    <3>5. QED
      BY <2>1, <3>1, <3>4 DEF Minus
  <2>4. QED
    BY <2>2, <2>3
<1>7. CASE A = NaN \/ b = NaN
  BY <1>2, <1>6, <1>7 DEF A, b
<1>8. CASE A # NaN /\ b # NaN
  <2>1. A \in Int /\ b \in Int /\ b \in Decimals /\ A \in Decimals /\ Signed[k] \in Int
    BY <1>1, <1>8 DEF Signed, A
  <2>2. v = Numeric(b + Signed[k]) /\ v \in Int /\ Whole(v) /\ v # NaN
    <3>1. v = Numeric(b + Signed[k]) /\ b + Signed[k] \in Int
      BY <1>6, <1>8, <2>1
    <3>2. v \in Int /\ Whole(v)
      BY <3>1, NumericIs
    <3>3. QED
      BY <1>1, <3>1, <3>2
  <2>3. v \in -Limit .. Limit
    <3>1. -Limit < v /\ v < Limit
      BY <2>2 DEF Fits
    <3>2. QED
      BY <1>1, <2>2, <3>1
  <2>4. ASSUME v < 0 PROVE Explained(k, v)
    <3>1. CASE Op(k) = "credit"
      <4>1. Signed[k] = A /\ A > 0 /\ Tick \in Nat
        BY <1>5, <1>8, <3>1, UserAssumption DEF Signed, A
      <4>2. -Tick <= 2 * (v - (b + A))
        BY <2>1, <2>2, <4>1, NumericIs
      <4>3. v > b - Tick
        BY <2>1, <2>2, <4>1, <4>2
      <4>4. Whole(b) /\ (b = 0 \/ (Counted(Acc(k)) /\ balance[Acc(k)] = b))
        BY <1>1, <1>8, WholeZero DEF b, Available, Exists, Counted, IInv, OnTick
      <4>5. v >= b
        BY <2>2, <4>3, <4>4, WholeGap
      <4>6. b # 0
        BY <2>1, <2>2, <2>4, <4>5
      <4>7. QED
        BY <4>4, <4>5, <4>6 DEF Explained
    <3>2. CASE Op(k) # "credit"
      <4>1. Signed[k] = -A /\ pc[k] = "selected" /\ ~Insufficient(k)
        BY <1>4, <1>8, <3>2 DEF Signed, A, Writing, Crediting
      <4>2. v = Numeric(b - A)
        <5>1. b - A = b + Signed[k]
          BY <2>1, <4>1
        <5>2. QED
          BY <2>2, <5>1
      <4>3. b < A
        <5>1. b - A \in Int /\ (b - A >= 0 => v >= 0)
          BY <2>1, <4>2, NumericIs
        <5>2. QED
          BY <2>1, <2>2, <2>4, <5>1
      <4>4. Op(k) # "order"
        BY <1>3, <1>8, <4>1, <4>3, <2>1 DEF Insufficient, A
      <4>5. Op(k) = "deduct" /\ ~FloatLess(b, A)
        BY <1>3, <1>4, <3>2, <4>1, <4>4 DEF Insufficient, A
      <4>6. Float64[b] = Float64[A]
        <5>1. Float64[b] <= Float64[A] /\ Float64[b] \in Int /\ Float64[A] \in Int
          BY <2>1, <4>3, UserAssumption
        <5>2. ~(Float64[b] < Float64[A])
          BY <1>8, <4>5 DEF FloatLess
        <5>3. QED
          BY <5>1, <5>2
      <4>7. v >= Numeric(b - A)
        BY <2>2, <4>2
      <4>8. QED
        BY <1>8, <2>1, <4>3, <4>5, <4>6, <4>7 DEF Explained, A
    <3>3. QED
      BY <3>1, <3>2
  <2>5. QED
    BY <1>2, <1>6, <2>2, <2>3, <2>4 DEF A, b
<1>9. QED
  BY <1>7, <1>8

LEMMA CommitIInv ==
  ASSUME IInv, NEW k \in Calls, Commit(k)
  PROVE  IInv' /\ Write(k, NewAvailable(k))
<1>1. pc[k] = "selected" /\ Writing(k) /\ Fits(k)
  BY DEF Commit, Answer, Go, Writing
<1>2. Write(k, NewAvailable(k))
  BY <1>1, Stored DEF Commit, Answer, Go, Write, Replies
<1>3. QED
  BY <1>2, WriteIInv

LEMMA CreditIInv ==
  ASSUME IInv, NEW k \in Calls, Credit(k)
  PROVE  IInv' /\ Write(k, NewAvailable(k))
<1>1. /\ TypeOK /\ Acc(k) \in Account /\ k # None
      /\ lock[Acc(k)] = None /\ Writing(k) /\ Fits(k) /\ pc[k] = "start"
  BY AccountType, UserAssumption DEF IInv, Credit, Crediting, RowFree, Writing
<1>2. lock' = [lock EXCEPT ![Acc(k)] = IF @ = k THEN None ELSE @]
  BY <1>1 DEF Credit, TypeOK
<1>3. Write(k, NewAvailable(k))
  BY <1>1, <1>2, Stored DEF Credit, Go, Write, Replies
<1>4. QED
  BY <1>3, WriteIInv

LEMMA AnswerLostIInv ==
  ASSUME IInv, NEW k \in Calls, AnswerLost(k)
  PROVE  IInv' /\ Write(k, NewAvailable(k))
<1>1. Writing(k) /\ Fits(k) /\ pc[k] \in {"start", "selected"}
  BY DEF AnswerLost, Writing, Crediting
<1>2. Write(k, NewAvailable(k))
  BY <1>1, Stored DEF AnswerLost, Answer, Go, Write, Replies
<1>3. QED
  BY <1>2, WriteIInv

(* A call that ends gives its row back as it found it.                     *)
Release(k) ==
  /\ \A a \in Account : lock'[a] = IF lock[a] = k THEN None ELSE lock[a]
  /\ lock' \in [Account -> Calls \cup {None}]
  /\ pc' = [pc EXCEPT ![k] = "done"]
  /\ reply' = [reply EXCEPT ![k] = "Internal"]
  /\ faults' \in {faults, faults + 1}
  /\ UNCHANGED <<req, users, balance, toInit, read, shown, applied>>

LEMMA ReleaseIInv ==
  ASSUME IInv, NEW k \in Calls, Release(k)
  PROVE  IInv'
<1>1. TypeOK /\ LockInv /\ k # None
  BY UserAssumption DEF IInv
<1>2. \A a \in Account : lock'[a] # None => pc'[lock'[a]] = "selected" /\ req'[lock'[a]].account = a
  BY <1>1 DEF Release, TypeOK, Acc
<1>3. TypeOK'
  BY <1>1, <1>2 DEF Release, TypeOK, Acc, Replies
<1>4. LockInv'
  <2> SUFFICES ASSUME NEW j \in Calls, pc'[j] = "selected"
               PROVE  /\ lock'[req[j].account] = j
                      /\ balance[req[j].account] # None
                      /\ read[j] = balance[req[j].account]
    BY DEF LockInv, Acc, Exists, Release
  <2>1. j # k /\ pc[j] = "selected"
    BY <1>1 DEF TypeOK, Release
  <2>2. QED
    BY <1>1, <2>1, AccountType DEF LockInv, Release, Acc, Exists
<1>5. OnTick' /\ OverdraftIsRounding'
  BY BalancesKept DEF IInv, Release
<1>6. InTransaction'
  BY <1>1, TransactionsKept DEF TypeOK, Release
<1>7. QED
  BY <1>3, <1>4, <1>5, <1>6 DEF IInv

LEMMA RefuseDeductionIInv ==
  ASSUME IInv, NEW k \in Calls, RefuseDeduction(k)
  PROVE  IInv'
<1>1. /\ TypeOK /\ Acc(k) \in Account /\ k # None
      /\ lock[Acc(k)] = k /\ lock' = [lock EXCEPT ![Acc(k)] = None]
  BY AccountType, UserAssumption DEF IInv, LockInv, RefuseDeduction, Answer, Go
<1>2. \A a \in Account : lock[a] = k => a = Acc(k)
  BY <1>1, UserAssumption DEF TypeOK
<1>3. Release(k)
  BY <1>1, <1>2 DEF RefuseDeduction, Answer, Go, Release, TypeOK
<1>4. QED
  BY <1>3, ReleaseIInv

LEMMA FailIInv ==
  ASSUME IInv, NEW k \in Calls, Fail(k)
  PROVE  IInv'
<1>1. Release(k)
  BY DEF IInv, TypeOK, Fail, Answer, Go, Release
<1>2. QED
  BY <1>1, ReleaseIInv

LEMMA OverflowReleases ==
  ASSUME IInv, NEW k \in Calls, Overflow(k)
  PROVE  Release(k)
<1>1. TypeOK /\ Acc(k) \in Account /\ k # None
  BY AccountType, UserAssumption DEF IInv
<1>2. \A a \in Account : lock[a] = k => a = Acc(k)
  BY <1>1 DEF TypeOK
<1>3. QED
  BY <1>1, <1>2 DEF Overflow, Answer, Go, Release, TypeOK

LEMMA StepIInv == IInv /\ [Next]_vars => IInv'
<1> SUFFICES ASSUME IInv, [Next]_vars PROVE IInv'
  OBVIOUS
<1>1. ASSUME NEW k \in Calls,
             \/ RefuseArgument(k) \/ Register(k) \/ Login(k) \/ GetBalance(k) \/ ReportBalance(k)
             \/ Deduct(k) \/ Credit(k) \/ NoSuchUser(k) \/ Overflow(k)
             \/ Fail(k) \/ AnswerLost(k)
      PROVE  IInv'
  <2>1. \/ Calm(k) \/ InsertBalance(k) \/ SelectForUpdate(k) \/ RefuseDeduction(k)
        \/ Commit(k) \/ Credit(k) \/ Overflow(k) \/ Fail(k) \/ AnswerLost(k)
    BY <1>1 DEF Calm, Register, Deduct
  <2>2. QED
    BY <2>1, CalmIInv, InsertBalanceIInv, SelectIInv, RefuseDeductionIInv, CommitIInv,
       CreditIInv, FailIInv, AnswerLostIInv, OverflowReleases, ReleaseIInv
<1>2. CASE UNCHANGED vars
  <2>1. /\ UNCHANGED <<req, pc, users, balance, lock, toInit, read, shown, reply, applied, faults>>
    BY <1>2 DEF vars
  <2>2. TypeOK' /\ LockInv'
    BY <2>1 DEF IInv, TypeOK, LockInv, Acc, Exists
  <2>3. OnTick' /\ OverdraftIsRounding' /\ InTransaction'
    BY <2>1, BalancesKept, TransactionsKept DEF IInv
  <2>4. QED
    BY <2>2, <2>3 DEF IInv
<1>3. QED
  BY <1>1, <1>2 DEF Next, Done

LEMMA Invariance == Spec => []IInv
BY InitIInv, StepIInv, PTL DEF Spec
-------------------------------------------------------------------------------
(* The variables keep their types, and only a call in a transaction holds  *)
(* a row.                                                                  *)
THEOREM TypeCorrect == Spec => []TypeOK
<1>1. IInv => TypeOK
  BY DEF IInv
<1>2. QED
  BY <1>1, Invariance, PTL

(* However many deductions, deposits, orders and registrations meet on a   *)
(* row, it falls below zero only by what float64 does not tell apart: the  *)
(* check under FOR UPDATE is what makes the one before it harmless.        *)
THEOREM OverdraftsExplained == Spec => []OverdraftIsRounding
<1>1. IInv => OverdraftIsRounding
  BY DEF IInv
<1>2. QED
  BY <1>1, Invariance, PTL
-------------------------------------------------------------------------------
(* The books *)

(* The assets whose rows registration k has yet to insert.                 *)
Pending(k) == {toInit[k][i] : i \in DOMAIN toInit[k]}

(* What holds of one call, as far as its reply depends on it.              *)
Truthful(k) ==
  /\ reply[k] = "OK" =>
       CASE Op(k) = "register" -> users[Email(k)] = k /\ \A s \in Assets : Exists(<<Email(k), s>>)
         [] Op(k) = "login" -> /\ users[Email(k)] # None
                               /\ Password(users[Email(k)]) = Password(k)
         [] Op(k) = "balance" -> ShownCounts(k)
         [] Op(k) = "order" -> k \in applied
         [] OTHER -> k \in applied /\ ShownCounts(k)
  /\ reply[k] \in Replies \ {"OK", "Internal"} => k \notin applied /\ users[Email(k)] # k

CallInv(k) ==
  /\ reply[k] # None => pc[k] = "done"
  /\ k \in applied => /\ pc[k] \in {"report", "done"}
                      /\ reply[k] \in {None, "OK", "Internal"}
                      /\ Op(k) \in {"deduct", "credit", "order"}
  /\ pc[k] = "report" => k \in applied /\ Op(k) # "order"
  /\ pc[k] \in {"begun", "selected"} => Op(k) \in {"deduct", "order"}
  /\ pc[k] = "balances" =>
       /\ Op(k) = "register" /\ users[Email(k)] = k
       /\ \A s \in Assets : Exists(<<Email(k), s>>) \/ s \in Pending(k)
  /\ users[Email(k)] = k => /\ Op(k) = "register" /\ pc[k] \in {"balances", "done"}
                            /\ reply[k] \in {None, "OK", "Internal"}
  /\ Truthful(k)

(* Every step but an AnswerLost or a Commit leaves applied alone; any step *)
(* of a call leaves the others as they were.                               *)
Own(k) ==
  /\ UNCHANGED req
  /\ \A j \in Calls \ {k} :
       /\ pc'[j] = pc[j] /\ reply'[j] = reply[j] /\ shown'[j] = shown[j] /\ toInit'[j] = toInit[j]
       /\ j \in applied' <=> j \in applied
       /\ \A e \in Emails : users'[e] = j <=> users[e] = j
  /\ \A e \in Emails : users[e] # None => users'[e] = users[e]
  /\ applied \subseteq applied'
  /\ \A a \in Account : Exists(a) => Exists(a)'

LEMMA SignedType ==
  ASSUME TypeOK
  PROVE  \A k \in Calls : Signed[k] \in Int
<1>1. ASSUME NEW k \in Calls PROVE Signed[k] \in Int
  <2>1. Amount(k) \in Int \cup {NaN}
    BY AccountType
  <2>2. QED
    BY <2>1 DEF Signed
<1>2. QED
  BY <1>1

LEMMA SumKept ==
  ASSUME UNCHANGED req
  PROVE  Signed' = Signed /\ \A b, S : Reflects(b, S)' = Reflects(b, S)
<1>1. Signed' = Signed /\ \A k : Amount(k)' = Amount(k)
  BY DEF Signed, Op, Amount
<1>2. QED
  BY <1>1 DEF Sum, OffTick, Reflects

LEMMA OtherCalls ==
  ASSUME TypeOK, NEW k \in Calls, Own(k), NEW j \in Calls, j # k, CallInv(j)
  PROVE  CallInv(j)'
<1>1. /\ pc'[j] = pc[j] /\ reply'[j] = reply[j] /\ shown'[j] = shown[j] /\ toInit'[j] = toInit[j]
      /\ j \in applied' <=> j \in applied
      /\ UNCHANGED req /\ applied \subseteq applied'
      /\ users[Email(j)] # None => users'[Email(j)] = users[Email(j)]
      /\ users'[Email(j)] = j <=> users[Email(j)] = j
      /\ \A s \in Assets : Exists(<<Email(j), s>>) => Exists(<<Email(j), s>>)'
      /\ Email(j)' = Email(j) /\ Acc(j)' = Acc(j) /\ Op(j)' = Op(j) /\ Password(j)' = Password(j)
      /\ users[Email(j)] \in Calls \cup {None} /\ j # None
  <2>1. Email(j) \in Emails /\ \A s \in Assets : <<Email(j), s>> \in Account
    BY AccountType
  <2>2. j # None /\ users[Email(j)] \in Calls \cup {None}
    BY <2>1, Names DEF TypeOK
  <2>3. UNCHANGED req /\ UNCHANGED <<Email(j), Acc(j), Op(j), Password(j)>>
    BY DEF Own, Email, Acc, Op, Password
  <2>4. \A s \in Assets : Exists(<<Email(j), s>>) => Exists(<<Email(j), s>>)'
    BY <2>1, <2>3 DEF Own, Exists
  <2>5. QED
    BY <2>1, <2>2, <2>3, <2>4 DEF Own
<1>2. ShownCounts(j) => ShownCounts(j)'
  <2> SUFFICES ASSUME ShownCounts(j), NEW s \in Assets
               PROVE  \E b \in Decimals \cup {NaN} :
                        /\ Scan(b) = (IF shown[j][s] = None THEN 0 ELSE shown[j][s])
                        /\ \E S \in SUBSET On(<<Email(j), s>>)' :
                             /\ Op(j) # "balance" /\ <<Email(j), s>> = Acc(j) => j \in S
                             /\ Reflects(b, S)'
    BY <1>1 DEF ShownCounts
  <2>1. PICK b \in Decimals \cup {NaN} :
          /\ Scan(b) = (IF shown[j][s] = None THEN 0 ELSE shown[j][s])
          /\ \E S \in SUBSET On(<<Email(j), s>>) :
               /\ Op(j) # "balance" /\ <<Email(j), s>> = Acc(j) => j \in S
               /\ Reflects(b, S)
    BY DEF ShownCounts
  <2>2. On(<<Email(j), s>>) \subseteq On(<<Email(j), s>>)'
    BY <1>1 DEF On, Acc
  <2>3. \A S : Reflects(b, S)' = Reflects(b, S)
    BY <1>1, SumKept
  <2>4. QED
    BY <2>1, <2>2, <2>3
<1>3. Password(users[Email(j)])' = req[users'[Email(j)]].password
  BY <1>1 DEF Password
<1>4. Truthful(j)'
  <2>1. reply[j] \in Replies \ {"OK", "Internal"} => j \notin applied /\ users[Email(j)] # j
    BY DEF CallInv, Truthful
  <2>2. ASSUME reply[j] = "OK"
        PROVE  CASE Op(j) = "register" -> users'[Email(j)] = j /\ \A s \in Assets : Exists(<<Email(j), s>>)'
                 [] Op(j) = "login" -> /\ users'[Email(j)] # None
                                       /\ req[users'[Email(j)]].password = Password(j)
                 [] Op(j) = "balance" -> ShownCounts(j)'
                 [] Op(j) = "order" -> j \in applied'
                 [] OTHER -> j \in applied' /\ ShownCounts(j)'
    BY <1>1, <1>2, <2>2 DEF CallInv, Truthful, Password
  <2>3. QED
    BY <1>1, <1>3, <2>1, <2>2 DEF Truthful
<1>5. pc[j] = "balances" => \A s \in Assets : Exists(<<Email(j), s>>)' \/ s \in Pending(j)'
  BY <1>1 DEF CallInv, Pending
<1>6. QED
  BY <1>1, <1>4, <1>5 DEF CallInv

(* A call that neither registers nor touches a balance.                    *)
LEMMA QuietOwn ==
  ASSUME TypeOK, NEW k \in Calls,
         \E s : pc' = [pc EXCEPT ![k] = s],
         reply' = reply \/ \E r : reply' = [reply EXCEPT ![k] = r],
         shown' = shown \/ \E b : shown' = [shown EXCEPT ![k] = b],
         UNCHANGED <<req, users, balance, toInit, applied>>
  PROVE  Own(k)
<1>1. \A j \in Calls \ {k} : pc'[j] = pc[j] /\ reply'[j] = reply[j] /\ shown'[j] = shown[j]
  BY DEF TypeOK
<1>2. QED
  BY <1>1 DEF Own, Exists

LEMMA InsertUserOwn ==
  ASSUME TypeOK, NEW k \in Calls, InsertUser(k)
  PROVE  Own(k)
<1>1. /\ pc' = [pc EXCEPT ![k] = "balances"]
      /\ users' = [users EXCEPT ![Email(k)] = k] /\ users[Email(k)] = None
      /\ toInit' = [toInit EXCEPT ![k] = DefaultAssets]
      /\ UNCHANGED <<req, balance, lock, read, shown, reply, applied, faults>>
  BY DEF InsertUser, Go
<1>2. \A j \in Calls \ {k} : pc'[j] = pc[j] /\ toInit'[j] = toInit[j]
  BY <1>1 DEF TypeOK
<1>3. \A e \in Emails : users'[e] = IF e = Email(k) THEN k ELSE users[e]
  BY <1>1, AccountType DEF TypeOK
<1>4. QED
  BY <1>1, <1>2, <1>3, UserAssumption DEF Own, Exists

LEMMA InsertBalanceOwn ==
  ASSUME TypeOK, NEW k \in Calls, InsertBalance(k)
  PROVE  Own(k)
<1> DEFINE a == <<Email(k), Head(toInit[k])>>
<1>1. /\ balance' = [balance EXCEPT ![a] = IF Exists(a) THEN balance[a] ELSE 0]
      /\ toInit' = [toInit EXCEPT ![k] = Tail(toInit[k])]
      /\ UNCHANGED <<req, pc, users, lock, read, shown, reply, applied, faults>>
  BY DEF InsertBalance
<1>2. \A j \in Calls \ {k} : toInit'[j] = toInit[j]
  BY <1>1 DEF TypeOK
<1>3. \A b \in Account : Exists(b) => Exists(b)'
  <2> HIDE DEF a
  <2>1. QED
    BY <1>1, UserAssumption DEF Exists, TypeOK
<1>4. QED
  BY <1>1, <1>2, <1>3 DEF Own

LEMMA WriteOwn ==
  ASSUME TypeOK, NEW k \in Calls, NEW v, Write(k, v)
  PROVE  Own(k)
<1>1. \A j \in Calls \ {k} : pc'[j] = pc[j] /\ reply'[j] = reply[j]
  BY DEF Write, TypeOK
<1>2. \A b \in Account : Exists(b) => Exists(b)'
  BY UserAssumption DEF Exists, Write, TypeOK
<1>3. /\ UNCHANGED <<req, users, toInit, shown>> /\ applied' = applied \cup {k}
  BY DEF Write
<1>4. QED
  BY <1>1, <1>2, <1>3 DEF Own
-------------------------------------------------------------------------------
(* The balances are the sums of the changes.                               *)

BooksInv ==
  /\ IsFiniteSet(applied)
  /\ BalanceIsSumOfChanges
  /\ \A k \in Calls : CallInv(k)

LEMMA OnFinite ==
  ASSUME IsFiniteSet(applied), NEW a
  PROVE  IsFiniteSet(On(a))
<1>1. On(a) \subseteq applied
  BY DEF On
<1>2. QED
  BY <1>1, FS_Subset

(* Nothing is committed, and no balance but an empty one appears.          *)
LEMMA SumsKept ==
  ASSUME BooksInv, UNCHANGED <<req, applied>>, \A a \in Account : Available(a)' = Available(a)
  PROVE  IsFiniteSet(applied)' /\ BalanceIsSumOfChanges'
<1>1. \A a \in Account : On(a)' = On(a)
  BY DEF On, Acc
<1>2. \A a \in Account : Reflects(Available(a), On(a))' = Reflects(Available(a), On(a))
  BY <1>1, SumKept DEF Reflects, Sum, OffTick, Signed, Amount, Op
<1>3. QED
  BY <1>2 DEF BooksInv, BalanceIsSumOfChanges

(* One more change, which rounds by half a tick at most, and not at all if *)
(* it is a whole number of ticks and the balance is.                       *)
LEMMA OneMore ==
  ASSUME TypeOK, NEW S \in SUBSET Calls, IsFiniteSet(S), NEW k \in Calls, k \notin S,
         NEW b, b = NaN \/ Whole(b), Reflects(b, S)
  PROVE  Reflects(IF Amount(k) = NaN \/ b = NaN THEN NaN ELSE Numeric(b + Signed[k]), S \cup {k})
<1> DEFINE T == S \cup {k}
           c == IF Amount(k) = NaN \/ b = NaN THEN NaN ELSE Numeric(b + Signed[k])
<1>1. CASE Amount(k) = NaN
  BY <1>1 DEF Reflects
<1>2. CASE Amount(k) # NaN /\ b = NaN
  <2>1. \E j \in S : Amount(j) = NaN
    BY <1>2 DEF Reflects
  <2>2. QED
    BY <1>2, <2>1 DEF Reflects
<1>3. CASE Amount(k) # NaN /\ b # NaN
  <2>1. /\ b \in Int /\ Whole(b) /\ Signed[k] \in Int /\ \A j \in S : Signed[j] \in Int
        /\ Tick \in Nat
    BY <1>3, WholeInt, SignedType, UserAssumption
  <2>2. c = Numeric(b + Signed[k]) /\ b + Signed[k] \in Int
    BY <1>3, <2>1
  <2>3. /\ c \in Int /\ c # NaN
        /\ -Tick <= 2 * (c - (b + Signed[k])) /\ 2 * (c - (b + Signed[k])) <= Tick
    BY <2>2, NumericIs, UserAssumption
  <2>4. /\ \A j \in S : Amount(j) # NaN
        /\ -(Tick * Cardinality(OffTick(S))) <= 2 * (b - Sum(S))
        /\ 2 * (b - Sum(S)) <= Tick * Cardinality(OffTick(S))
    BY <1>3 DEF Reflects
  <2>5. Sum(T) = Sum(S) + Signed[k] /\ Sum(S) \in Int
    BY <2>1, SumAdd, SumType DEF Sum
  <2>6. IsFiniteSet(OffTick(S)) /\ Cardinality(OffTick(S)) \in Nat
    <3>1. OffTick(S) \subseteq S
      BY DEF OffTick
    <3>2. QED
      BY <3>1, FS_Subset, FS_CardinalityType
  <2> HIDE DEF c
  <2>7. /\ -(Tick * Cardinality(OffTick(T))) <= 2 * (c - Sum(T))
        /\ 2 * (c - Sum(T)) <= Tick * Cardinality(OffTick(T))
    <3>1. CASE Signed[k] % Tick = 0
      <4>1. OffTick(T) = OffTick(S)
        BY <3>1 DEF OffTick
      <4>2. c = b + Signed[k]
        BY <2>1, <2>2, <3>1, WholeOf, WholePlus, NumericWhole
      <4>3. c - Sum(T) = b - Sum(S)
        BY <2>1, <2>5, <4>2
      <4>4. QED
        BY <2>4, <4>1, <4>3
    <3>2. CASE Signed[k] % Tick # 0
      <4> DEFINE n == Cardinality(OffTick(S))
      <4>1. OffTick(T) = OffTick(S) \cup {k} /\ k \notin OffTick(S)
        BY <3>2 DEF OffTick
      <4>2. Cardinality(OffTick(T)) = n + 1 /\ n \in Nat
        BY <2>6, <4>1, FS_AddElement
      <4> HIDE DEF n
      <4>3. Tick * (n + 1) = Tick * n + Tick /\ Tick * n \in Int
        BY <2>1, <4>2
      <4>4. 2 * (c - Sum(T)) = 2 * (b - Sum(S)) + 2 * (c - (b + Signed[k]))
        BY <2>1, <2>3, <2>5
      <4>5. -(Tick * n) <= 2 * (b - Sum(S)) /\ 2 * (b - Sum(S)) <= Tick * n
        BY <2>4 DEF n
      <4>6. /\ -(Tick * n + Tick) <= 2 * (c - Sum(T))
            /\ 2 * (c - Sum(T)) <= Tick * n + Tick
        <5> DEFINE u == Tick * n
                   p == 2 * (b - Sum(S))
                   q == 2 * (c - (b + Signed[k]))
                   r == 2 * (c - Sum(T))
        <5>1. u \in Int /\ p \in Int /\ q \in Int /\ r = p + q /\ Tick \in Int
          BY <2>1, <2>3, <2>5, <4>3, <4>4
        <5>2. -u <= p /\ p <= u /\ -Tick <= q /\ q <= Tick
          BY <2>3, <4>5
        <5> HIDE DEF u, p, q, r
        <5>3. -(u + Tick) <= r /\ r <= u + Tick
          BY <5>1, <5>2
        <5>4. QED
          BY <5>3 DEF u, r
      <4>7. QED
        BY <4>2, <4>3, <4>6
    <3>3. QED
      BY <3>1, <3>2
  <2>8. \A j \in T : Amount(j) # NaN
    BY <1>3, <2>4
  <2>9. Reflects(c, T)
    BY <2>3, <2>7, <2>8 DEF Reflects
  <2>10. QED
    BY <2>9 DEF c
<1>4. QED
  BY <1>1, <1>2, <1>3

(* A change is committed that was not before.                              *)
LEMMA SumsWritten ==
  ASSUME IInv, BooksInv, NEW k \in Calls, NEW v, Write(k, v),
         v = IF Amount(k) = NaN \/ Available(Acc(k)) = NaN THEN NaN
             ELSE Numeric(Available(Acc(k)) + Signed[k])
  PROVE  IsFiniteSet(applied)' /\ BalanceIsSumOfChanges'
<1>1. /\ TypeOK /\ Acc(k) \in Account /\ UNCHANGED req /\ applied' = applied \cup {k}
      /\ applied \subseteq Calls
  BY AccountType DEF IInv, Write, TypeOK
<1>2. \A a \in Account : balance'[a] = IF a = Acc(k) THEN v ELSE balance[a]
  BY <1>1 DEF Write, TypeOK
<1>3. k \notin applied
  BY DEF BooksInv, CallInv, Write
<1>4. IsFiniteSet(applied)'
  BY <1>1, FS_AddElement DEF BooksInv
<1>5. ASSUME NEW a \in Account PROVE Reflects(Available(a), On(a))'
  <2>2. CASE a = Acc(k)
    <3>1. On(a)' = On(a) \cup {k} /\ k \notin On(a) /\ On(a) \in SUBSET Calls
      BY <1>1, <1>3, <2>2 DEF On, Acc
    <3>2. IsFiniteSet(On(a)) /\ Reflects(Available(a), On(a))
      BY OnFinite DEF BooksInv, BalanceIsSumOfChanges
    <3>3. Available(a) = NaN \/ Whole(Available(a))
      BY WholeZero DEF Available, Exists, Counted, IInv, OnTick
    <3>4. Reflects(v, On(a) \cup {k})
      BY <1>1, <2>2, <3>1, <3>2, <3>3, OneMore
    <3>5. v # None
      BY UserAssumption DEF Write
    <3>6. Available(a)' = v
      BY <1>2, <2>2, <3>5 DEF Available, Exists
    <3>7. QED
      BY <1>1, <3>1, <3>4, <3>6 DEF Reflects, Sum, OffTick, Signed, Amount, Op
  <2>3. CASE a # Acc(k)
    <3>1. On(a)' = On(a)
      BY <1>1, <2>3 DEF On, Acc
    <3>2. Available(a)' = Available(a)
      BY <1>2, <2>3 DEF Available, Exists
    <3>3. Reflects(Available(a), On(a))
      BY DEF BooksInv, BalanceIsSumOfChanges
    <3>4. QED
      BY <1>1, <3>1, <3>2, <3>3, SumKept DEF Reflects, Sum, OffTick, Signed, Amount, Op
  <2>4. QED
    BY <2>2, <2>3
<1>6. QED
  BY <1>4, <1>5 DEF BalanceIsSumOfChanges
-------------------------------------------------------------------------------
(* What the calls are told *)

(* A call at its start has neither an answer nor a change, nor a row.      *)
LEMMA Fresh ==
  ASSUME TypeOK, NEW k \in Calls, CallInv(k), pc[k] \in {"start", "begun", "selected"}
  PROVE  reply[k] = None /\ k \notin applied /\ users[Email(k)] # k
BY DEF CallInv

(* What a query shows is the sum of the changes committed by then, as a    *)
(* float64.                                                                *)
LEMMA ShowsSums ==
  ASSUME IInv, BooksInv, NEW k \in Calls, NEW here, ShowBalances(k, here),
         Op(k) # "balance" => k \in applied
  PROVE  ShownCounts(k)'
<1>1. /\ TypeOK /\ UNCHANGED <<req, balance, applied>>
      /\ shown' = [shown EXCEPT ![k] = [s \in Assets |-> Scan(balance[<<Email(k), s>>])]]
  BY DEF IInv, ShowBalances, Answer, Go
<1>2. \A s \in Assets : shown'[k][s] = Scan(balance[<<Email(k), s>>])
  BY <1>1 DEF TypeOK
<1>3. UNCHANGED <<Email(k), Acc(k), Op(k)>>
  BY <1>1 DEF Email, Acc, Op
<1> SUFFICES ASSUME NEW s \in Assets
             PROVE  \E b \in Decimals \cup {NaN} :
                      /\ Scan(b) = (IF shown'[k][s] = None THEN 0 ELSE shown'[k][s])
                      /\ \E S \in SUBSET On(<<Email(k), s>>)' :
                           /\ Op(k) # "balance" /\ <<Email(k), s>> = Acc(k) => k \in S
                           /\ Reflects(b, S)'
  BY <1>3 DEF ShownCounts
<1> DEFINE a == <<Email(k), s>>
<1>4. a \in Account
  BY <1>1, AccountType
<1>5. On(a)' = On(a)
  BY <1>1, <1>3 DEF On, Acc
<1>6. Reflects(Available(a), On(a))
  BY <1>4 DEF BooksInv, BalanceIsSumOfChanges
<1>7. \A b, S : Reflects(b, S)' = Reflects(b, S)
  BY <1>1, SumKept
<1>8. Available(a) \in Decimals \cup {NaN}
  <2> HIDE DEF a
  <2>1. balance[a] \in (-Limit .. Limit) \cup {NaN, None} /\ 0 \in -Limit .. Limit
    BY <1>1, <1>4, UserAssumption DEF TypeOK
  <2>2. QED
    BY <2>1, UserAssumption DEF Available, Exists
<1>9. Scan(Available(a)) = (IF shown'[k][s] = None THEN 0 ELSE shown'[k][s])
  <2>1. shown'[k][s] = Scan(balance[a])
    BY <1>2
  <2>2. CASE balance[a] = None
    <3>1. shown'[k][s] = None /\ Available(a) = 0
      BY <2>1, <2>2 DEF Scan, Available, Exists
    <3>2. 0 \in Decimals /\ Float64[0] = 0 /\ 0 \notin {NaN, None}
      BY UserAssumption
    <3>3. QED
      BY <3>1, <3>2 DEF Scan
  <2>3. CASE balance[a] # None
    <3>1. Available(a) = balance[a]
      BY <2>3 DEF Available, Exists
    <3>2. balance[a] \in Decimals \cup {NaN} /\ Scan(balance[a]) # None
      BY <1>8, <3>1, UserAssumption DEF Scan
    <3>3. QED
      BY <2>1, <3>1, <3>2
  <2>4. QED
    BY <2>2, <2>3
<1>10. a = Acc(k) /\ Op(k) # "balance" => k \in On(a)
  BY DEF On
<1>11. QED
  BY <1>5, <1>6, <1>7, <1>8, <1>9, <1>10

(* A call is told that it failed, or refused for a reason that holds.      *)
LEMMA RefusedCall ==
  ASSUME TypeOK, NEW k \in Calls, CallInv(k), NEW r \in Replies \ {"OK"},
         pc' = [pc EXCEPT ![k] = "done"], reply' = [reply EXCEPT ![k] = r],
         UNCHANGED <<req, users, applied>>, pc[k] # "done",
         r = "Internal" \/ (k \notin applied /\ users[Email(k)] # k)
  PROVE  CallInv(k)'
<1>1. /\ pc'[k] = "done" /\ reply'[k] = r /\ UNCHANGED <<Op(k), Email(k), users, applied>>
  BY DEF TypeOK, Op, Email, Acc
<1>2. r # "OK" /\ k # None
  BY UserAssumption
<1>3. k \in applied \/ users[Email(k)] = k => r = "Internal"
  OBVIOUS
<1>4. Truthful(k)'
  BY <1>1, <1>2, <1>3 DEF Truthful
<1>5. QED
  BY <1>1, <1>3, <1>4 DEF CallInv

(* A call goes on, without an answer.                                      *)
LEMMA GoingCall ==
  ASSUME TypeOK, NEW k \in Calls, CallInv(k), NEW s \in {"begun", "selected"},
         pc' = [pc EXCEPT ![k] = s], pc[k] \in {"start", "begun"}, Op(k) \in {"deduct", "order"},
         UNCHANGED <<req, users, reply, applied>>
  PROVE  CallInv(k)'
<1>1. pc'[k] = s /\ UNCHANGED <<Op(k), Email(k), users, applied, reply>>
  BY DEF TypeOK, Op, Email, Acc
<1>2. reply[k] = None /\ k \notin applied /\ users[Email(k)] # k
  BY Fresh
<1>3. reply[k] \notin Replies
  BY <1>2, UserAssumption
<1>4. QED
  BY <1>1, <1>2, <1>3 DEF CallInv, Truthful, Replies

LEMMA InsertUserCall ==
  ASSUME TypeOK, NEW k \in Calls, CallInv(k), InsertUser(k)
  PROVE  CallInv(k)'
<1>1. /\ pc' = [pc EXCEPT ![k] = "balances"] /\ pc[k] = "start" /\ Op(k) = "register"
      /\ users' = [users EXCEPT ![Email(k)] = k]
      /\ toInit' = [toInit EXCEPT ![k] = DefaultAssets]
      /\ UNCHANGED <<req, balance, lock, read, shown, reply, applied, faults>>
  BY DEF InsertUser, Go, Registering
<1>2. /\ pc'[k] = "balances" /\ users'[Email(k)] = k /\ toInit'[k] = DefaultAssets
      /\ UNCHANGED <<Op(k), Email(k)>>
  BY <1>1, AccountType DEF TypeOK, Op, Email, Acc
<1>3. reply[k] = None /\ k \notin applied
  BY <1>1, Fresh
<1>4. Pending(k)' = Assets
  <2>1. DOMAIN DefaultAssets = 1 .. Len(DefaultAssets)
    BY Names
  <2>2. Pending(k)' = {DefaultAssets[i] : i \in DOMAIN DefaultAssets}
    BY <1>2 DEF Pending
  <2>3. QED
    BY <2>1, <2>2 DEF Assets
<1>5. Truthful(k)'
  BY <1>1, <1>3, UserAssumption DEF Truthful, Replies
<1>6. QED
  BY <1>1, <1>2, <1>3, <1>4, <1>5 DEF CallInv

LEMMA InsertBalanceCall ==
  ASSUME TypeOK, NEW k \in Calls, CallInv(k), InsertBalance(k)
  PROVE  CallInv(k)'
<1> DEFINE new == Head(toInit[k])
           a == <<Email(k), new>>
<1>1. /\ pc[k] = "balances" /\ toInit[k] \in Seq(Assets) /\ toInit[k] # <<>>
      /\ balance' = [balance EXCEPT ![a] = IF Exists(a) THEN balance[a] ELSE 0]
      /\ toInit' = [toInit EXCEPT ![k] = Tail(toInit[k])]
      /\ UNCHANGED <<req, pc, users, lock, read, shown, reply, applied, faults>>
  BY DEF InsertBalance, TypeOK
<1>2. toInit'[k] = Tail(toInit[k]) /\ UNCHANGED <<Op(k), Email(k)>>
  BY <1>1 DEF TypeOK, Op, Email, Acc
<1>3. new \in Assets /\ a \in Account
  BY <1>1, AccountType
<1>4. ASSUME NEW i \in DOMAIN toInit[k], toInit[k][i] # new PROVE toInit[k][i] \in Pending(k)'
  <2>1. i # 1 /\ i \in 1 .. Len(toInit[k]) /\ Len(toInit[k]) \in Nat
    BY <1>1, <1>4
  <2>2. i - 1 \in 1 .. Len(Tail(toInit[k])) /\ Tail(toInit[k])[i - 1] = toInit[k][i]
    BY <1>1, <2>1
  <2>3. QED
    BY <1>1, <1>2, <2>2 DEF Pending
<1>5. balance'[a] # None /\ \A b \in Account : Exists(b) => Exists(b)'
  <2> HIDE DEF a
  <2>1. QED
    BY <1>1, <1>3, UserAssumption DEF Exists, TypeOK
<1>6. ASSUME NEW s \in Assets PROVE Exists(<<Email(k), s>>)' \/ s \in Pending(k)'
  <2>1. <<Email(k), s>> \in Account
    BY AccountType
  <2>2. CASE s = new
    BY <1>2, <1>5, <2>2 DEF Exists
  <2>3. CASE s # new /\ s \in Pending(k)
    BY <1>4, <2>3 DEF Pending
  <2>4. CASE Exists(<<Email(k), s>>)
    BY <1>2, <1>5, <2>1, <2>4
  <2>5. QED
    BY <1>1, <2>2, <2>3, <2>4 DEF CallInv
<1>7. reply[k] = None
  BY <1>1 DEF CallInv
<1>8. Truthful(k)'
  BY <1>1, <1>7, UserAssumption DEF Truthful, Replies
<1>9. QED
  BY <1>1, <1>2, <1>6, <1>8 DEF CallInv

LEMMA RegisteredCall ==
  ASSUME TypeOK, NEW k \in Calls, CallInv(k), Registered(k)
  PROVE  CallInv(k)'
<1>1. /\ pc[k] = "balances" /\ pc' = [pc EXCEPT ![k] = "done"] /\ toInit[k] = <<>>
      /\ reply' = [reply EXCEPT ![k] = "OK"]
      /\ UNCHANGED <<req, users, balance, lock, toInit, read, shown, applied, faults>>
  BY DEF Registered, Answer, Go
<1>2. /\ pc'[k] = "done" /\ reply'[k] = "OK" /\ UNCHANGED <<Op(k), Email(k)>>
      /\ \A s \in Assets : Exists(<<Email(k), s>>)' = Exists(<<Email(k), s>>)
  BY <1>1 DEF TypeOK, Op, Email, Acc, Exists
<1>3. Op(k) = "register" /\ users[Email(k)] = k /\ \A s \in Assets : Exists(<<Email(k), s>>)
  BY <1>1 DEF CallInv, Pending
<1>4. k \notin applied
  BY <1>1 DEF CallInv
<1>5. Truthful(k)'
  BY <1>1, <1>2, <1>3 DEF Truthful
<1>6. QED
  BY <1>1, <1>2, <1>3, <1>4, <1>5 DEF CallInv

LEMMA LoginCall ==
  ASSUME TypeOK, NEW k \in Calls, CallInv(k), Login(k)
  PROVE  CallInv(k)'
<1>1. /\ pc[k] = "start" /\ pc' = [pc EXCEPT ![k] = "done"] /\ Op(k) = "login"
      /\ reply' = [reply EXCEPT ![k] = IF Matches(k) THEN "OK" ELSE "Unauthenticated"]
      /\ UNCHANGED <<req, users, balance, lock, toInit, read, shown, applied, faults>>
  BY DEF Login, Answer, Go
<1>2. k \notin applied /\ users[Email(k)] # k
  BY <1>1, Fresh
<1>3. CASE Matches(k)
  <2>1. /\ pc'[k] = "done" /\ reply'[k] = "OK"
        /\ UNCHANGED <<Op(k), Email(k), Password(k), Password(users[Email(k)])>>
    BY <1>1, <1>3 DEF TypeOK, Op, Email, Acc, Password
  <2>2. Truthful(k)'
    BY <1>1, <1>3, <2>1 DEF Truthful, Matches
  <2>3. QED
    BY <1>1, <1>2, <2>1, <2>2 DEF CallInv
<1>4. CASE ~Matches(k)
  BY <1>1, <1>2, <1>4, RefusedCall DEF Replies
<1>5. QED
  BY <1>3, <1>4

LEMMA ShowCall ==
  ASSUME IInv, BooksInv, NEW k \in Calls, GetBalance(k) \/ ReportBalance(k)
  PROVE  CallInv(k)'
<1>1. PICK here \in {"start", "report"} :
         ShowBalances(k, here) /\ (here = "start" => Op(k) = "balance")
  BY DEF GetBalance, ReportBalance
<1>2. /\ TypeOK /\ CallInv(k) /\ pc[k] = here /\ pc' = [pc EXCEPT ![k] = "done"]
      /\ reply' = [reply EXCEPT ![k] = "OK"] /\ UNCHANGED <<req, users, applied>>
  BY <1>1 DEF IInv, BooksInv, ShowBalances, Answer, Go
<1>3. /\ pc'[k] = "done" /\ reply'[k] = "OK" /\ UNCHANGED <<Op(k), Email(k)>>
  BY <1>2 DEF TypeOK, Op, Email, Acc
<1>4. /\ here = "start" => Op(k) = "balance" /\ k \notin applied
      /\ here = "report" => Op(k) \in {"deduct", "credit"} /\ k \in applied
      /\ users[Email(k)] # k
  BY <1>1, <1>2 DEF CallInv
<1>5. ShownCounts(k)'
  BY <1>1, <1>4, ShowsSums
<1>6. Truthful(k)'
  BY <1>1, <1>2, <1>3, <1>4, <1>5 DEF Truthful
<1>7. QED
  BY <1>2, <1>3, <1>4, <1>6 DEF CallInv

(* A change is committed; its answer is on its way, or lost.               *)
LEMMA WriteCall ==
  ASSUME TypeOK, NEW k \in Calls, CallInv(k), NEW v, Write(k, v),
         Op(k) \in {"deduct", "credit", "order"},
         \/ pc' = [pc EXCEPT ![k] = "report"] /\ Op(k) # "order" /\ reply' = reply
         \/ pc' = [pc EXCEPT ![k] = "done"] /\ reply' = [reply EXCEPT ![k] = "Internal"]
         \/ pc' = [pc EXCEPT ![k] = "done"] /\ reply' = [reply EXCEPT ![k] = "OK"] /\ Op(k) = "order"
  PROVE  CallInv(k)'
<1>1. /\ UNCHANGED <<req, users>> /\ applied' = applied \cup {k} /\ pc[k] \in {"start", "selected"}
  BY DEF Write
<1>2. reply[k] = None /\ users[Email(k)] # k /\ None \notin Replies
  BY <1>1, Fresh, UserAssumption
<1>3. UNCHANGED <<Op(k), Email(k)>> /\ k \in applied'
  BY <1>1 DEF Op, Email, Acc
<1>4. \/ pc'[k] = "report" /\ Op(k) # "order" /\ reply'[k] = None
      \/ pc'[k] = "done" /\ reply'[k] = "Internal"
      \/ pc'[k] = "done" /\ reply'[k] = "OK" /\ Op(k) = "order"
  BY <1>2 DEF TypeOK
<1>5. Truthful(k)'
  BY <1>1, <1>2, <1>3, <1>4 DEF Truthful, Replies
<1>6. QED
  BY <1>1, <1>2, <1>3, <1>4, <1>5 DEF CallInv

(* A step of k that keeps the sums and what holds of k keeps the books.    *)
LEMMA BooksKept ==
  ASSUME TypeOK, BooksInv, NEW k \in Calls, Own(k), CallInv(k)',
         IsFiniteSet(applied)', BalanceIsSumOfChanges'
  PROVE  BooksInv'
<1>1. \A j \in Calls : j # k => CallInv(j)'
  BY OtherCalls DEF BooksInv
<1>2. QED
  BY <1>1 DEF BooksInv

(* The steps that neither register a user nor write a balance.             *)
LEMMA PlainBooks ==
  ASSUME IInv, BooksInv, NEW k \in Calls,
         \E s : pc' = [pc EXCEPT ![k] = s],
         reply' = reply \/ \E r : reply' = [reply EXCEPT ![k] = r],
         shown' = shown \/ \E b : shown' = [shown EXCEPT ![k] = b],
         UNCHANGED <<req, users, balance, toInit, applied>>,
         CallInv(k)'
  PROVE  BooksInv'
<1>1. TypeOK /\ Own(k)
  BY QuietOwn DEF IInv
<1>2. \A a \in Account : Available(a)' = Available(a)
  BY DEF Available, Exists
<1>3. IsFiniteSet(applied)' /\ BalanceIsSumOfChanges'
  BY <1>2, SumsKept
<1>4. QED
  BY <1>1, <1>3, BooksKept

(* The steps that refuse a call.                                           *)
Refuses(k) ==
  \/ RefuseArgument(k) \/ RefusePassword(k) \/ EmailExists(k) \/ NoRow(k) \/ NoSuchUser(k)
  \/ RefuseDeduction(k) \/ Overflow(k) \/ Fail(k)

LEMMA RefusesBooks ==
  ASSUME IInv, BooksInv, NEW k \in Calls, Refuses(k)
  PROVE  BooksInv'
<1>1. TypeOK /\ CallInv(k)
  BY DEF IInv, BooksInv
<1>2. PICK r \in Replies \ {"OK"} :
        /\ pc' = [pc EXCEPT ![k] = "done"] /\ reply' = [reply EXCEPT ![k] = r]
        /\ pc[k] # "done" /\ (r = "Internal" \/ pc[k] = "start")
        /\ UNCHANGED <<req, users, balance, toInit, applied, shown>>
  BY DEF Refuses, RefuseArgument, RefusePassword, EmailExists, NoRow, NoSuchUser,
         RefuseDeduction, Overflow, Crediting, Fail, Answer, Go, Replies
<1>3. r = "Internal" \/ (k \notin applied /\ users[Email(k)] # k)
  <2>1. CASE pc[k] = "start"
    BY <1>1, <2>1, Fresh
  <2>2. QED
    BY <1>2, <2>1
<1>4. CallInv(k)'
  BY <1>1, <1>2, <1>3, RefusedCall
<1>5. QED
  BY <1>2, <1>4, PlainBooks

LEMMA GoesOnBooks ==
  ASSUME IInv, BooksInv, NEW k \in Calls, CheckAvailable(k) \/ BeginOrder(k) \/ SelectForUpdate(k)
  PROVE  BooksInv'
<1>1. TypeOK /\ CallInv(k)
  BY DEF IInv, BooksInv
<1>2. UNCHANGED <<req, users, balance, toInit, applied, shown>>
  BY DEF CheckAvailable, BeginOrder, SelectForUpdate, Answer, Go
<1>3. CASE reply' = [reply EXCEPT ![k] = "FailedPrecondition"]
           /\ pc' = [pc EXCEPT ![k] = "done"] /\ pc[k] = "start"
  <2>1. k \notin applied /\ users[Email(k)] # k
    BY <1>1, <1>3, Fresh
  <2>2. CallInv(k)'
    BY <1>1, <1>2, <1>3, <2>1, RefusedCall DEF Replies
  <2>3. QED
    BY <1>2, <1>3, <2>2, PlainBooks
<1>4. ASSUME NEW s \in {"begun", "selected"}, pc' = [pc EXCEPT ![k] = s], reply' = reply,
             pc[k] \in {"start", "begun"}, Op(k) \in {"deduct", "order"}
      PROVE  BooksInv'
  <2>1. CallInv(k)'
    BY <1>1, <1>2, <1>4, GoingCall
  <2>2. QED
    BY <1>2, <1>4, <2>1, PlainBooks
<1>5. SelectForUpdate(k) => Op(k) \in {"deduct", "order"}
  BY <1>1 DEF SelectForUpdate, Go, CallInv
<1>6. \/ /\ reply' = [reply EXCEPT ![k] = "FailedPrecondition"]
         /\ pc' = [pc EXCEPT ![k] = "done"] /\ pc[k] = "start"
      \/ \E s \in {"begun", "selected"} :
           /\ pc' = [pc EXCEPT ![k] = s] /\ reply' = reply
           /\ pc[k] \in {"start", "begun"} /\ Op(k) \in {"deduct", "order"}
  BY <1>5 DEF CheckAvailable, BeginOrder, SelectForUpdate, Answer, Go
<1>7. QED
  BY <1>3, <1>4, <1>6

LEMMA AnswersBooks ==
  ASSUME IInv, BooksInv, NEW k \in Calls,
         Login(k) \/ Registered(k) \/ GetBalance(k) \/ ReportBalance(k)
  PROVE  BooksInv'
<1>1. TypeOK /\ CallInv(k)
  BY DEF IInv, BooksInv
<1>2. CallInv(k)'
  BY <1>1, LoginCall, RegisteredCall, ShowCall
<1>3. /\ pc' = [pc EXCEPT ![k] = "done"] /\ \E r : reply' = [reply EXCEPT ![k] = r]
      /\ shown' = shown \/ \E b : shown' = [shown EXCEPT ![k] = b]
      /\ UNCHANGED <<req, users, balance, toInit, applied>>
  BY DEF Login, Registered, GetBalance, ReportBalance, ShowBalances, Answer, Go
<1>4. QED
  BY <1>2, <1>3, PlainBooks

LEMMA RegisterBooks ==
  ASSUME IInv, BooksInv, NEW k \in Calls, InsertUser(k) \/ InsertBalance(k)
  PROVE  BooksInv'
<1>1. TypeOK /\ CallInv(k)
  BY DEF IInv, BooksInv
<1>2. CallInv(k)' /\ Own(k)
  BY <1>1, InsertUserCall, InsertBalanceCall, InsertUserOwn, InsertBalanceOwn
<1>3. UNCHANGED <<req, applied>>
  BY DEF InsertUser, InsertBalance, Go
<1>4. \A a \in Account : Available(a)' = Available(a)
  <2>1. CASE InsertUser(k)
    BY <2>1 DEF InsertUser, Available, Exists
  <2>2. CASE InsertBalance(k)
    <3> DEFINE b == <<Email(k), Head(toInit[k])>>
    <3>1. balance' = [balance EXCEPT ![b] = IF Exists(b) THEN balance[b] ELSE 0]
      BY <2>2 DEF InsertBalance
    <3> HIDE DEF b
    <3>2. ASSUME NEW a \in Account
          PROVE  balance'[a] = balance[a] \/ (balance[a] = None /\ balance'[a] = 0)
      BY <1>1, <3>1 DEF TypeOK, Exists
    <3>3. QED
      BY <3>2, UserAssumption DEF Available, Exists
  <2>3. QED
    BY <2>1, <2>2
<1>5. IsFiniteSet(applied)' /\ BalanceIsSumOfChanges'
  BY <1>3, <1>4, SumsKept
<1>6. QED
  BY <1>1, <1>2, <1>5, BooksKept

LEMMA WriteBooks ==
  ASSUME IInv, BooksInv, NEW k \in Calls, Commit(k) \/ Credit(k) \/ AnswerLost(k)
  PROVE  BooksInv'
<1> DEFINE v == NewAvailable(k)
<1>1. /\ TypeOK /\ CallInv(k) /\ Writing(k) /\ Fits(k)
  BY DEF IInv, BooksInv, Writing, Commit, Credit, Crediting, AnswerLost, Answer, Go
<1>2. Write(k, v)
  BY CommitIInv, CreditIInv, AnswerLostIInv
<1>3. v = IF Amount(k) = NaN \/ Available(Acc(k)) = NaN THEN NaN
          ELSE Numeric(Available(Acc(k)) + Signed[k])
  BY <1>1, Stored
<1>4. Op(k) \in {"deduct", "credit", "order"} /\ (Op(k) = "order" => pc[k] = "selected")
  BY <1>1 DEF Writing, Crediting, CallInv
<1>5. \/ pc' = [pc EXCEPT ![k] = "report"] /\ Op(k) # "order" /\ reply' = reply
      \/ pc' = [pc EXCEPT ![k] = "done"] /\ reply' = [reply EXCEPT ![k] = "Internal"]
      \/ pc' = [pc EXCEPT ![k] = "done"] /\ reply' = [reply EXCEPT ![k] = "OK"] /\ Op(k) = "order"
  BY DEF Commit, Credit, Crediting, AnswerLost, Answer, Go
<1> HIDE DEF v
<1>6. Own(k) /\ CallInv(k)'
  BY <1>1, <1>2, <1>4, <1>5, WriteOwn, WriteCall
<1>7. IsFiniteSet(applied)' /\ BalanceIsSumOfChanges'
  BY <1>2, <1>3, SumsWritten
<1>8. QED
  BY <1>1, <1>6, <1>7, BooksKept

LEMMA InitBooks == Init => BooksInv
<1> SUFFICES ASSUME Init PROVE BooksInv
  OBVIOUS
<1>1. TypeOK
  BY InitIInv DEF IInv
<1>2. applied = {} /\ IsFiniteSet(applied)
  BY FS_EmptySet DEF Init
<1>3. ASSUME NEW a \in Account PROVE Reflects(Available(a), On(a))
  <2>1. Available(a) = 0
    BY DEF Init, Available, Exists
  <2>2. On(a) = {}
    BY <1>2 DEF On
  <2>3. Sum({}) = 0 /\ OffTick({}) = {}
    BY SumEmpty DEF Sum, OffTick
  <2>4. Cardinality({}) = 0 /\ Tick \in Nat /\ 0 # NaN
    BY FS_EmptySet, UserAssumption
  <2>5. QED
    BY <2>1, <2>2, <2>3, <2>4 DEF Reflects
<1>4. ASSUME NEW k \in Calls PROVE CallInv(k)
  <2>1. /\ pc[k] = "start" /\ reply[k] = None /\ users[Email(k)] = None
        /\ None \notin Replies /\ k # None
    BY <1>1, AccountType, UserAssumption DEF Init
  <2>2. Truthful(k)
    BY <1>2, <2>1 DEF Truthful, Replies
  <2>3. QED
    BY <1>2, <2>1, <2>2 DEF CallInv
<1>5. QED
  BY <1>2, <1>3, <1>4 DEF BooksInv, BalanceIsSumOfChanges

LEMMA StepBooks == IInv /\ BooksInv /\ [Next]_vars => BooksInv'
<1> SUFFICES ASSUME IInv, BooksInv, [Next]_vars PROVE BooksInv'
  OBVIOUS
<1>1. ASSUME NEW k \in Calls,
             \/ RefuseArgument(k) \/ Register(k) \/ Login(k) \/ GetBalance(k) \/ ReportBalance(k)
             \/ Deduct(k) \/ Credit(k) \/ NoSuchUser(k) \/ Overflow(k)
             \/ Fail(k) \/ AnswerLost(k)
      PROVE  BooksInv'
  <2>1. \/ Refuses(k)
        \/ CheckAvailable(k) \/ BeginOrder(k) \/ SelectForUpdate(k)
        \/ Login(k) \/ Registered(k) \/ GetBalance(k) \/ ReportBalance(k)
        \/ InsertUser(k) \/ InsertBalance(k)
        \/ Commit(k) \/ Credit(k) \/ AnswerLost(k)
    BY <1>1 DEF Refuses, Register, Deduct
  <2>2. QED
    BY <2>1, RefusesBooks, GoesOnBooks, AnswersBooks, RegisterBooks, WriteBooks
<1>2. CASE UNCHANGED vars
  <2>1. /\ UNCHANGED <<req, pc, users, balance, toInit, shown, reply, applied>> /\ TypeOK
    BY <1>2 DEF vars, IInv
  <2>2. \A a \in Account : Available(a)' = Available(a)
    BY <2>1 DEF Available, Exists
  <2>3. IsFiniteSet(applied)' /\ BalanceIsSumOfChanges'
    BY <2>1, <2>2, SumsKept
  <2>4. \A a : On(a)' = On(a) /\ \A b, S : Reflects(b, S)' = Reflects(b, S)
    BY <2>1, SumKept DEF On, Acc
  <2>5. ASSUME NEW k \in Calls PROVE ShownCounts(k)' <=> ShownCounts(k)
    <3>1. UNCHANGED <<Op(k), Email(k), Acc(k)>>
      BY <2>1 DEF Op, Email, Acc
    <3>2. QED
      BY <2>1, <2>4, <3>1 DEF ShownCounts, On
  <2>6. ASSUME NEW k \in Calls PROVE CallInv(k)'
    BY <2>1, <2>5 DEF BooksInv, CallInv, Truthful, Pending, Op, Email, Acc, Password, Exists
  <2>7. QED
    BY <2>3, <2>6 DEF BooksInv
<1>3. QED
  BY <1>1, <1>2 DEF Next, Done

LEMMA BooksInvariance == Spec => [](IInv /\ BooksInv)
<1>1. Init => IInv /\ BooksInv
  BY InitIInv, InitBooks
<1>2. (IInv /\ BooksInv) /\ [Next]_vars => (IInv /\ BooksInv)'
  BY StepIInv, StepBooks
<1>3. QED
  BY <1>1, <1>2, PTL DEF Spec

(* No deposit, deduction or order is lost or counted twice, whichever      *)
(* service writes the row and whatever fails, for any calls: a balance is  *)
(* their sum, within half a tick for each amount the column rounds.        *)
THEOREM SumsOfChanges == Spec => []BalanceIsSumOfChanges
<1>1. BooksInv => BalanceIsSumOfChanges
  BY DEF BooksInv
<1>2. QED
  BY <1>1, BooksInvariance, PTL

(* What a caller is told is so and stays so; the balance it is shown is a  *)
(* float64 of a sum of committed changes, its own among them.              *)
THEOREM TruthfulReplies == Spec => []RepliesTruthful
<1>1. BooksInv => RepliesTruthful
  BY DEF BooksInv, CallInv, Truthful, RepliesTruthful
<1>2. QED
  BY <1>1, BooksInvariance, PTL
================================================================================
