--------------------------- MODULE OutboxRelayProofs ---------------------------
(***************************************************************************)
(* Proofs about the outbox relay, for any messages, partitions and bounds. *)
(***************************************************************************)
EXTENDS OutboxRelay, FiniteSetTheorems, TLAPS

(* Between Publish and the update, current is the message just handled;    *)
(* if Publish succeeded it is in the topic.                                *)
CurrentInv ==
  /\ relay \in Marks <=> current \in Messages
  /\ relay = "markProcessed" => Published(current)

RInv == TypeOK /\ CurrentInv /\ ProcessedWasPublished

(* Nothing is ever removed from the topic.                                 *)
LEMMA WriteKeeps ==
  ASSUME TypeOK, NEW m \in Messages, NEW copies \in {<<m>>, <<m, m>>}, Write(m, copies)
  PROVE  /\ topic' \in [Partitions -> Seq(Messages)]
         /\ \A n \in Messages : Published(n) => Published(n)'
         /\ Published(m)'
<1>0. copies \in Seq(Messages) /\ Len(copies) >= 1 /\ copies[1] = m
  <2>1. CASE copies = <<m>>
    BY <2>1
  <2>2. CASE copies = <<m, m>>
    BY <2>2
  <2>3. QED
    BY <2>1, <2>2
<1>1. PICK q \in Partitions : topic' = [topic EXCEPT ![q] = @ \o copies]
  BY DEF Write
<1>2. topic[q] \in Seq(Messages) /\ topic'[q] = topic[q] \o copies
  BY <1>1 DEF TypeOK
<1>3. topic' \in [Partitions -> Seq(Messages)]
  BY <1>0, <1>1, <1>2 DEF TypeOK
<1>4. ASSUME NEW n \in Messages, Published(n) PROVE Published(n)'
  <2>1. PICK p \in Partitions : \E i \in DOMAIN topic[p] : topic[p][i] = n
    BY <1>4 DEF Published
  <2>2. CASE p = q
    <3>1. PICK i \in DOMAIN topic[q] : topic[q][i] = n
      BY <2>1, <2>2
    <3>2. i \in DOMAIN topic'[q] /\ topic'[q][i] = n
      BY <1>0, <1>2, <3>1
    <3>3. QED
      BY <3>2 DEF Published
  <2>3. CASE p # q
    BY <1>1, <2>1, <2>3 DEF Published, TypeOK
  <2>4. QED
    BY <2>2, <2>3
<1>5. Published(m)'
  <2>1. Len(topic[q]) + 1 \in DOMAIN topic'[q] /\ topic'[q][Len(topic[q]) + 1] = m
    BY <1>0, <1>2
  <2>2. QED
    BY <2>1 DEF Published
<1>6. QED
  BY <1>3, <1>4, <1>5

LEMMA StampNat ==
  ASSUME TypeOK PROVE 1 + Cardinality({n \in Messages : stamp[n] > 0}) \in Nat
<1>1. IsFiniteSet({n \in Messages : stamp[n] > 0})
  BY RelayAssumption, FS_Subset
<1>2. QED
  BY <1>1, FS_CardinalityType

LEMMA RInvInit == Init => RInv
<1> SUFFICES ASSUME Init PROVE RInv
  OBVIOUS
<1>1. topic \in [Partitions -> Seq(Messages)]
  BY DEF Init
<1>2. TypeOK
  BY <1>1 DEF Init, TypeOK
<1>3. CurrentInv /\ ProcessedWasPublished
  BY RelayAssumption DEF Init, CurrentInv, ProcessedWasPublished, Marks
<1>4. QED
  BY <1>2, <1>3 DEF RInv

LEMMA RInvStep == RInv /\ [Next]_vars => RInv'
<1> SUFFICES ASSUME RInv, [Next]_vars PROVE RInv'
  OBVIOUS
<1> USE RelayAssumption DEF RInv, CurrentInv, Marks
<1>1. ASSUME NEW m \in Messages, ReadClock(m) PROVE RInv'
  BY <1>1, StampNat DEF ReadClock, TypeOK, ProcessedWasPublished, Published
<1>2. ASSUME NEW m \in Messages, InsertOutbox(m) PROVE RInv'
  BY <1>2 DEF InsertOutbox, TypeOK, ProcessedWasPublished, Published
<1>3. CASE Fetch
  <2>1. OldestPending \subseteq Messages
    BY DEF OldestPending, Pending
  <2>2. QED
    BY <1>3, <2>1 DEF Fetch, env, TypeOK, ProcessedWasPublished, Published
<1>4. ASSUME NEW m \in Messages, Publish(m) \/ PublishTwice(m) \/ PublishError(m) PROVE RInv'
  <2>1. \/ UNCHANGED topic
        \/ \E copies \in {<<m>>, <<m, m>>} : Write(m, copies)
    BY <1>4 DEF Publish, PublishTwice, PublishError
  <2>2. /\ topic' \in [Partitions -> Seq(Messages)]
        /\ \A n \in Messages : Published(n) => Published(n)'
    <3>1. CASE UNCHANGED topic
      BY <3>1 DEF TypeOK, Published
    <3>2. CASE \E copies \in {<<m>>, <<m, m>>} : Write(m, copies)
      BY <3>2, WriteKeeps
    <3>3. QED
      BY <2>1, <3>1, <3>2
  <2>3. faults' \in Nat
    BY <1>4 DEF Publish, PublishTwice, PublishError, Fails, TypeOK
  <2>4. /\ relay' \in {"markProcessed", "markFailed"} /\ current' = m
        /\ UNCHANGED <<row, stamp, placedBefore, batch, cancelled, shutdowns, crashes>>
    BY <1>4 DEF Publish, PublishTwice, PublishError, Publishing, env
  <2>5. relay' = "markProcessed" => Published(m)'
    <3>1. relay' = "markProcessed" => Write(m, <<m>>) \/ Write(m, <<m, m>>)
      BY <1>4 DEF Publish, PublishTwice, PublishError, Publishing
    <3>2. QED
      BY <3>1, WriteKeeps
  <2>6. TypeOK'
    BY <2>2, <2>3, <2>4 DEF TypeOK
  <2>7. (relay = "markProcessed" => Published(current))'
    BY <2>4, <2>5 DEF Published
  <2>8. ProcessedWasPublished'
    BY <2>2, <2>4 DEF ProcessedWasPublished
  <2>9. QED
    BY <2>4, <2>6, <2>7, <2>8
<1>5. ASSUME NEW mark \in Marks, Mark(mark) \/ MarkError(mark) PROVE RInv'
  <2>1. current \in Messages
    BY <1>5 DEF Mark, MarkError
  <2>2. row' = row \/ row' = [row EXCEPT ![current] = Status(mark)]
    BY <1>5 DEF Mark, MarkError
  <2>3. TypeOK'
    <3>1. faults' \in Nat
      BY <1>5 DEF Mark, MarkError, Fails, TypeOK
    <3>2. row' \in [Messages -> {"absent", "PENDING", "PROCESSED", "FAILED"}]
      BY <2>1, <2>2 DEF TypeOK, Status
    <3>3. QED
      BY <1>5, <3>1, <3>2 DEF Mark, MarkError, Advance, TypeOK
  <2>4. CurrentInv'
    BY <1>5 DEF Mark, MarkError, Advance
  <2>5. ProcessedWasPublished'
    <3>1. mark = "markProcessed" => Published(current)
      BY <1>5 DEF Mark, MarkError
    <3>2. topic' = topic
      BY <1>5 DEF Mark, MarkError, Advance
    <3>3. QED
      BY <2>1, <2>2, <3>1, <3>2 DEF ProcessedWasPublished, Published, Status, TypeOK
  <2>6. QED
    BY <2>3, <2>4, <2>5
<1>6. CASE StopRelay \/ Shutdown \/ Exit \/ Crash \/ Restart
  <2>1. row' = row /\ stamp' = stamp /\ placedBefore' = placedBefore /\ topic' = topic
    BY <1>6 DEF StopRelay, Shutdown, Exit, Crash, Restart, env
  <2>2. TypeOK'
    <3>1. /\ relay' \in {"idle", "publish", "markProcessed", "markFailed", "stopped", "down"}
          /\ batch' \in SUBSET Messages /\ current' \in Messages \cup {NoMessage}
          /\ cancelled' \in BOOLEAN
      BY <1>6 DEF StopRelay, Shutdown, Exit, Crash, Restart, TypeOK
    <3>2. faults' \in Nat /\ shutdowns' \in Nat /\ crashes' \in Nat
      BY <1>6 DEF StopRelay, Shutdown, Exit, Crash, Restart, TypeOK
    <3>3. QED
      BY <2>1, <3>1, <3>2 DEF TypeOK
  <2>3. CurrentInv'
    BY <1>6, <2>1 DEF StopRelay, Shutdown, Exit, Crash, Restart, TypeOK, Published
  <2>4. QED
    BY <2>1, <2>2, <2>3 DEF ProcessedWasPublished, Published
<1>7. CASE UNCHANGED vars
  BY <1>7 DEF vars, TypeOK, ProcessedWasPublished, Published
<1>8. QED
  BY <1>1, <1>2, <1>3, <1>4, <1>5, <1>6, <1>7 DEF Next, RelayStep, IdleTick

LEMMA RInvariance == Spec => []RInv
BY RInvInit, RInvStep, PTL DEF Spec

(* Every variable keeps its type.                                          *)
THEOREM RelayTypeCorrect == Spec => []TypeOK
<1>1. RInv => TypeOK
  BY DEF RInv
<1>2. QED
  BY <1>1, RInvariance, PTL

(* A row marked PROCESSED has been written to the topic (relay.go:53-74):  *)
(* the relay may publish an order twice, it never reports as published one *)
(* that is not.                                                            *)
THEOREM NoSilentLoss == Spec => []ProcessedWasPublished
<1>1. RInv => ProcessedWasPublished
  BY DEF RInv
<1>2. QED
  BY <1>1, RInvariance, PTL
-------------------------------------------------------------------------------
(* The relay implements OutboxPromise.                                     *)

(* A message is handled only while its row is PENDING: the batch was       *)
(* fetched so, and the loop drops a message from it when it marks the row. *)
BatchInv ==
  /\ batch \subseteq Pending
  /\ current \in Messages => current \in batch

LEMMA BatchInvInit == Init => BatchInv
BY RelayAssumption DEF Init, BatchInv, Pending

LEMMA BatchInvStep == RInv /\ BatchInv /\ [Next]_vars => BatchInv'
<1> SUFFICES ASSUME RInv, BatchInv, [Next]_vars PROVE BatchInv'
  OBVIOUS
<1> USE RelayAssumption DEF BatchInv, Pending, Marks
<1>0. TypeOK /\ CurrentInv
  BY DEF RInv
<1>1. ASSUME NEW m \in Messages, ReadClock(m) PROVE BatchInv'
  BY <1>1 DEF ReadClock
<1>2. ASSUME NEW m \in Messages, InsertOutbox(m) PROVE BatchInv'
  BY <1>0, <1>2 DEF InsertOutbox, TypeOK
<1>3. CASE Fetch
  <2>1. current \notin Messages
    BY <1>0, <1>3 DEF Fetch, CurrentInv
  <2>2. QED
    BY <1>3, <2>1 DEF Fetch, OldestPending, env
<1>4. ASSUME NEW m \in Messages, Publish(m) \/ PublishTwice(m) \/ PublishError(m) PROVE BatchInv'
  BY <1>4 DEF Publish, PublishTwice, PublishError, Publishing, FirstInBatch, env
<1>5. ASSUME NEW mark \in Marks, Mark(mark) \/ MarkError(mark) PROVE BatchInv'
  <2>1. /\ batch' = batch \ {current} /\ current' = NoMessage
        /\ row' = row \/ row' = [row EXCEPT ![current] = Status(mark)]
    BY <1>5 DEF Mark, MarkError, Advance
  <2>2. \A m \in Messages \ {current} : row'[m] = row[m]
    BY <1>0, <2>1 DEF TypeOK
  <2>3. QED
    BY <2>1, <2>2
<1>6. CASE StopRelay \/ Shutdown \/ Exit \/ Crash \/ Restart
  BY <1>6 DEF StopRelay, Shutdown, Exit, Crash, Restart, env
<1>7. CASE UNCHANGED vars
  BY <1>7 DEF vars
<1>8. QED
  BY <1>1, <1>2, <1>3, <1>4, <1>5, <1>6, <1>7 DEF Next, RelayStep, IdleTick

LEMMA InitPromises == Init => Promise!OInit
BY DEF Init, Promise!OInit

LEMMA StepPromises ==
  RInv /\ BatchInv /\ [Next]_vars => [Promise!ONext]_(Promise!outboxVars)
<1> SUFFICES ASSUME RInv, BatchInv, [Next]_vars
             PROVE  Promise!ONext \/ UNCHANGED <<row, topic>>
  BY DEF Promise!outboxVars
<1>0. TypeOK /\ CurrentInv
  BY DEF RInv
<1>1. ASSUME NEW m \in Messages, InsertOutbox(m) PROVE Promise!ONext
  <2>1. Promise!Insert(m)
    BY <1>1 DEF InsertOutbox, Promise!Insert
  <2>2. QED
    BY <2>1 DEF Promise!ONext
<1>2. ASSUME NEW m \in Messages, Publish(m) \/ PublishTwice(m) \/ PublishError(m)
      PROVE  Promise!ONext \/ UNCHANGED <<row, topic>>
  <2>1. row[m] = "PENDING" /\ UNCHANGED row
    BY <1>2 DEF Publish, PublishTwice, PublishError, Publishing, FirstInBatch, BatchInv, Pending, env
  <2>2. CASE UNCHANGED topic
    BY <2>1, <2>2
  <2>3. ASSUME NEW copies \in {<<m>>, <<m, m>>}, Write(m, copies) PROVE Promise!ONext
    <3>1. PICK q \in Partitions : topic' = [topic EXCEPT ![q] = @ \o copies]
      BY <2>3 DEF Write
    <3>2. Promise!WriteTo(q, m)
      BY <2>1, <3>1 DEF Promise!WriteTo
    <3>3. QED
      BY <3>2 DEF Promise!ONext
  <2>4. QED
    BY <1>2, <2>2, <2>3 DEF Publish, PublishTwice, PublishError
<1>3. ASSUME NEW mark \in Marks, Mark(mark) \/ MarkError(mark)
      PROVE  Promise!ONext \/ UNCHANGED <<row, topic>>
  <2>1. /\ topic' = topic /\ relay = mark
        /\ row' = row \/ row' = [row EXCEPT ![current] = Status(mark)]
    BY <1>3 DEF Mark, MarkError, Advance
  <2>2. PICK m \in Messages : m = current /\ row[m] = "PENDING"
    BY <1>0, <2>1 DEF CurrentInv, BatchInv, Pending
  <2>3. mark = "markProcessed" => Promise!Written(m)
    BY <1>0, <2>1, <2>2 DEF CurrentInv, Published, Promise!Written
  <2>4. CASE row' = row
    BY <2>1, <2>4
  <2>5. CASE row' = [row EXCEPT ![current] = Status(mark)]
    <3>1. Promise!Settle(m)
      BY <2>1, <2>2, <2>3, <2>5 DEF Promise!Settle, Status, Marks
    <3>2. QED
      BY <3>1 DEF Promise!ONext
  <2>6. QED
    BY <2>1, <2>4, <2>5
<1>4. ASSUME NEW m \in Messages, ReadClock(m) PROVE UNCHANGED <<row, topic>>
  BY <1>4 DEF ReadClock
<1>5. CASE Fetch \/ StopRelay \/ Shutdown \/ Exit \/ Crash \/ Restart \/ UNCHANGED vars
  BY <1>5 DEF Fetch, StopRelay, Shutdown, Exit, Crash, Restart, env, vars
<1>6. QED
  BY <1>1, <1>2, <1>3, <1>4, <1>5 DEF Next, RelayStep, IdleTick

(* The relay is the outbox its readers rely on: nothing reaches the topic  *)
(* before its order was committed or after its row was settled, and a row  *)
(* settles once (relay.go:46-77, repository.go:87-128).                   *)
THEOREM RelayKeepsPromise == Spec => KeepsPromise
<1>1. Spec => []BatchInv
  BY RInvariance, BatchInvInit, BatchInvStep, PTL DEF Spec
<1>2. QED
  BY <1>1, RInvariance, InitPromises, StepPromises, PTL DEF Spec, KeepsPromise, Promise!OSpec
-------------------------------------------------------------------------------
(* What a copy costs.                                                      *)

Faults == faults + shutdowns + crashes

(* Nothing is written before its row is committed.  A copy of a row that   *)
(* is still PENDING has been paid for, except the one being marked; a      *)
(* shutdown pays in advance for every message of the batch it interrupts.  *)
PaidInv ==
  \A m \in Messages :
    /\ IsFiniteSet(Copies(m))
    /\ row[m] = "absent" => Copies(m) = {}
    /\ Cardinality(Copies(m)) <= 1 + Faults
    /\ row[m] \in {"absent", "PENDING"} /\ (m = current => cancelled) =>
         Cardinality(Copies(m)) <= Faults
    /\ cancelled /\ m \in batch \ {current} => 1 + Cardinality(Copies(m)) <= Faults

(* The process that is down handles nothing.                               *)
DownInv == relay = "down" => batch = {}

(* Only the written message gains copies, one for each time it is written. *)
LEMMA WriteCopies ==
  ASSUME TypeOK, NEW m \in Messages, NEW copies \in {<<m>>, <<m, m>>}, Write(m, copies),
         NEW n \in Messages, IsFiniteSet(Copies(n))
  PROVE  /\ n # m => Copies(n)' \subseteq Copies(n)
         /\ IsFiniteSet(Copies(n))'
         /\ Cardinality(Copies(n))' <= Cardinality(Copies(n)) + IF n = m THEN Len(copies) ELSE 0
<1>0. copies \in Seq(Messages) /\ Len(copies) \in {1, 2} /\ \A i \in 1 .. Len(copies) : copies[i] = m
  <2>1. CASE copies = <<m>>
    BY <2>1
  <2>2. CASE copies = <<m, m>>
    BY <2>2
  <2>3. QED
    BY <2>1, <2>2
<1>1. PICK q \in Partitions : topic' = [topic EXCEPT ![q] = @ \o copies]
  BY DEF Write
<1> DEFINE old == topic[q]
           new == topic'[q]
           k == Len(old)
<1>2. old \in Seq(Messages) /\ new = old \o copies /\ k \in Nat
  BY <1>1 DEF TypeOK
<1>3. /\ Len(new) = k + Len(copies)
      /\ \A i \in 1 .. k : new[i] = old[i]
      /\ \A i \in (k + 1) .. Len(new) : new[i] = m
      /\ DOMAIN old = 1 .. k /\ DOMAIN new = 1 .. Len(new)
  BY <1>0, <1>2
<1>4. \A p \in Partitions \ {q} : topic'[p] = topic[p]
  BY <1>1 DEF TypeOK
<1>5. ASSUME NEW p \in Partitions, NEW i \in DOMAIN topic'[p], topic'[p][i] = n
      PROVE  <<p, i>> \in Copies(n) \/ (n = m /\ p = q /\ i \in (k + 1) .. Len(new))
  <2>1. CASE p # q
    BY <1>4, <1>5, <2>1 DEF Copies
  <2>2. CASE p = q /\ i \in 1 .. k
    <3>1. i \in DOMAIN topic[p] /\ topic[p][i] = n
      BY <1>3, <1>5, <2>2
    <3>2. QED
      BY <3>1 DEF Copies
  <2>3. CASE p = q /\ i \notin 1 .. k
    BY <1>2, <1>3, <1>5, <2>3
  <2>4. QED
    BY <2>1, <2>2, <2>3
<1>6. CASE n # m
  <2>1. Copies(n)' \subseteq Copies(n)
    BY <1>5, <1>6 DEF Copies
  <2>2. QED
    BY <1>6, <2>1, FS_Subset, FS_CardinalityType
<1>7. CASE n = m
  <2> DEFINE one == Copies(n) \cup {<<q, k + 1>>}
             two == one \cup {<<q, k + 2>>}
  <2>1. /\ IsFiniteSet(one) /\ Cardinality(one) <= Cardinality(Copies(n)) + 1
        /\ IsFiniteSet(two) /\ Cardinality(two) <= Cardinality(Copies(n)) + 2
    <3>1. Cardinality(Copies(n)) \in Nat
      BY FS_CardinalityType
    <3>2. IsFiniteSet(one) /\ Cardinality(one) <= Cardinality(Copies(n)) + 1 /\ Cardinality(one) \in Nat
      <4>1. /\ IsFiniteSet(one)
            /\ Cardinality(one) = IF <<q, k + 1>> \in Copies(n) THEN Cardinality(Copies(n)) ELSE Cardinality(Copies(n)) + 1
        BY FS_AddElement
      <4>2. QED
        BY <3>1, <4>1
    <3>3. IsFiniteSet(two) /\ Cardinality(two) <= Cardinality(one) + 1 /\ Cardinality(two) \in Nat
      <4>1. /\ IsFiniteSet(two)
            /\ Cardinality(two) = IF <<q, k + 2>> \in one THEN Cardinality(one) ELSE Cardinality(one) + 1
        BY <3>2, FS_AddElement
      <4>2. QED
        BY <3>2, <4>1
    <3>4. QED
      BY <3>1, <3>2, <3>3
  <2>2. CASE Len(copies) = 1
    <3>1. \A i \in (k + 1) .. Len(new) : i = k + 1
      BY <1>2, <1>3, <2>2
    <3>2. Copies(n)' \subseteq one
      BY <1>5, <3>1 DEF Copies
    <3>3. IsFiniteSet(Copies(n)') /\ Cardinality(Copies(n)') <= Cardinality(one)
      BY <2>1, <3>2, FS_Subset
    <3>4. Cardinality(Copies(n)') \in Nat /\ Cardinality(one) \in Nat /\ Cardinality(Copies(n)) \in Nat
      BY <2>1, <3>3, FS_CardinalityType
    <3>5. QED
      BY <1>7, <2>1, <2>2, <3>3, <3>4
  <2>3. CASE Len(copies) = 2
    <3>1. \A i \in (k + 1) .. Len(new) : i = k + 1 \/ i = k + 2
      BY <1>2, <1>3, <2>3
    <3>2. Copies(n)' \subseteq two
      BY <1>5, <3>1 DEF Copies
    <3>3. IsFiniteSet(Copies(n)') /\ Cardinality(Copies(n)') <= Cardinality(two)
      BY <2>1, <3>2, FS_Subset
    <3>4. Cardinality(Copies(n)') \in Nat /\ Cardinality(two) \in Nat /\ Cardinality(Copies(n)) \in Nat
      BY <2>1, <3>3, FS_CardinalityType
    <3>5. QED
      BY <1>7, <2>1, <2>3, <3>3, <3>4
  <2>4. QED
    BY <1>0, <2>2, <2>3
<1>8. QED
  BY <1>6, <1>7

LEMMA PaidInvInit == Init => PaidInv /\ DownInv
<1> SUFFICES ASSUME Init PROVE PaidInv /\ DownInv
  OBVIOUS
<1>1. \A m \in Messages : Copies(m) = {}
  BY DEF Init, Copies
<1>2. Faults = 0 /\ ~cancelled /\ relay # "down"
  BY DEF Init, Faults
<1>3. IsFiniteSet({}) /\ Cardinality({}) = 0
  BY FS_EmptySet
<1>4. PaidInv
  BY <1>1, <1>2, <1>3 DEF PaidInv
<1>5. QED
  BY <1>2, <1>4 DEF DownInv

LEMMA PaidInvStep == RInv /\ BatchInv /\ PaidInv /\ DownInv /\ [Next]_vars => PaidInv' /\ DownInv'
<1> SUFFICES ASSUME RInv, BatchInv, PaidInv, DownInv, [Next]_vars PROVE PaidInv' /\ DownInv'
  OBVIOUS
<1> USE RelayAssumption DEF Marks
<1>0. TypeOK /\ CurrentInv
  BY DEF RInv
<1>a. /\ faults \in Nat /\ shutdowns \in Nat /\ crashes \in Nat
      /\ \A m \in Messages : IsFiniteSet(Copies(m)) /\ Cardinality(Copies(m)) \in Nat
  BY <1>0, FS_CardinalityType DEF TypeOK, PaidInv
<1>c. faults \in Nat /\ shutdowns \in Nat /\ crashes \in Nat
  BY <1>a
<1>b. ASSUME topic' = topic
      PROVE  \A m \in Messages : Copies(m)' = Copies(m)
  BY <1>b DEF Copies
<1>1. ASSUME NEW m \in Messages, ReadClock(m) PROVE PaidInv' /\ DownInv'
  BY <1>1, <1>b DEF ReadClock, PaidInv, DownInv, Faults
<1>2. ASSUME NEW m \in Messages, InsertOutbox(m) PROVE PaidInv' /\ DownInv'
  BY <1>0, <1>2, <1>b DEF InsertOutbox, PaidInv, DownInv, Faults, TypeOK
<1>3. CASE Fetch
  BY <1>3, <1>b DEF Fetch, env, PaidInv, DownInv, Faults
<1>4. ASSUME NEW m \in Messages, Publish(m) \/ PublishTwice(m) \/ PublishError(m)
      PROVE  PaidInv' /\ DownInv'
  <2>1. /\ m \in batch /\ row[m] = "PENDING" /\ current = NoMessage /\ current' = m
        /\ relay' # "down" /\ UNCHANGED <<row, batch, cancelled, shutdowns, crashes>>
    BY <1>0, <1>4 DEF Publish, PublishTwice, PublishError, Publishing, FirstInBatch, BatchInv, Pending,
                      CurrentInv, TypeOK, env
  <2> DEFINE c(n) == Cardinality(Copies(n))
  <2>2. PICK k \in 0 .. 2 :
          /\ \/ k = 0 /\ UNCHANGED topic
             \/ k = 1 /\ Write(m, <<m>>)
             \/ k = 2 /\ Write(m, <<m, m>>)
          /\ faults' \in Nat /\ faults <= faults'
          /\ k <= 1 + faults' - faults
          /\ cancelled => k <= 1
    BY <1>a, <1>4 DEF Publish, PublishTwice, PublishError, Fails
  <2>3. ASSUME NEW n \in Messages
        PROVE  /\ n # m => Copies(n)' \subseteq Copies(n)
               /\ IsFiniteSet(Copies(n))' /\ c(n)' \in Nat
               /\ c(n)' <= c(n) + IF n = m THEN k ELSE 0
    <3>1. CASE k = 0
      <4>1. Copies(n)' = Copies(n)
        BY <1>b, <2>2, <3>1
      <4>2. QED
        BY <1>a, <3>1, <4>1
    <3>2. CASE k # 0
      <4>1. PICK copies \in {<<m>>, <<m, m>>} : Write(m, copies) /\ Len(copies) = k
        BY <2>2, <3>2
      <4>2. /\ n # m => Copies(n)' \subseteq Copies(n)
            /\ IsFiniteSet(Copies(n))' /\ c(n)' <= c(n) + IF n = m THEN k ELSE 0
        BY <1>0, <1>a, <4>1, WriteCopies
      <4>3. QED
        BY <4>2, FS_CardinalityType
    <3>3. QED
      BY <3>1, <3>2
  <2>4. c(m)' <= 1 + Faults' /\ (cancelled => c(m)' <= Faults')
    <3>1. c(m) <= Faults /\ (cancelled => 1 + c(m) <= Faults)
      BY <1>0, <2>1, RelayAssumption DEF PaidInv
    <3>2. PICK old \in Nat, new \in Nat : old = c(m) /\ new = c(m)' /\ new <= old + k
      BY <1>a, <2>3
    <3>3. PICK f \in Nat : f = faults' /\ k <= 1 + f - faults
      BY <1>c, <2>2
    <3>4. Faults' = f + shutdowns + crashes
      BY <2>1, <3>3 DEF Faults
    <3>5. new <= 1 + (f + shutdowns + crashes)
      <4>1. old <= faults + shutdowns + crashes
        BY <3>1, <3>2 DEF Faults
      <4>2. k <= 1 + f - faults
        BY <3>3
      <4>3. k \in Nat /\ k + faults <= 1 + f
        BY <1>c, <4>2
      <4>4. QED
        BY <1>c, <3>2, <4>1, <4>3
    <3>6. cancelled => new <= f + shutdowns + crashes
      BY <1>c, <2>2, <3>1, <3>2, <3>3 DEF Faults
    <3>7. QED
      BY <3>2, <3>4, <3>5, <3>6
  <2>5. ASSUME NEW n \in Messages \ {m}
        PROVE  /\ row[n] = "absent" => Copies(n)' = {}
               /\ c(n)' <= 1 + Faults'
               /\ row[n] \in {"absent", "PENDING"} => c(n)' <= Faults'
               /\ cancelled /\ n \in batch => 1 + c(n)' <= Faults'
    <3>1. c(n)' \in Nat /\ c(n)' <= c(n)
      BY <1>a, <2>3
    <3>2. /\ c(n) <= 1 + Faults
          /\ row[n] \in {"absent", "PENDING"} => c(n) <= Faults
          /\ cancelled /\ n \in batch => 1 + c(n) <= Faults
      BY <2>1 DEF PaidInv
    <3>3. row[n] = "absent" => Copies(n)' = {}
      BY <2>3 DEF PaidInv
    <3>4. QED
      BY <1>a, <2>1, <2>2, <3>1, <3>2, <3>3 DEF Faults
  <2>6. PaidInv'
    BY <2>1, <2>3, <2>4, <2>5 DEF PaidInv
  <2>7. DownInv'
    BY <2>1 DEF DownInv
  <2>8. QED
    BY <2>6, <2>7
<1>5. ASSUME NEW mark \in Marks, Mark(mark) \/ MarkError(mark) PROVE PaidInv' /\ DownInv'
  <2>1. /\ batch' = batch \ {current} /\ current' = NoMessage /\ current \in Messages
        /\ relay' # "down" /\ UNCHANGED <<cancelled, topic, shutdowns, crashes>>
    BY <1>0, <1>5 DEF Mark, MarkError, Advance, CurrentInv
  <2>2. \/ faults' = faults /\ row' = [row EXCEPT ![current] = Status(mark)]
        \/ faults' = faults + 1 /\ row' = [row EXCEPT ![current] = Status(mark)]
        \/ faults' = faults + 1 /\ row' = row
        \/ faults' = faults /\ cancelled /\ row' = row
    BY <1>5 DEF Mark, MarkError, Fails
  <2>3. ASSUME NEW m \in Messages, m # current PROVE row'[m] = row[m]
    BY <1>0, <2>2, <2>3 DEF TypeOK
  <2>4. /\ row'[current] \in {"absent", "PENDING"} =>
             row'[current] = row[current] /\ (cancelled \/ faults' = faults + 1)
        /\ row'[current] = "absent" => row[current] = "absent"
        /\ faults' \in {faults, faults + 1}
    BY <1>0, <2>1, <2>2 DEF Status, TypeOK
  <2>5. \A m \in Messages : Copies(m)' = Copies(m)
    BY <1>b, <2>1
  <2>6. PaidInv'
    <3>1. ASSUME NEW m \in Messages
          PROVE  /\ row'[m] = "absent" => Copies(m) = {}
                 /\ Cardinality(Copies(m)) <= 1 + Faults'
                 /\ row'[m] \in {"absent", "PENDING"} => Cardinality(Copies(m)) <= Faults'
                 /\ cancelled /\ m \in batch \ {current} => 1 + Cardinality(Copies(m)) <= Faults'
      BY <1>a, <2>1, <2>3, <2>4 DEF PaidInv, Faults
    <3>2. QED
      BY <1>a, <2>1, <2>5, <3>1 DEF PaidInv
  <2>7. QED
    BY <2>1, <2>6 DEF DownInv
<1>6. CASE StopRelay \/ Shutdown \/ Exit \/ Crash \/ Restart
  <2>1. row' = row /\ (\A m \in Messages : Copies(m)' = Copies(m)) /\ faults' = faults
    BY <1>6, <1>b DEF StopRelay, Shutdown, Exit, Crash, Restart, env
  <2>2. CASE StopRelay
    BY <2>1, <2>2 DEF StopRelay, PaidInv, DownInv, Faults
  <2>3. CASE Shutdown
    BY <1>a, <2>1, <2>3 DEF Shutdown, PaidInv, DownInv, BatchInv, Pending, Faults
  <2>4. CASE Exit
    BY <2>1, <2>4 DEF Exit, PaidInv, DownInv, Faults
  <2>5. CASE Crash
    BY <1>a, <2>1, <2>5 DEF Crash, PaidInv, DownInv, Faults
  <2>6. CASE Restart
    BY <1>0, <2>1, <2>6 DEF Restart, PaidInv, DownInv, Faults, CurrentInv
  <2>7. QED
    BY <1>6, <2>2, <2>3, <2>4, <2>5, <2>6
<1>7. CASE UNCHANGED vars
  BY <1>7, <1>b DEF vars, PaidInv, DownInv, Faults
<1>8. QED
  BY <1>1, <1>2, <1>3, <1>4, <1>5, <1>6, <1>7 DEF Next, RelayStep, IdleTick

LEMMA BatchInvariance == Spec => []BatchInv
BY RInvariance, BatchInvInit, BatchInvStep, PTL DEF Spec

LEMMA PaidInvariance == Spec => []PaidInv
BY RInvariance, BatchInvariance, PaidInvInit, PaidInvStep, PTL DEF Spec

(* A message is in the topic at most once, and once more for each failure, *)
(* shutdown or crash since the start: the copies a consumer may see are    *)
(* those of its crashes, not of the relay's polling (relay.go:46-77).      *)
THEOREM DuplicatesArePaidFor == Spec => []DuplicatesExplained
<1>1. TypeOK /\ PaidInv => DuplicatesExplained
  BY DEF PaidInv, DuplicatesExplained, Faults, TypeOK
<1>2. QED
  BY <1>1, PaidInvariance, RelayTypeCorrect, PTL
-------------------------------------------------------------------------------
(* The order of the topic.                                                 *)

(* A row is committed after its clock was read, and the clocks of the      *)
(* orders committed before a reading are smaller.                          *)
StampInv ==
  /\ \A m \in Messages : row[m] # "absent" => stamp[m] > 0
  /\ \A m \in Messages : stamp[m] <= Cardinality({n \in Messages : stamp[n] > 0})
  /\ \A n \in Messages : \A m \in placedBefore[n] : row[m] # "absent" /\ stamp[m] < stamp[n]

Quiet == faults = 0 /\ shutdowns = 0

(* Without a failure or a shutdown, a row leaves PENDING only when its     *)
(* message is in the topic, and the batch is what the query returned: it   *)
(* holds, with an order, every older one still to be published.            *)
QuietInv ==
  /\ cancelled => shutdowns > 0
  /\ Quiet => /\ relay # "markFailed"
              /\ \A m \in Messages : row[m] # "FAILED"
              /\ \A n \in batch : \A m \in placedBefore[n] : row[m] = "PENDING" => m \in batch

LEMMA StampInvInit == Init => StampInv
<1> SUFFICES ASSUME Init PROVE StampInv
  OBVIOUS
<1>1. IsFiniteSet({n \in Messages : stamp[n] > 0})
  BY RelayAssumption, FS_Subset
<1>2. Cardinality({n \in Messages : stamp[n] > 0}) \in Nat
  BY <1>1, FS_CardinalityType
<1>3. \A m \in Messages : stamp[m] <= Cardinality({n \in Messages : stamp[n] > 0})
  <2>1. \A m \in Messages : stamp[m] = 0
    BY DEF Init
  <2>2. QED
    BY <1>2, <2>1
<1>4. QED
  BY <1>3 DEF Init, StampInv

LEMMA StampInvStep == RInv /\ BatchInv /\ StampInv /\ [Next]_vars => StampInv'
<1> SUFFICES ASSUME RInv, BatchInv, StampInv, [Next]_vars PROVE StampInv'
  OBVIOUS
<1>a. TypeOK
  BY DEF RInv
<1> USE <1>a
<1> DEFINE Stamped == {n \in Messages : stamp[n] > 0}
<1>0. IsFiniteSet(Stamped) /\ Cardinality(Stamped) \in Nat
  BY RelayAssumption, FS_Subset, FS_CardinalityType
<1>1. ASSUME NEW m \in Messages, ReadClock(m) PROVE StampInv'
  <2> DEFINE now == 1 + Cardinality(Stamped)
  <2>1. /\ stamp[m] = 0 /\ stamp' = [stamp EXCEPT ![m] = now] /\ row' = row
        /\ placedBefore' = [placedBefore EXCEPT ![m] = {n \in Messages : row[n] # "absent"}]
    BY <1>1 DEF ReadClock
  <2>2. now \in Nat /\ now > 0
    BY <1>0
  <2>3. stamp'[m] = now /\ \A n \in Messages \ {m} : stamp'[n] = stamp[n]
    BY <2>1 DEF TypeOK
  <2>4. m \notin Stamped /\ Stamped' = Stamped \cup {m}
    BY <2>1, <2>2, <2>3
  <2>5. Cardinality(Stamped') = now
    <3>1. Cardinality(Stamped \cup {m}) = Cardinality(Stamped) + 1
      BY <1>0, <2>4, FS_AddElement
    <3>2. Cardinality(Stamped') = Cardinality(Stamped \cup {m})
      BY <2>4
    <3>3. QED
      BY <1>0, <3>1, <3>2
  <2>6. \A n \in Messages : stamp[n] \in Nat /\ stamp[n] <= Cardinality(Stamped)
    BY DEF StampInv, TypeOK
  <2>7. \A n \in Messages : row[n] # "absent" => n # m
    BY <2>1 DEF StampInv
  <2>8. \A n \in Messages : stamp'[n] <= now
    BY <1>0, <2>3, <2>6
  <2>9. ASSUME NEW n \in Messages, NEW o \in placedBefore'[n]
        PROVE  row[o] # "absent" /\ stamp'[o] < stamp'[n]
    <3>1. CASE n = m
      <4>1. o \in Messages /\ row[o] # "absent" /\ o # m
        BY <2>1, <2>7, <2>9, <3>1 DEF TypeOK
      <4>2. stamp[o] < now
        BY <1>0, <2>6, <4>1
      <4>3. QED
        BY <2>3, <3>1, <4>1, <4>2
    <3>2. CASE n # m
      <4>1. o \in Messages /\ row[o] # "absent" /\ stamp[o] < stamp[n]
        BY <2>1, <2>9, <3>2 DEF TypeOK, StampInv
      <4>2. QED
        BY <2>3, <2>7, <3>2, <4>1
    <3>3. QED
      BY <3>1, <3>2
  <2>10. \A n \in Messages : row[n] # "absent" => stamp'[n] > 0
    BY <2>2, <2>3 DEF StampInv
  <2>11. QED
    BY <2>1, <2>5, <2>8, <2>9, <2>10 DEF StampInv
<1>2. ASSUME NEW m \in Messages, InsertOutbox(m) PROVE StampInv'
  BY <1>2 DEF InsertOutbox, StampInv, TypeOK
<1>3. ASSUME NEW mark \in Marks, Mark(mark) \/ MarkError(mark) PROVE StampInv'
  <2>1. /\ stamp' = stamp /\ placedBefore' = placedBefore
        /\ row' = row \/ (row' = [row EXCEPT ![current] = Status(mark)] /\ ~cancelled)
    BY <1>3 DEF Mark, MarkError, Advance
  <2>2. current \in Messages /\ row[current] = "PENDING"
    BY <1>3 DEF Mark, MarkError, RInv, CurrentInv, BatchInv, Pending
  <2>3. \A m \in Messages : row'[m] # row[m] => row'[m] # "absent" /\ row[m] # "absent"
    BY <2>1, <2>2 DEF TypeOK, Status
  <2>4. \A n \in Messages : placedBefore[n] \subseteq Messages
    BY DEF TypeOK
  <2>5. \A m \in Messages : row'[m] # "absent" <=> row[m] # "absent"
    BY <2>1, <2>2, <2>3 DEF TypeOK
  <2>6. QED
    BY <2>1, <2>4, <2>5 DEF StampInv
<1>4. CASE \/ \E m \in Messages : Publish(m) \/ PublishTwice(m) \/ PublishError(m)
           \/ Fetch \/ StopRelay \/ Shutdown \/ Exit \/ Crash \/ Restart \/ UNCHANGED vars
  <2>1. row' = row /\ stamp' = stamp /\ placedBefore' = placedBefore
    BY <1>4 DEF Publish, PublishTwice, PublishError, Publishing, Fetch, StopRelay, Shutdown, Exit, Crash,
                Restart, env, vars
  <2>2. QED
    BY <2>1 DEF StampInv
<1>5. QED
  BY <1>1, <1>2, <1>3, <1>4 DEF Next, RelayStep, IdleTick

(* The query returns, with a row, every older one that is PENDING.         *)
LEMMA FetchedWithOlder ==
  ASSUME TypeOK, NEW n \in OldestPending, NEW m \in Pending, stamp[m] < stamp[n]
  PROVE  m \in OldestPending
<1> DEFINE Older(o) == {l \in Pending : stamp[l] < stamp[o]}
<1>1. \A o \in Messages : IsFiniteSet(Older(o)) /\ Cardinality(Older(o)) \in Nat
  <2> TAKE o \in Messages
  <2>1. IsFiniteSet(Older(o))
    BY RelayAssumption, FS_Subset DEF Pending
  <2>2. QED
    BY <2>1, FS_CardinalityType
<1>2. m \in Messages /\ n \in Messages /\ Cardinality(Older(n)) < Limit
  BY DEF OldestPending, Pending
<1>3. Older(m) \subseteq Older(n)
  BY <1>2 DEF Pending, TypeOK
<1>4. Cardinality(Older(m)) <= Cardinality(Older(n))
  BY <1>1, <1>2, <1>3, FS_Subset
<1>5. Cardinality(Older(m)) < Limit
  <2> HIDE DEF Older
  <2>1. QED
    BY <1>1, <1>2, <1>4, RelayAssumption
<1>6. QED
  BY <1>5 DEF OldestPending

LEMMA QuietInvStep ==
  RInv /\ BatchInv /\ PaidInv /\ StampInv /\ QuietInv /\ OrderPreserved /\ [Next]_vars
    => QuietInv' /\ OrderPreserved'
<1> SUFFICES ASSUME RInv, BatchInv, PaidInv, StampInv, QuietInv, OrderPreserved, [Next]_vars
             PROVE  QuietInv' /\ OrderPreserved'
  OBVIOUS
<1> USE RelayAssumption DEF Marks
<1>0. TypeOK /\ CurrentInv /\ ProcessedWasPublished
  BY DEF RInv
<1>a. faults \in Nat /\ shutdowns \in Nat
  BY <1>0 DEF TypeOK
<1>b. ASSUME topic' = topic, placedBefore' = placedBefore, Quiet' => Quiet PROVE OrderPreserved'
  BY <1>b DEF OrderPreserved, Quiet
<1>1. ASSUME NEW m \in Messages, ReadClock(m) PROVE QuietInv' /\ OrderPreserved'
  <2>1. /\ stamp[m] = 0 /\ UNCHANGED <<row, relay, batch, cancelled, topic, faults, shutdowns>>
        /\ \A n \in Messages \ {m} : placedBefore'[n] = placedBefore[n]
    BY <1>0, <1>1 DEF ReadClock, TypeOK
  <2>2. row[m] = "absent"
    BY <2>1 DEF StampInv
  <2>3. m \notin batch
    BY <2>2 DEF BatchInv, Pending
  <2>4. QuietInv'
    BY <2>1, <2>3 DEF QuietInv, Quiet, BatchInv, Pending
  <2>5. \A q \in Partitions : \A i \in DOMAIN topic[q] : topic[q][i] # m
    <3>1. Copies(m) = {}
      BY <2>2 DEF PaidInv
    <3>2. ASSUME NEW q \in Partitions, NEW i \in DOMAIN topic[q], topic[q][i] = m PROVE FALSE
      <4>1. <<q, i>> \in Copies(m)
        BY <3>2 DEF Copies
      <4>2. QED
        BY <3>1, <4>1
    <3>3. QED
      BY <3>2
  <2>6. OrderPreserved'
    BY <2>1, <2>5 DEF OrderPreserved
  <2>7. QED
    BY <2>4, <2>6
<1>2. ASSUME NEW m \in Messages, InsertOutbox(m) PROVE QuietInv' /\ OrderPreserved'
  <2>1. /\ row[m] = "absent" /\ row' = [row EXCEPT ![m] = "PENDING"]
        /\ UNCHANGED <<placedBefore, relay, batch, cancelled, topic, faults, shutdowns>>
    BY <1>2 DEF InsertOutbox
  <2>2. \A n \in Messages : row'[n] # row[n] => row'[n] = "PENDING" /\ n = m
    BY <1>0, <2>1 DEF TypeOK
  <2>3. \A n \in Messages : m \notin placedBefore[n]
    BY <2>1 DEF StampInv
  <2>4. \A n \in batch, o \in Messages : o \in placedBefore[n] => row'[o] = row[o]
    BY <2>2, <2>3 DEF BatchInv, Pending
  <2>5. QuietInv'
    BY <1>0, <2>1, <2>2, <2>4 DEF QuietInv, Quiet, BatchInv, Pending, TypeOK
  <2>6. QED
    BY <1>b, <2>1, <2>5 DEF Quiet
<1>3. CASE Fetch
  <2>1. /\ ~cancelled /\ batch' = OldestPending /\ relay' = "publish"
        /\ UNCHANGED <<row, stamp, placedBefore, cancelled, topic, faults, shutdowns>>
    BY <1>3 DEF Fetch, env
  <2>2. ASSUME NEW n \in batch', NEW m \in placedBefore[n], row[m] = "PENDING" PROVE m \in batch'
    <3>1. n \in OldestPending /\ n \in Messages /\ m \in Messages
      BY <1>0, <2>1, <2>2 DEF OldestPending, Pending, TypeOK
    <3>2. m \in Pending /\ stamp[m] < stamp[n]
      BY <2>2, <3>1 DEF Pending, StampInv
    <3>3. QED
      BY <1>0, <2>1, <3>1, <3>2, FetchedWithOlder
  <2>3. QuietInv'
    BY <2>1, <2>2 DEF QuietInv, Quiet
  <2>4. QED
    BY <1>b, <2>1, <2>3 DEF Quiet
<1>4. ASSUME NEW m \in Messages, Publish(m) PROVE QuietInv' /\ OrderPreserved'
  <2>1. /\ FirstInBatch(m) /\ relay' = "markProcessed" /\ Write(m, <<m>>)
        /\ UNCHANGED <<row, stamp, placedBefore, batch, cancelled, faults, shutdowns>>
    BY <1>4 DEF Publish, Publishing, env
  <2>2. QuietInv'
    BY <2>1 DEF QuietInv, Quiet
  <2>3. ASSUME Cardinality(Partitions) = 1, Quiet
        PROVE  OrderPreserved'
    <3>1. PICK q : Partitions = {q}
      BY <2>3, FS_Singleton
    <3>2. topic' = [topic EXCEPT ![q] = @ \o <<m>>]
      BY <2>1, <3>1 DEF Write
    <3> DEFINE k == Len(topic[q])
    <3>3. /\ topic[q] \in Seq(Messages) /\ k \in Nat
          /\ topic'[q] = topic[q] \o <<m>>
          /\ DOMAIN topic[q] = 1 .. k /\ DOMAIN topic'[q] = 1 .. (k + 1)
          /\ topic'[q][k + 1] = m /\ \A i \in 1 .. k : topic'[q][i] = topic[q][i]
      BY <1>0, <3>1, <3>2 DEF TypeOK
    <3>4. ASSUME NEW o \in placedBefore[m], NEW i \in 1 .. (k + 1), i = k + 1
          PROVE  \E j \in 1 .. i : topic'[q][j] = o
      <4>1. o \in Messages /\ row[o] # "absent" /\ stamp[o] < stamp[m]
        BY <1>0, <3>4 DEF TypeOK, StampInv
      <4>2. o \notin batch
        <5>1. o \in batch => stamp[m] <= stamp[o]
          BY <2>1 DEF FirstInBatch
        <5>2. stamp[m] \in Nat /\ stamp[o] \in Nat
          BY <1>0, <4>1 DEF TypeOK
        <5>3. QED
          BY <4>1, <5>1, <5>2
      <4>3. row[o] = "PROCESSED"
        BY <1>0, <2>1, <2>3, <3>4, <4>1, <4>2 DEF QuietInv, FirstInBatch, TypeOK
      <4>4. PICK j \in 1 .. k : topic[q][j] = o
        BY <1>0, <3>1, <3>3, <4>1, <4>3 DEF ProcessedWasPublished, Published
      <4>5. j \in 1 .. i /\ topic'[q][j] = o
        BY <3>3, <3>4, <4>4
      <4>6. QED
        BY <4>5
    <3>5. ASSUME NEW o \in Messages, NEW n \in Messages, o \in placedBefore[n],
                 NEW i \in 1 .. (k + 1), topic'[q][i] = n
          PROVE  \E j \in 1 .. i : topic'[q][j] = o
      <4>1. CASE i = k + 1
        BY <3>3, <3>4, <3>5, <4>1
      <4>2. CASE i # k + 1
        <5>1. i \in 1 .. k /\ topic[q][i] = n
          BY <3>3, <3>5, <4>2
        <5>2. PICK j \in 1 .. i : topic[q][j] = o
          BY <2>3, <3>1, <3>3, <3>5, <5>1 DEF OrderPreserved, Quiet
        <5>3. j \in 1 .. k
          BY <3>3, <5>1, <5>2
        <5>4. QED
          BY <3>3, <5>2, <5>3
      <4>3. QED
        BY <4>1, <4>2
    <3>6. ASSUME NEW p \in Partitions, NEW o \in Messages, NEW n \in Messages, o \in placedBefore'[n],
                 NEW i \in DOMAIN topic'[p], topic'[p][i] = n
          PROVE  \E j \in 1 .. i : topic'[p][j] = o
      <4>1. p = q /\ o \in placedBefore[n] /\ i \in 1 .. (k + 1)
        BY <2>1, <3>1, <3>3, <3>6
      <4>2. QED
        BY <3>5, <3>6, <4>1
    <3>7. QED
      BY <3>6 DEF OrderPreserved
  <2>4. (Cardinality(Partitions) = 1 /\ Quiet) \/ ~(Cardinality(Partitions) = 1 /\ faults' = 0 /\ shutdowns' = 0)
    BY <2>1 DEF Quiet
  <2>5. QED
    BY <2>2, <2>3, <2>4 DEF OrderPreserved
<1>5. ASSUME NEW mark \in Marks, Mark(mark) PROVE QuietInv' /\ OrderPreserved'
  <2>1. /\ relay = mark /\ batch' = batch \ {current} /\ relay' # "markFailed"
        /\ row' = [row EXCEPT ![current] = Status(mark)]
        /\ UNCHANGED <<placedBefore, cancelled, topic, faults, shutdowns>>
    BY <1>5 DEF Mark, Advance
  <2>2. current \in Messages /\ \A m \in Messages \ {current} : row'[m] = row[m]
    BY <1>0, <2>1 DEF TypeOK, CurrentInv
  <2>3. row'[current] = Status(mark) /\ (Quiet => Status(mark) = "PROCESSED")
    BY <1>0, <2>1, <2>2 DEF QuietInv, Status, TypeOK
  <2>4. QuietInv'
    <3>1. \A n \in Messages : placedBefore[n] \subseteq Messages
      BY <1>0 DEF TypeOK
    <3>2. Quiet => \A m \in Messages : row'[m] # "FAILED"
      BY <2>2, <2>3 DEF QuietInv
    <3>3. Quiet => \A n \in batch' : \A m \in placedBefore[n] : row'[m] = "PENDING" => m \in batch'
      BY <2>1, <2>2, <2>3, <3>1 DEF QuietInv, BatchInv, Pending
    <3>4. QED
      BY <2>1, <3>2, <3>3 DEF QuietInv, Quiet
  <2>5. QED
    BY <1>b, <2>1, <2>4 DEF Quiet
<1>6. ASSUME \/ \E m \in Messages : PublishTwice(m) \/ PublishError(m)
             \/ \E mark \in Marks : MarkError(mark)
      PROVE  QuietInv' /\ OrderPreserved'
  <2>1. Fails /\ UNCHANGED <<cancelled, shutdowns>>
    BY <1>6 DEF PublishTwice, PublishError, MarkError, Publishing, Advance
  <2>2. ~(faults' = 0 /\ shutdowns' = 0)
    BY <1>a, <2>1 DEF Fails, QuietInv
  <2>3. QED
    BY <2>1, <2>2 DEF QuietInv, OrderPreserved, Quiet
<1>7. CASE Shutdown
  <2>1. shutdowns' = shutdowns + 1
    BY <1>7 DEF Shutdown
  <2>2. QED
    BY <1>a, <2>1 DEF QuietInv, OrderPreserved, Quiet
<1>8. CASE StopRelay \/ Exit \/ Crash \/ Restart \/ UNCHANGED vars
  <2>1. /\ UNCHANGED <<row, placedBefore, topic, faults, shutdowns>>
        /\ batch' = batch \/ batch' = {}
        /\ cancelled' => cancelled
        /\ relay' # relay => relay' # "markFailed"
    BY <1>8 DEF StopRelay, Exit, Crash, Restart, env, vars
  <2>2. QuietInv'
    BY <2>1 DEF QuietInv, Quiet
  <2>3. QED
    BY <1>b, <2>1, <2>2 DEF Quiet
<1>9. QED
  BY <1>1, <1>2, <1>3, <1>4, <1>5, <1>6, <1>7, <1>8 DEF Next, RelayStep, IdleTick

(* An order placed after another was committed is not published before it, *)
(* as long as the topic has one partition and nothing has failed or been   *)
(* shut down, whatever the commits' order and wherever the relay crashes   *)
(* (service.go:92, repository.go:87-113, relay.go:46-77).                  *)
THEOREM TopicKeepsOrder == Spec => []OrderPreserved
<1>1. Spec => []StampInv
  BY RInvariance, BatchInvariance, StampInvInit, StampInvStep, PTL DEF Spec
<1>2. Init => QuietInv /\ OrderPreserved
  BY DEF Init, QuietInv, OrderPreserved, Quiet
<1>3. QED
  BY <1>1, <1>2, RInvariance, BatchInvariance, PaidInvariance, QuietInvStep, PTL DEF Spec
================================================================================
