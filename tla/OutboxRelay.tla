------------------------------- MODULE OutboxRelay -------------------------------
(***************************************************************************)
(* The outbox relay of the order service (internal/order/relay.go): it     *)
(* polls the outbox table and publishes its PENDING rows to the Kafka      *)
(* topic, one at a time, through pkg/kafka/producer.go.                    *)
(*                                                                         *)
(* The orders themselves are reduced to what the relay sees of them: a row *)
(* whose created_at was taken before its transaction committed.            *)
(***************************************************************************)
EXTENDS Integers, Sequences, FiniteSets

CONSTANTS
  Messages,      \* outbox rows, one per order
  Keys,          \* message keys: user ids
  KeyOf,         \* KeyOf[m]: the user who placed the order
  NoMessage,     \* no message is being handled
  Partitions,    \* partitions of the topic
  Limit,         \* rows fetched at a time (100)
  MaxFaults,     \* bound: failures of Kafka or of the database
  MaxShutdowns,  \* bound: graceful shutdowns
  MaxCrashes     \* bound: crashes

ASSUME RelayAssumption ==
  /\ IsFiniteSet(Messages)
  /\ KeyOf \in [Messages -> Keys]
  /\ NoMessage \notin Messages
  /\ Partitions # {} /\ IsFiniteSet(Partitions)
  /\ Limit \in Nat \ {0}
  /\ {MaxFaults, MaxShutdowns, MaxCrashes} \subseteq Nat

VARIABLES
  row,        \* row[m]: status of m's outbox row, "absent" before the commit
  stamp,      \* stamp[m]: created_at, 0 before PlaceOrder reads the clock
  placedBefore, \* history: the rows committed when m's clock was read
  relay,      \* where the relay's goroutine is
  batch,      \* fetched messages not yet handled
  current,    \* the loop's msg, between its Publish and its update
  cancelled,  \* relayCtx is cancelled
  topic,      \* topic[q]: the messages in partition q
  faults, shutdowns, crashes

env  == <<row, stamp, placedBefore>>
vars == <<row, stamp, placedBefore, relay, batch, current, cancelled, topic, faults, shutdowns, crashes>>

Pending == {m \in Messages : row[m] = "PENDING"}

Copies(m) ==
  UNION {{<<q, i>> : i \in {j \in DOMAIN topic[q] : topic[q][j] = m}} : q \in Partitions}

Published(m) == \E q \in Partitions : \E i \in DOMAIN topic[q] : topic[q][i] = m

Init ==
  /\ row = [m \in Messages |-> "absent"]
  /\ stamp = [m \in Messages |-> 0]
  /\ placedBefore = [m \in Messages |-> {}]
  /\ relay = "idle"
  /\ batch = {}
  /\ current = NoMessage
  /\ cancelled = FALSE
  /\ topic = [q \in Partitions |-> <<>>]
  /\ faults = 0 /\ shutdowns = 0 /\ crashes = 0
-------------------------------------------------------------------------------
(* The order service *)

(* now := time.Now(), before the transaction begins (service.go:92).       *)
ReadClock(m) ==
  /\ relay # "down"
  /\ stamp[m] = 0
  /\ stamp' = [stamp EXCEPT ![m] = 1 + Cardinality({n \in Messages : stamp[n] > 0})]
  /\ placedBefore' = [placedBefore EXCEPT ![m] = {n \in Messages : row[n] # "absent"}]
  /\ UNCHANGED <<row, relay, batch, current, cancelled, topic, faults, shutdowns, crashes>>

(* Slip: a status the schema does not know. *)
InsertOutboxNew(m) ==
  /\ stamp[m] > 0
  /\ row[m] = "absent"
  /\ row' = [row EXCEPT ![m] = "NEW"]
  /\ UNCHANGED <<stamp, placedBefore, relay, batch, current, cancelled, topic, faults, shutdowns, crashes>>

(* The transaction commits, in any order of the clock readings; a COMMIT   *)
(* in flight when the process dies may still be applied.                   *)
InsertOutbox(m) ==
  /\ stamp[m] > 0
  /\ row[m] = "absent"
  /\ row' = [row EXCEPT ![m] = "PENDING"]
  /\ UNCHANGED <<stamp, placedBefore, relay, batch, current, cancelled, topic, faults, shutdowns, crashes>>
-------------------------------------------------------------------------------
(* The relay *)

(* Slip: wait for a full batch. *)
OldestFullBatch ==
  LET Older(m) == {n \in Pending : stamp[n] < stamp[m]}
  IN  IF Cardinality(Pending) < Limit THEN {} ELSE {m \in Pending : Cardinality(Older(m)) < Limit}

(* SELECT ... WHERE status = 'PENDING' ORDER BY created_at LIMIT 100.      *)
OldestPending ==
  LET Older(m) == {n \in Pending : stamp[n] < stamp[m]}
  IN  {m \in Pending : Cardinality(Older(m)) < Limit}

(* Slip: no ORDER BY, any message of the batch may come first. *)
AnyInBatch(m) == m \in batch

(* The batch is handled in the order of the query.                         *)
FirstInBatch(m) == m \in batch /\ \A n \in batch : stamp[m] <= stamp[n]

(* A tick finds nothing, or the query fails (always so once the context is *)
(* cancelled).                                                             *)
IdleTick == relay = "idle" /\ UNCHANGED vars

Fetch ==
  /\ relay = "idle"
  /\ ~cancelled
  /\ OldestPending # {}
  /\ batch' = OldestPending
  /\ relay' = "publish"
  /\ UNCHANGED <<env, current, cancelled, topic, faults, shutdowns, crashes>>

(* An operation fails for a reason counted by MaxFaults, or because the    *)
(* context is cancelled.                                                   *)
Fails ==
  /\ cancelled \/ faults < MaxFaults
  /\ faults' = IF cancelled THEN faults ELSE faults + 1

(* The loop's Publish of m returns, with the row to be marked next.        *)
Publishing(m, mark) ==
  /\ relay = "publish"
  /\ FirstInBatch(m)
  /\ current' = m
  /\ relay' = mark
  /\ UNCHANGED <<env, batch, cancelled, shutdowns, crashes>>

(* The writer picks the partition by the bytes sent, not by the key.       *)
Write(m, copies) ==
  \E q \in Partitions : topic' = [topic EXCEPT ![q] = @ \o copies]

Publish(m) ==
  /\ Publishing(m, "markProcessed")
  /\ ~cancelled
  /\ Write(m, <<m>>)
  /\ UNCHANGED faults

(* The writer retries after a lost acknowledgement and the broker keeps    *)
(* both copies.                                                            *)
PublishTwice(m) ==
  /\ Publishing(m, "markProcessed")
  /\ ~cancelled
  /\ Fails
  /\ Write(m, <<m, m>>)

(* Slip: the error of Publish is dropped. *)
PublishErrorIgnored(m) ==
  /\ Publishing(m, "markProcessed")
  /\ Fails
  /\ UNCHANGED topic

(* Publish returns an error; the message may have been written.            *)
PublishError(m) ==
  /\ Publishing(m, "markFailed")
  /\ Fails
  /\ Write(m, <<m>>) \/ UNCHANGED topic

(* The next message of the batch, or back to the ticker.                   *)
Advance ==
  /\ batch' = batch \ {current}
  /\ current' = NoMessage
  /\ relay' = IF batch = {current} THEN "idle" ELSE "publish"
  /\ UNCHANGED <<stamp, placedBefore, cancelled, topic, shutdowns, crashes>>

Status(mark) == IF mark = "markFailed" THEN "FAILED" ELSE "PROCESSED"

(* Slip: the row is not updated. *)
MarkForgotten(mark) ==
  /\ relay = mark
  /\ ~cancelled
  /\ Advance
  /\ UNCHANGED <<row, faults>>

(* MarkOutboxProcessed or MarkOutboxFailed.                                *)
Mark(mark) ==
  /\ relay = mark
  /\ ~cancelled
  /\ row' = [row EXCEPT ![current] = Status(mark)]
  /\ Advance
  /\ UNCHANGED faults

(* The update fails, and may have been applied all the same unless the     *)
(* context was already cancelled; the row is otherwise still PENDING.      *)
MarkError(mark) ==
  /\ relay = mark
  /\ Fails
  /\ \/ UNCHANGED row
     \/ ~cancelled /\ row' = [row EXCEPT ![current] = Status(mark)]
  /\ Advance

(* The loop sees ctx.Done(). *)
StopRelay ==
  /\ relay = "idle"
  /\ cancelled
  /\ relay' = "stopped"
  /\ UNCHANGED <<env, batch, current, cancelled, topic, faults, shutdowns, crashes>>
-------------------------------------------------------------------------------
(* The process *)

(* SIGTERM: relayCancel().  GracefulStop lets calls finish.                *)
Shutdown ==
  /\ relay # "down"
  /\ ~cancelled
  /\ shutdowns < MaxShutdowns
  /\ shutdowns' = shutdowns + 1
  /\ cancelled' = TRUE
  /\ UNCHANGED <<env, relay, batch, current, topic, faults, crashes>>

(* main returns without waiting for the relay's goroutine.                 *)
Exit ==
  /\ cancelled
  /\ relay # "down"
  /\ relay' = "down"
  /\ batch' = {}
  /\ current' = NoMessage
  /\ UNCHANGED <<env, cancelled, topic, faults, shutdowns, crashes>>

Crash ==
  /\ relay # "down"
  /\ crashes < MaxCrashes
  /\ crashes' = crashes + 1
  /\ relay' = "down"
  /\ batch' = {}
  /\ current' = NoMessage
  /\ UNCHANGED <<env, cancelled, topic, faults, shutdowns>>

Restart ==
  /\ relay = "down"
  /\ relay' = "idle"
  /\ cancelled' = FALSE
  /\ UNCHANGED <<env, batch, current, topic, faults, shutdowns, crashes>>

Marks == {"markProcessed", "markFailed"}

RelayStep ==
  \/ Fetch
  \/ \E m \in Messages : Publish(m)
  \/ \E mark \in Marks : Mark(mark)

Next ==
  \/ \E m \in Messages : ReadClock(m) \/ InsertOutbox(m)
  \/ RelayStep
  \/ \E m \in Messages : PublishTwice(m) \/ PublishError(m)
  \/ \E mark \in Marks : MarkError(mark)
  \/ IdleTick \/ StopRelay
  \/ Shutdown \/ Exit \/ Crash \/ Restart

Spec == Init /\ [][Next]_vars

(* The relay's loop runs as long as the process does, and a process told   *)
(* to stop exits.  Nothing restarts it by itself.                          *)
FairSpec == Spec /\ WF_vars(RelayStep) /\ WF_vars(Exit)
-------------------------------------------------------------------------------
(* Properties *)

(* The types of the variables.                                             *)
TypeOK ==
  /\ row \in [Messages -> {"absent", "PENDING", "PROCESSED", "FAILED"}]
  /\ stamp \in [Messages -> Nat]
  /\ placedBefore \in [Messages -> SUBSET Messages]
  /\ relay \in {"idle", "publish", "markProcessed", "markFailed", "stopped", "down"}
  /\ batch \in SUBSET Messages
  /\ current \in Messages \cup {NoMessage}
  /\ cancelled \in BOOLEAN
  /\ topic \in [Partitions -> Seq(Messages)]
  /\ faults \in Nat /\ shutdowns \in Nat /\ crashes \in Nat

(* A row is PROCESSED only if its message is in the topic: no order is     *)
(* reported as published and lost, whatever fails between the two writes.  *)
ProcessedWasPublished ==
  \A m \in Messages : row[m] = "PROCESSED" => Published(m)

(* Each copy of a message beyond the first is paid for by a failure, a     *)
(* shutdown or a crash.                                                    *)
DuplicatesExplained ==
  \A m \in Messages : Cardinality(Copies(m)) <= 1 + faults + shutdowns + crashes

(* With one partition and, so far, no failure and no shutdown, an order    *)
(* placed after another was committed is never published before it, even   *)
(* when the relay crashes half way through a batch.                        *)
OrderPreserved ==
  Cardinality(Partitions) = 1 /\ faults = 0 /\ shutdowns = 0 =>
  \A q \in Partitions, m, n \in Messages :
    m \in placedBefore[n] =>
      \A i \in DOMAIN topic[q] : topic[q][i] = n => \E j \in 1 .. i : topic[q][j] = m

Promise == INSTANCE OutboxPromise

(* Seen from the two tables it joins, the relay is the outbox of           *)
(* OutboxPromise: nothing reaches the topic before its order was committed *)
(* or after its row was settled, a row settles once, and no order is       *)
(* reported as published and lost, whatever fails between the two writes.  *)
KeepsPromise == Promise!OSpec

(* A committed row does not stay PENDING while the process is up.          *)
EventuallySettled ==
  \A m \in Messages :
    (row[m] = "PENDING") ~> (row[m] \in {"PROCESSED", "FAILED"} \/ relay = "down")

================================================================================
