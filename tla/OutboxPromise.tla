------------------------------ MODULE OutboxPromise ------------------------------
(***************************************************************************)
(* What the outbox promises the readers of the orders topic: a message is  *)
(* written only for a row that was committed and is not settled, perhaps   *)
(* more than once; a row settles once, as PROCESSED only after a write.    *)
(*                                                                         *)
(* OutboxRelay implements this specification, and OrderPipeline feeds the  *)
(* matching engine through it.                                             *)
(***************************************************************************)
EXTENDS Sequences

CONSTANTS Messages, Partitions

VARIABLES
  row,   \* row[m]: status of m's outbox row, "absent" before the commit
  topic  \* topic[q]: the messages in partition q

outboxVars == <<row, topic>>

OInit ==
  /\ row = [m \in Messages |-> "absent"]
  /\ topic = [q \in Partitions |-> <<>>]

Written(m) == \E q \in Partitions : \E i \in DOMAIN topic[q] : topic[q][i] = m

Insert(m) ==
  /\ row[m] = "absent"
  /\ row' = [row EXCEPT ![m] = "PENDING"]
  /\ UNCHANGED topic

(* A write, doubled if the writer retries after a lost acknowledgement.    *)
WriteTo(q, m) ==
  /\ row[m] = "PENDING"
  /\ \E copies \in {<<m>>, <<m, m>>} : topic' = [topic EXCEPT ![q] = @ \o copies]
  /\ UNCHANGED row

Settle(m) ==
  /\ row[m] = "PENDING"
  /\ \/ Written(m) /\ row' = [row EXCEPT ![m] = "PROCESSED"]
     \/ row' = [row EXCEPT ![m] = "FAILED"]
  /\ UNCHANGED topic

ONext == \E m \in Messages :
  Insert(m) \/ Settle(m) \/ \E q \in Partitions : WriteTo(q, m)

OSpec == OInit /\ [][ONext]_outboxVars
================================================================================
