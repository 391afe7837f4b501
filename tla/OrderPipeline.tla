------------------------------ MODULE OrderPipeline ------------------------------
(***************************************************************************)
(* From the outbox to the trades: orders are committed with their outbox   *)
(* rows, the relay writes them to the orders topic and the matching engine *)
(* reads it.  The relay is the one of OutboxPromise, which OutboxRelay     *)
(* implements; it may write a message twice.  The engine does not look at  *)
(* an order's id, so each copy is an order of its own to it.               *)
(***************************************************************************)
EXTENDS MatchingEngine

CONSTANTS
  Orders,   \* the orders placed, and their outbox rows
  Payloads  \* Payloads[o]: what the message of order o may say

ASSUME PipelineAssumption == Payloads \in [Orders -> SUBSET Inputs]

VARIABLES
  payload,  \* payload[o]: what the message of order o says
  row,      \* row[o]: status of its outbox row
  log       \* log[1]: whose messages are in the topic's partition

pipeVars == <<allVars, payload, row, log>>

Outbox == INSTANCE OutboxPromise WITH
  Messages <- Orders, Partitions <- {1}, topic <- log

PipelineInit ==
  /\ EngineInit
  /\ Outbox!OInit
  /\ payload = [o \in Orders |-> Malformed]

(* PlaceOrder commits an order and its event.                              *)
Commit(o) ==
  /\ Outbox!Insert(o)
  /\ \E m \in Payloads[o] : payload' = [payload EXCEPT ![o] = m]
  /\ UNCHANGED allVars

Relay(o) ==
  /\ Outbox!WriteTo(1, o)
  /\ Produce([i \in 1 .. Len(log'[1]) - Len(log[1]) |-> payload[o]])
  /\ UNCHANGED payload

Mark(o) == Outbox!Settle(o) /\ UNCHANGED <<allVars, payload>>

(* The relay is done and the engine has read what there is.                *)
PipelineQuiet ==
  /\ \A o \in Orders : row[o] # "absent"
  /\ phase = "reading" /\ position = Len(topic) /\ committed = position
  /\ UNCHANGED pipeVars

PipelineNext ==
  \/ \E o \in Orders : Commit(o) \/ Relay(o) \/ Mark(o)
  \/ EngineProcess /\ UNCHANGED <<payload, row, log>>
  \/ PipelineQuiet

PipelineSpec == PipelineInit /\ [][PipelineNext]_pipeVars

(* Run's loop goes on as long as the process does.  Nothing restarts it.   *)
FairPipelineSpec == PipelineSpec /\ WF_pipeVars(EngineStep /\ UNCHANGED <<payload, row, log>>)
-------------------------------------------------------------------------------
(* Properties *)

Copies(o) == {i \in DOMAIN log[1] : log[1][i] = o}

(* What the engine made of order o.                                        *)
Bookings(o) == {i \in DOMAIN from : log[1][from[i]] = o}

Executed(o) == Traded(UNION {Taking(i) \cup Making(i) : i \in Bookings(o)})

(* Nothing trades that was not committed as an order, and no order trades  *)
(* more than the whole pipeline can account for: once for each copy the    *)
(* relay wrote and each crash or lost offset that had it read again, and   *)
(* for each of these up to twice its quantity.                             *)
ExecutionsExplained ==
  \A o \in Orders :
    LET times == Cardinality(Copies(o)) * (1 + crashes + faults) IN
    /\ row[o] = "absent" => Bookings(o) = {}
    /\ Cardinality(Bookings(o)) <= times
    /\ Bookings(o) # {} => Executed(o) <= 2 * payload[o].qty * times

(* An order reported as published reaches the engine, unless the engine    *)
(* cannot read it or is down: neither a bad message before it nor a        *)
(* restart makes the engine pass it by.                                    *)
OrdersReachEngine ==
  \A o \in Orders :
    (row[o] = "PROCESSED") ~> (phase = "down" \/ Bookings(o) # {} \/ ~IsOrder(payload[o]))
================================================================================
