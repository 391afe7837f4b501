------------------------------ MODULE MatchingEngine ------------------------------
(***************************************************************************)
(* The matching engine as a process: it reads the orders topic through     *)
(* pkg/kafka/consumer.go, matches one message at a time in the LimitBook   *)
(* and publishes the trades (internal/matching/engine.go).                 *)
(*                                                                         *)
(* The topic has one partition here, and the consumer group one member.    *)
(* Messages carry neither an id nor a CreatedAt the engine understands     *)
(* (service.go:108-119), so a message that is read again becomes a new     *)
(* order.                                                                  *)
(***************************************************************************)
EXTENDS LimitBook

CONSTANTS
  Malformed,  \* a payload Unmarshal refuses: NUMERIC takes the price "NaN", decimal does not
  Inputs,     \* the messages the relay may publish; at most MaxOrders of them
  MaxFaults,  \* bound: publishes and commits that go wrong
  MaxStops,   \* bound: graceful shutdowns
  MaxCrashes  \* bound: crashes

ASSUME EngineAssumption ==
  /\ Malformed \notin Kind
  /\ Inputs \subseteq Kind \cup {Malformed}
  /\ {MaxFaults, MaxStops, MaxCrashes} \subseteq Nat

VARIABLES
  topic,      \* the orders topic
  position,   \* messages the reader has returned
  committed,  \* the group's offset at the broker
  phase,      \* where the engine is
  from,       \* history: from[i] is the place in topic of order i's message
  sent,       \* trades dealt with by the publishing loop, or lost in a crash
  published,  \* the trades topic, trades by number
  faults, stops, crashes

engineVars == <<topic, position, committed, phase, from, sent, published, faults, stops, crashes>>
allVars    == <<bookVars, engineVars>>

EngineInit ==
  /\ Init
  /\ topic = <<>> /\ position = 0 /\ committed = 0
  /\ phase = "reading"
  /\ from = <<>> /\ sent = 0 /\ published = <<>>
  /\ faults = 0 /\ stops = 0 /\ crashes = 0
-------------------------------------------------------------------------------
(* The relay appends messages.                                             *)
Produce(messages) ==
  /\ Len(topic) + Len(messages) <= MaxOrders
  /\ topic' = topic \o messages
  /\ UNCHANGED <<bookVars, position, committed, phase, from, sent, published, faults, stops, crashes>>

IsOrder(m) == m # Malformed /\ Valid(m)

(* Slip: a message that cannot be handled is read again. *)
DropRetried ==
  /\ phase = "reading" /\ position < Len(topic)
  /\ ~IsOrder(topic[position + 1])
  /\ UNCHANGED allVars

(* ReadMessage returns the next message; Unmarshal or validateOrder fails  *)
(* and the handler returns nil.                                            *)
Drop ==
  /\ phase = "reading" /\ position < Len(topic)
  /\ ~IsOrder(topic[position + 1])
  /\ position' = position + 1
  /\ UNCHANGED <<bookVars, topic, committed, phase, from, sent, published, faults, stops, crashes>>

(* ReadMessage returns an order, which is matched next.                    *)
Handle ==
  /\ phase = "reading" /\ position < Len(topic)
  /\ IsOrder(topic[position + 1])
  /\ Accept(topic[position + 1])
  /\ position' = position + 1
  /\ from' = Append(from, position + 1)
  /\ phase' = "matching"
  /\ UNCHANGED <<topic, committed, sent, published, faults, stops, crashes>>

Match ==
  /\ phase = "matching"
  /\ MatchBest
  /\ UNCHANGED engineVars

(* Slip: only the trades of an order that is used up are published. *)
InsertRestAndForget ==
  /\ phase = "matching"
  /\ Insert
  /\ phase' = IF remaining > 0 THEN "reading" ELSE "publishing"
  /\ sent' = IF remaining > 0 THEN Len(trades) ELSE sent
  /\ UNCHANGED <<topic, position, committed, from, published, faults, stops, crashes>>

InsertRest ==
  /\ phase = "matching"
  /\ Insert
  /\ phase' = "publishing"
  /\ UNCHANGED <<topic, position, committed, from, sent, published, faults, stops, crashes>>

(* The loop over the trades Match returned.                                *)
PublishTrade ==
  /\ phase = "publishing" /\ sent < Len(trades)
  /\ sent' = sent + 1
  /\ published' = Append(published, sent + 1)
  /\ UNCHANGED <<bookVars, topic, position, committed, phase, from, faults, stops, crashes>>

(* The publish fails, which is only logged, and the trade may have been    *)
(* written; or the writer's retry writes it twice.                         *)
PublishFault ==
  /\ phase = "publishing" /\ sent < Len(trades)
  /\ faults < MaxFaults
  /\ faults' = faults + 1
  /\ sent' = sent + 1
  /\ published' \in {published, Append(published, sent + 1), published \o <<sent + 1, sent + 1>>}
  /\ UNCHANGED <<bookVars, topic, position, committed, phase, from, stops, crashes>>

HandlerReturns ==
  /\ phase = "publishing" /\ sent = Len(trades)
  /\ phase' = "reading"
  /\ UNCHANGED <<bookVars, topic, position, committed, from, sent, published, faults, stops, crashes>>

(* ReadMessage hands the message's offset to a goroutine that commits once *)
(* a CommitInterval, whatever the handler is doing.                        *)
CommitTick ==
  /\ phase # "down" /\ committed < position
  /\ committed' = position
  /\ UNCHANGED <<bookVars, topic, position, phase, from, sent, published, faults, stops, crashes>>
-------------------------------------------------------------------------------
(* The process *)

(* The book lives in memory only. *)
ForgetBook ==
  /\ book' = {}
  /\ incoming' = 0
  /\ remaining' = 0
  /\ unmet' = IF incoming = 0 THEN unmet ELSE Append(unmet, remaining)
  /\ UNCHANGED <<order, trades>>

(* Slip: the offsets read since the last tick are not committed. *)
StopUnflushed ==
  /\ phase = "reading"
  /\ stops < MaxStops
  /\ stops' = stops + 1
  /\ phase' = "down"
  /\ ForgetBook
  /\ UNCHANGED <<topic, position, from, sent, published, committed, crashes, faults>>

(* SIGTERM cancels the context; Run returns when the handler has, and      *)
(* closing the reader commits what is left, if the broker answers.         *)
Stop ==
  /\ phase = "reading"
  /\ stops < MaxStops
  /\ stops' = stops + 1
  /\ phase' = "down"
  /\ \/ committed' = position /\ UNCHANGED faults
     \/ faults < MaxFaults /\ faults' = faults + 1 /\ UNCHANGED committed
  /\ ForgetBook
  /\ UNCHANGED <<topic, position, from, sent, published, crashes>>

Crash ==
  /\ phase # "down"
  /\ crashes < MaxCrashes
  /\ crashes' = crashes + 1
  /\ phase' = "down"
  /\ sent' = Len(trades)
  /\ ForgetBook
  /\ UNCHANGED <<topic, position, committed, from, published, faults, stops>>

(* Slip: StartOffset applies although the group has an offset. *)
RestartFromFirst ==
  /\ phase = "down"
  /\ phase' = "reading"
  /\ position' = 0
  /\ UNCHANGED <<bookVars, topic, committed, from, sent, published, faults, stops, crashes>>

(* main starts with an empty book and the reader at the group's offset.    *)
Restart ==
  /\ phase = "down"
  /\ phase' = "reading"
  /\ position' = committed
  /\ UNCHANGED <<bookVars, topic, committed, from, sent, published, faults, stops, crashes>>

(* The relay publishes no more and every message has been read.            *)
EngineQuiet ==
  /\ phase = "reading" /\ position = MaxOrders /\ committed = position
  /\ UNCHANGED allVars

EngineStep ==
  \/ Drop \/ Handle \/ Match \/ InsertRest \/ PublishTrade \/ HandlerReturns

(* Everything but new messages.                                            *)
EngineProcess ==
  \/ EngineStep
  \/ PublishFault \/ CommitTick
  \/ Stop \/ Crash \/ Restart

EngineNext ==
  \/ \E m \in Inputs : Produce(<<m>>)
  \/ EngineProcess
  \/ EngineQuiet

EngineSpec == EngineInit /\ [][EngineNext]_allVars
-------------------------------------------------------------------------------
(* Properties *)

(* The types of the variables; the offset never passes the reader.         *)
EngineTypeOK ==
  /\ TypeOK
  /\ topic \in Seq(Inputs)
  /\ position \in 0 .. Len(topic) /\ committed \in 0 .. position
  /\ phase \in {"reading", "matching", "publishing", "down"}
  /\ from \in Seq(1 .. Len(topic)) /\ Len(from) = Len(order)
  /\ sent \in 0 .. Len(trades)
  /\ published \in Seq(DOMAIN trades)
  /\ faults \in Nat /\ stops \in Nat /\ crashes \in Nat

(* Every valid message the reader has passed was handled, whatever         *)
(* happened, and again only after a crash or a failed last commit: a crash *)
(* loses what came of a message, never the reading of it.  Without these   *)
(* each is handled once and in the order of the topic, across graceful     *)
(* restarts too.                                                           *)
MessagesHandled ==
  /\ \A o \in DOMAIN topic :
       LET times == Cardinality({i \in DOMAIN from : from[i] = o}) IN
       /\ o <= position /\ IsOrder(topic[o]) => times >= 1
       /\ times >= 1 => IsOrder(topic[o])
       /\ times <= 1 + crashes + faults
  /\ crashes = 0 /\ faults = 0 =>
       \A i, j \in DOMAIN from : from[j] <= position /\ (i < j => from[i] < from[j])

(* Without crashes and failures the trades topic holds the trades made, in *)
(* the order they were made, when the engine is ready for the next message.*)
TradesReported ==
  crashes = 0 /\ faults = 0 /\ phase \in {"reading", "down"} =>
    published = [t \in DOMAIN trades |-> t]

(* A claim the code does not keep: "Replay ensures the orderbook is        *)
(* correctly rebuilt after a restart or crash" (12-architecture.md:94):    *)
(* before it reads on, the engine has in its book every order that is not  *)
(* filled.                                                                 *)
BookRebuilt ==
  phase = "reading" => \A i \in DOMAIN order : RemainingQty(i) > 0 => i \in book
================================================================================
