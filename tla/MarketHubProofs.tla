----------------------------- MODULE MarketHubProofs -----------------------------
(***************************************************************************)
(* Proofs about the market service, for any connections, symbols, limit    *)
(* and buffer sizes.                                                       *)
(***************************************************************************)
EXTENDS MarketHub, FiniteSetTheorems, SequenceTheorems, TLAPS

(* Who holds a place in activeConnections.                                 *)
Counted == {c \in Clients : /\ accept[c] \in {"counted", "subscribing", "subscribed", "served"}
                            /\ reader[c] \in {"none", "reading", "failed"}}

CounterInv == IsFiniteSet(Counted) /\ active = Cardinality(Counted)

(* The goroutines of a connection start with it, and not before the hub    *)
(* knows the client.                                                       *)
PumpInv == \A c \in Clients : reader[c] # "none" => accept[c] = "served"

(* While the hub is in select it is serving nobody, and whoever it is      *)
(* serving is in its map.                                                  *)
FanOutInv ==
  /\ todo \subseteq clients
  /\ hub # "fanout" => todo = {}

IInv == TypeOK /\ CounterInv /\ PumpInv /\ FanOutInv /\ ChannelsSound
-------------------------------------------------------------------------------
LEMMA InitIInv == Init => IInv
<1> SUFFICES ASSUME Init PROVE IInv
  OBVIOUS
<1> USE DEF Init
<1>1. TypeOK
  <2>1. /\ Len(<<>>) = 0 /\ <<>> \in Seq(Nat) /\ <<>> \in Seq(Symbols)
        /\ SendBuffer \in Nat /\ HubBuffer \in Nat /\ MaxTrades \in Nat
    BY HubAssumption
  <2>2. /\ \A c \in Clients : Len(send[c]) <= SendBuffer
        /\ Len(broadcast) <= HubBuffer
    BY <2>1
  <2>3. QED
    BY <2>1, <2>2 DEF TypeOK
<1>2. Counted = {}
  BY DEF Counted
<1>3. CounterInv
  BY <1>2, FS_EmptySet DEF CounterInv
<1>4. PumpInv /\ FanOutInv /\ ChannelsSound
  BY DEF PumpInv, FanOutInv, ChannelsSound
<1>5. QED
  BY <1>1, <1>3, <1>4 DEF IInv
-------------------------------------------------------------------------------
(* The counter *)

LEMMA CounterKept ==
  ASSUME CounterInv, Counted' = Counted, active' = active
  PROVE  CounterInv'
BY DEF CounterInv

LEMMA CounterUp ==
  ASSUME CounterInv, NEW c \in Clients, c \notin Counted,
         Counted' = Counted \cup {c}, active' = active + 1
  PROVE  CounterInv' /\ active' \in Nat
<1>1. IsFiniteSet(Counted \cup {c}) /\ Cardinality(Counted \cup {c}) = Cardinality(Counted) + 1
  BY FS_AddElement DEF CounterInv
<1>2. QED
  BY <1>1, FS_CardinalityType DEF CounterInv

LEMMA CounterDown ==
  ASSUME CounterInv, NEW c \in Clients, c \in Counted,
         Counted' = Counted \ {c}, active' = active - 1
  PROVE  CounterInv' /\ active' \in Nat
<1>1. IsFiniteSet(Counted \ {c}) /\ Cardinality(Counted \ {c}) = Cardinality(Counted) - 1
  BY FS_RemoveElement DEF CounterInv
<1>2. QED
  BY <1>1, FS_CardinalityType DEF CounterInv
-------------------------------------------------------------------------------
(* The handler *)

LEMMA HandlerIInv ==
  ASSUME IInv, NEW c \in Clients, HandlerStep(c)
  PROVE  IInv'
<1> USE DEF IInv, At
<1>1. CASE CheckLimit(c)
  <2>1. TypeOK'
    BY <1>1 DEF TypeOK, CheckLimit, pumpVars, chanVars, hubVars, envVars
  <2>2. Counted' = Counted /\ active' = active
    BY <1>1 DEF TypeOK, CheckLimit, Counted, pumpVars
  <2>3. PumpInv' /\ FanOutInv' /\ ChannelsSound'
    BY <1>1 DEF TypeOK, CheckLimit, PumpInv, FanOutInv, ChannelsSound, pumpVars, chanVars, hubVars
  <2>4. QED
    BY <2>1, <2>2, <2>3, CounterKept
<1>2. CASE Count(c)
  <2>1. c \notin Counted /\ Counted' = Counted \cup {c} /\ active' = active + 1
    BY <1>2 DEF TypeOK, Count, Counted, PumpInv, pumpVars
  <2>2. CounterInv' /\ active' \in Nat
    BY <2>1, CounterUp
  <2>3. TypeOK'
    BY <1>2, <2>2 DEF TypeOK, Count, pumpVars, chanVars, hubVars, envVars
  <2>4. PumpInv' /\ FanOutInv' /\ ChannelsSound'
    BY <1>2 DEF TypeOK, Count, PumpInv, FanOutInv, ChannelsSound, pumpVars, chanVars, hubVars
  <2>5. QED
    BY <2>2, <2>3, <2>4
<1>3. CASE Upgrade(c)
  <2>1. TypeOK'
    BY <1>3 DEF TypeOK, Upgrade, pumpVars, chanVars, hubVars, envVars
  <2>2. Counted' = Counted /\ active' = active
    BY <1>3 DEF TypeOK, Upgrade, Counted, pumpVars
  <2>3. PumpInv' /\ FanOutInv' /\ ChannelsSound'
    BY <1>3 DEF TypeOK, Upgrade, PumpInv, FanOutInv, ChannelsSound, pumpVars, chanVars, hubVars
  <2>4. QED
    BY <2>1, <2>2, <2>3, CounterKept
<1>4. CASE UpgradeFails(c)
  <2>1. c \in Counted /\ Counted' = Counted \ {c} /\ active' = active - 1
    BY <1>4 DEF TypeOK, UpgradeFails, Counted, PumpInv, pumpVars
  <2>2. CounterInv' /\ active' \in Nat
    BY <2>1, CounterDown
  <2>3. TypeOK'
    BY <1>4, <2>2 DEF TypeOK, UpgradeFails, pumpVars, chanVars, hubVars, envVars
  <2>4. PumpInv' /\ FanOutInv' /\ ChannelsSound'
    BY <1>4 DEF TypeOK, UpgradeFails, PumpInv, FanOutInv, ChannelsSound, pumpVars, chanVars, hubVars
  <2>5. QED
    BY <2>2, <2>3, <2>4
<1>5. CASE Serve(c)
  <2>1. TypeOK'
    BY <1>5 DEF TypeOK, Serve, chanVars, hubVars, envVars
  <2>2. reader[c] = "none"
    BY <1>5 DEF TypeOK, Serve, PumpInv
  <2>3. Counted' = Counted /\ active' = active
    BY <1>5, <2>2 DEF TypeOK, Serve, Counted
  <2>4. PumpInv' /\ FanOutInv' /\ ChannelsSound'
    BY <1>5 DEF TypeOK, Serve, PumpInv, FanOutInv, ChannelsSound, chanVars, hubVars
  <2>5. QED
    BY <2>1, <2>3, <2>4, CounterKept
<1>6. QED
  BY <1>1, <1>2, <1>3, <1>4, <1>5 DEF HandlerStep
-------------------------------------------------------------------------------
(* The hub *)

LEMMA RegisterIInv ==
  ASSUME IInv, NEW c \in Clients, Register(c)
  PROVE  IInv'
<1> USE DEF IInv, At
<1>1. Len(log) \in Nat
  BY DEF TypeOK
<1>2. TypeOK'
  BY <1>1 DEF TypeOK, Register, pumpVars, hubVars, envVars
<1>3. Counted' = Counted /\ active' = active
  BY DEF TypeOK, Register, Counted, pumpVars
<1>4. PumpInv' /\ FanOutInv'
  BY DEF TypeOK, Register, PumpInv, FanOutInv, pumpVars, hubVars
<1>5. ChannelsSound'
  BY DEF TypeOK, Register, FanOutInv, ChannelsSound, hubVars
<1>6. QED
  BY <1>2, <1>3, <1>4, <1>5, CounterKept

LEMMA UnregisterIInv ==
  ASSUME IInv, NEW c \in Clients, Unregister(c)
  PROVE  IInv'
<1> USE DEF IInv, Forget
<1>1. TypeOK'
  BY DEF TypeOK, Unregister, connVars, hubVars, envVars
<1>2. Counted' = Counted /\ active' = active
  BY DEF TypeOK, Unregister, Counted, connVars
<1>3. PumpInv'
  BY DEF TypeOK, Unregister, PumpInv, connVars
<1>4. FanOutInv'
  BY DEF TypeOK, Unregister, FanOutInv, hubVars
<1>5. ChannelsSound'
  BY DEF TypeOK, Unregister, FanOutInv, ChannelsSound, hubVars, connVars
<1>6. QED
  BY <1>1, <1>2, <1>3, <1>4, <1>5, CounterKept

(* What the fan-out leaves alone in serving c.                             *)
LEMMA ServedFact ==
  ASSUME IInv, NEW c \in Clients, Served(c)
  PROVE  /\ PumpInv' /\ CounterInv' /\ c \in clients
         /\ todo' = todo \ {c} /\ hub' \in {"select", "fanout"}
         /\ hub' # "fanout" => todo' = {}
<1> USE DEF IInv, Served
<1>1. Counted' = Counted /\ active' = active
  BY DEF Counted, connVars, pumpVars
<1>2. PumpInv' /\ c \in clients
  BY DEF PumpInv, FanOutInv, connVars, pumpVars
<1>3. QED
  BY <1>1, <1>2, CounterKept

LEMMA DeliverIInv ==
  ASSUME IInv, NEW c \in Clients, Deliver(c)
  PROVE  IInv'
<1> USE DEF IInv
<1>1. Served(c)
  BY DEF Deliver
<1>2. send' \in [Clients -> Seq(Nat)] /\ \A d \in Clients : Len(send'[d]) <= SendBuffer
  <2>1. send[c] \in Seq(Nat) /\ Len(log) \in Nat /\ SendBuffer \in Nat
    BY HubAssumption DEF TypeOK
  <2>2. Append(send[c], Len(log)) \in Seq(Nat) /\ Len(Append(send[c], Len(log))) <= SendBuffer
    BY <2>1 DEF Deliver
  <2>3. send' = [send EXCEPT ![c] = Append(send[c], Len(log))]
    BY DEF Deliver
  <2>4. QED
    BY <2>2, <2>3 DEF TypeOK
<1>3. TypeOK'
  BY <1>1, <1>2, ServedFact DEF TypeOK, Deliver, Served, connVars, pumpVars, envVars
<1>4. FanOutInv' /\ ChannelsSound'
  BY <1>1, ServedFact DEF FanOutInv, ChannelsSound, Deliver, Served, connVars
<1>5. QED
  BY <1>1, <1>3, <1>4, ServedFact

LEMMA DropSlowIInv ==
  ASSUME IInv, NEW c \in Clients, DropSlow(c)
  PROVE  IInv'
<1> USE DEF IInv, Forget
<1>1. Served(c)
  BY DEF DropSlow
<1>2. TypeOK'
  BY <1>1, ServedFact DEF TypeOK, DropSlow, Served, connVars, pumpVars, envVars
<1>3. FanOutInv'
  BY <1>1, ServedFact DEF FanOutInv, DropSlow
<1>4. ChannelsSound'
  BY <1>1, ServedFact DEF FanOutInv, ChannelsSound, DropSlow, Served, connVars
<1>5. QED
  BY <1>1, <1>2, <1>3, <1>4, ServedFact

LEMMA TakeTradeIInv ==
  ASSUME IInv, TakeTrade
  PROVE  IInv'
<1> USE DEF IInv
<1>1. broadcast \in Seq(Symbols) /\ broadcast # <<>> /\ log \in Seq(Symbols)
      /\ Len(broadcast) <= HubBuffer /\ HubBuffer \in Nat
  BY HubAssumption DEF TypeOK, TakeTrade
<1>2. /\ broadcast' \in Seq(Symbols) /\ Len(broadcast') <= HubBuffer
      /\ log' \in Seq(Symbols)
  <2>1. Head(broadcast) \in Symbols /\ Tail(broadcast) \in Seq(Symbols)
        /\ Len(Tail(broadcast)) = Len(broadcast) - 1
    BY <1>1
  <2>2. QED
    BY <1>1, <2>1 DEF TakeTrade
<1>3. todo' \subseteq clients /\ hub' \in {"select", "fanout"} /\ (hub' # "fanout" => todo' = {})
  BY DEF TakeTrade
<1>4. TypeOK'
  BY <1>2, <1>3 DEF TypeOK, TakeTrade, connVars, pumpVars, chanVars, envVars
<1>5. Counted' = Counted /\ active' = active
  BY DEF TakeTrade, Counted, connVars, pumpVars
<1>6. PumpInv' /\ FanOutInv' /\ ChannelsSound'
  BY <1>3 DEF TakeTrade, PumpInv, FanOutInv, ChannelsSound, connVars, pumpVars, chanVars
<1>7. QED
  BY <1>4, <1>5, <1>6, CounterKept

LEMMA HubStopsIInv ==
  ASSUME IInv, HubStops
  PROVE  IInv'
<1> USE DEF IInv
<1>1. TypeOK'
  BY DEF TypeOK, HubStops, connVars, pumpVars, chanVars, envVars
<1>2. Counted' = Counted /\ active' = active
  BY DEF HubStops, Counted, connVars, pumpVars
<1>3. PumpInv' /\ FanOutInv' /\ ChannelsSound'
  BY DEF HubStops, PumpInv, FanOutInv, ChannelsSound, connVars, pumpVars, chanVars
<1>4. QED
  BY <1>1, <1>2, <1>3, CounterKept

LEMMA HubIInv == IInv /\ HubStep => IInv'
BY RegisterIInv, UnregisterIInv, DeliverIInv, DropSlowIInv, TakeTradeIInv, HubStopsIInv DEF HubStep
-------------------------------------------------------------------------------
(* The consumer and the shutdown *)

LEMMA OutsideIInv ==
  ASSUME IInv, Shutdown \/ \E s \in Symbols : Broadcast(s)
  PROVE  IInv'
<1> USE DEF IInv
<1>1. broadcast' \in Seq(Symbols) /\ Len(broadcast') <= HubBuffer
  <2>1. CASE Shutdown
    BY <2>1 DEF TypeOK, Shutdown, hubVars
  <2>2. ASSUME NEW s \in Symbols, Broadcast(s) PROVE broadcast' \in Seq(Symbols) /\ Len(broadcast') <= HubBuffer
    <3>1. broadcast \in Seq(Symbols) /\ Len(broadcast) < HubBuffer /\ HubBuffer \in Nat
      BY <2>2, HubAssumption DEF TypeOK, Broadcast
    <3>2. broadcast' = Append(broadcast, s)
      BY <2>2 DEF Broadcast
    <3>3. QED
      BY <3>1, <3>2
  <2>3. QED
    BY <2>1, <2>2
<1>2. shutdown' \in BOOLEAN /\ last' \in Nat /\ consumed' \in Nat
  <2>1. shutdown \in BOOLEAN /\ last \in Nat /\ consumed \in Nat
    BY DEF TypeOK
  <2>2. CASE Shutdown
    BY <2>1, <2>2 DEF Shutdown
  <2>3. ASSUME NEW s \in Symbols, Broadcast(s)
        PROVE  shutdown' \in BOOLEAN /\ last' \in Nat /\ consumed' \in Nat
    BY <2>1, <2>3 DEF Broadcast, envVars
  <2>4. QED
    BY <2>2, <2>3
<1>3. UNCHANGED <<connVars, pumpVars, chanVars, hub, todo, log>>
  BY DEF Shutdown, Broadcast, hubVars
<1>4. TypeOK'
  BY <1>1, <1>2, <1>3 DEF TypeOK, connVars, pumpVars, chanVars
<1>5. Counted' = Counted /\ active' = active
  BY <1>3 DEF Counted, connVars, pumpVars
<1>6. PumpInv' /\ FanOutInv' /\ ChannelsSound'
  BY <1>3 DEF PumpInv, FanOutInv, ChannelsSound, connVars, pumpVars, chanVars
<1>7. QED
  BY <1>4, <1>5, <1>6, CounterKept
-------------------------------------------------------------------------------
(* A connection's goroutines *)

LEMMA ReaderIInv ==
  ASSUME IInv, NEW c \in Clients, ReadFails(c) \/ ReadStep(c)
  PROVE  IInv'
<1> USE DEF IInv, Reads
<1>1. CASE ReadFails(c)
  <2>1. TypeOK'
    BY <1>1 DEF TypeOK, ReadFails, connVars, chanVars, hubVars, envVars
  <2>2. Counted' = Counted /\ active' = active
    BY <1>1 DEF TypeOK, ReadFails, Counted, connVars
  <2>3. PumpInv' /\ FanOutInv' /\ ChannelsSound'
    BY <1>1 DEF TypeOK, ReadFails, PumpInv, FanOutInv, ChannelsSound, connVars, chanVars, hubVars
  <2>4. QED
    BY <2>1, <2>2, <2>3, CounterKept
<1>2. CASE Decrement(c)
  <2>1. c \in Counted /\ Counted' = Counted \ {c} /\ active' = active - 1
    BY <1>2 DEF TypeOK, Decrement, Counted, PumpInv
  <2>2. CounterInv' /\ active' \in Nat
    BY <2>1, CounterDown
  <2>3. TypeOK'
    BY <1>2, <2>2 DEF TypeOK, Decrement, chanVars, hubVars, envVars
  <2>4. PumpInv' /\ FanOutInv' /\ ChannelsSound'
    BY <1>2 DEF TypeOK, Decrement, PumpInv, FanOutInv, ChannelsSound, chanVars, hubVars
  <2>5. QED
    BY <2>2, <2>3, <2>4
<1>3. CASE CloseConn(c)
  <2>1. TypeOK'
    BY <1>3 DEF TypeOK, CloseConn, connVars, chanVars, hubVars, envVars
  <2>2. Counted' = Counted /\ active' = active
    BY <1>3 DEF TypeOK, CloseConn, Counted, connVars
  <2>3. PumpInv' /\ FanOutInv' /\ ChannelsSound'
    BY <1>3 DEF TypeOK, CloseConn, PumpInv, FanOutInv, ChannelsSound, connVars, chanVars, hubVars
  <2>4. QED
    BY <2>1, <2>2, <2>3, CounterKept
<1>4. QED
  BY <1>1, <1>2, <1>3 DEF ReadStep

LEMMA WriterIInv ==
  ASSUME IInv, NEW c \in Clients, WriteStep(c)
  PROVE  IInv'
<1> USE DEF IInv, Writes
<1>1. writer' \in [Clients -> {"none", "waiting", "exited"}]
  <2>1. \E there \in {"waiting", "exited"} : writer' = [writer EXCEPT ![c] = there]
    BY DEF WriteStep, WriteTrade, WriteFails, WriteEnds
  <2>2. QED
    BY <2>1 DEF TypeOK
<1>2. UNCHANGED <<connVars, reader, hung, closed, clients, hubVars, envVars>>
  BY DEF WriteStep, WriteTrade, WriteFails, WriteEnds, chanVars
<1>3. send[c] \in Seq(Nat) /\ SendBuffer \in Nat
  BY HubAssumption DEF TypeOK
<1>4. send' \in [Clients -> Seq(Nat)] /\ \A d \in Clients : Len(send'[d]) <= SendBuffer
  <2>1. send' = send \/ (send[c] # <<>> /\ send' = [send EXCEPT ![c] = Tail(send[c])])
    BY DEF WriteStep, WriteTrade, WriteFails, WriteEnds, chanVars
  <2>2. CASE send' = send
    BY <2>2 DEF TypeOK
  <2>3. CASE send[c] # <<>> /\ send' = [send EXCEPT ![c] = Tail(send[c])]
    <3>1. Tail(send[c]) \in Seq(Nat) /\ Len(Tail(send[c])) = Len(send[c]) - 1
      BY <1>3, <2>3
    <3>2. Len(Tail(send[c])) <= SendBuffer
      BY <1>3, <3>1 DEF TypeOK
    <3>3. QED
      BY <2>3, <3>1, <3>2 DEF TypeOK
  <2>4. QED
    BY <2>1, <2>2, <2>3
<1>5. received' \in [Clients -> Seq(Nat)]
  <2>1. \/ received' = received
        \/ send[c] # <<>> /\ received' = [received EXCEPT ![c] = Append(received[c], Head(send[c]))]
    BY DEF WriteStep, WriteTrade, WriteFails, WriteEnds
  <2>2. CASE send[c] # <<>> /\ received' = [received EXCEPT ![c] = Append(received[c], Head(send[c]))]
    <3>1. Head(send[c]) \in Nat /\ received[c] \in Seq(Nat)
      BY <1>3, <2>2 DEF TypeOK
    <3>2. Append(received[c], Head(send[c])) \in Seq(Nat)
      BY <3>1
    <3>3. QED
      BY <2>2, <3>2 DEF TypeOK
  <2>3. QED
    BY <2>1, <2>2 DEF TypeOK
<1>6. TypeOK'
  BY <1>1, <1>2, <1>4, <1>5 DEF TypeOK, connVars, hubVars, envVars
<1>7. Counted' = Counted /\ active' = active
  BY <1>2 DEF Counted, connVars
<1>8. PumpInv' /\ FanOutInv' /\ ChannelsSound'
  BY <1>2 DEF PumpInv, FanOutInv, ChannelsSound, connVars, hubVars
<1>9. QED
  BY <1>6, <1>7, <1>8, CounterKept
-------------------------------------------------------------------------------
LEMMA StepIInv == IInv /\ [Next]_vars => IInv'
<1> SUFFICES ASSUME IInv, [Next]_vars PROVE IInv'
  OBVIOUS
<1>1. CASE UNCHANGED vars
  <2>1. Counted' = Counted /\ active' = active
    BY <1>1 DEF vars, Counted, connVars, pumpVars
  <2>2. TypeOK' /\ PumpInv' /\ FanOutInv' /\ ChannelsSound'
    BY <1>1 DEF vars, connVars, pumpVars, chanVars, hubVars, envVars, IInv,
                TypeOK, PumpInv, FanOutInv, ChannelsSound
  <2>3. QED
    BY <2>1, <2>2, CounterKept DEF IInv
<1>2. CASE Quiet
  BY <1>1, <1>2 DEF Quiet
<1>3. ASSUME NEW c \in Clients, HandlerStep(c) \/ ReadFails(c) \/ ReadStep(c) \/ WriteStep(c)
      PROVE  IInv'
  BY <1>3, HandlerIInv, ReaderIInv, WriterIInv
<1>4. QED
  BY <1>1, <1>2, <1>3, HubIInv, OutsideIInv DEF Next

LEMMA Invariance == Spec => []IInv
BY InitIInv, StepIInv, PTL DEF Spec
-------------------------------------------------------------------------------
(* The variables keep their types, and no channel exceeds its capacity.    *)
THEOREM TypeCorrect == Spec => []TypeOK
<1>1. IInv => TypeOK
  BY DEF IInv
<1>2. QED
  BY <1>1, Invariance, PTL

(* The hub never sends on a closed channel and closes none twice, whether  *)
(* it drops a slow client or the client's reader unregisters it.           *)
THEOREM SoundChannels == Spec => []ChannelsSound
<1>1. IInv => ChannelsSound
  BY DEF IInv
<1>2. QED
  BY <1>1, Invariance, PTL

(* activeConnections counts the connections that hold a place, whatever    *)
(* the order in which handlers, readers and failures change it.            *)
THEOREM AccurateCounter == Spec => []ActiveIsAccurate
<1>1. IInv => ActiveIsAccurate
  BY DEF IInv, CounterInv, Counted, ActiveIsAccurate
<1>2. QED
  BY <1>1, Invariance, PTL
-------------------------------------------------------------------------------
(* Lists of trades                                                         *)

(* A list stays a first part when the set grows beyond the list.           *)
LEMMA ListsFirstGrow ==
  ASSUME NEW s \in Seq(Nat), NEW M \in SUBSET Nat, NEW N \in SUBSET Nat, M \subseteq N,
         \A n \in N \ M : \A i \in DOMAIN s : s[i] <= n,
         ListsFirst(s, M)
  PROVE  ListsFirst(s, N)
<1>1. ASSUME NEW i \in DOMAIN s, NEW n \in N, n < s[i] PROVE n \in M
  <2>1. s[i] \in Nat /\ n \in Nat
    BY <1>1
  <2>2. n \notin N \ M
    BY <1>1, <2>1
  <2>3. QED
    BY <2>2
<1>2. QED
  BY <1>1 DEF ListsFirst

(* The next trade is appended to a complete list.                          *)
LEMMA ListsAppend ==
  ASSUME NEW s \in Seq(Nat), NEW M \in SUBSET Nat, NEW x \in M, \A m \in M : m <= x,
         Lists(s, M \ {x})
  PROVE  Lists(Append(s, x), M)
<1> DEFINE t == Append(s, x)
<1>1. /\ DOMAIN s = 1 .. Len(s) /\ DOMAIN t = 1 .. (Len(s) + 1) /\ Len(s) \in Nat
      /\ \A i \in DOMAIN s : t[i] = s[i] /\ i \in DOMAIN t
      /\ Len(s) + 1 \in DOMAIN t /\ t[Len(s) + 1] = x
  OBVIOUS
<1> HIDE DEF t
<1>2. \A i \in DOMAIN s : s[i] \in M /\ s[i] < x
  <2>1. \A i \in DOMAIN s : s[i] \in M \ {x}
    BY DEF Lists, ListsFirst
  <2>2. QED
    BY <2>1
<1>3. ASSUME NEW i \in DOMAIN t, i \notin DOMAIN s PROVE i = Len(s) + 1 /\ t[i] = x
  BY <1>1, <1>3
<1>4. ASSUME NEW m \in M PROVE \E j \in DOMAIN t : t[j] = m
  <2>1. CASE m = x
    BY <1>1, <2>1
  <2>2. CASE m # x
    <3>1. PICK j \in DOMAIN s : s[j] = m
      BY <2>2 DEF Lists
    <3>2. QED
      BY <1>1, <3>1
  <2>3. QED
    BY <2>1, <2>2
<1>5. ASSUME NEW i \in DOMAIN t, NEW j \in DOMAIN t, i < j PROVE t[i] < t[j]
  <2>1. i \in DOMAIN s
    BY <1>1, <1>5
  <2>2. CASE j \in DOMAIN s
    <3>1. s[i] < s[j]
      BY <1>5, <2>1, <2>2 DEF Lists, ListsFirst
    <3>2. QED
      BY <1>1, <2>1, <2>2, <3>1
  <2>3. CASE j \notin DOMAIN s
    BY <1>1, <1>2, <1>3, <2>1, <2>3
  <2>4. QED
    BY <2>2, <2>3
<1>6. \A i \in DOMAIN t : t[i] \in M
  BY <1>1, <1>2, <1>3
<1>7. Lists(t, M)
  BY <1>4, <1>5, <1>6 DEF Lists, ListsFirst
<1>8. QED
  BY <1>7 DEF t

(* A first part of a first part is one.                                    *)
LEMMA ListsPrefix ==
  ASSUME NEW r \in Seq(Nat), NEW s \in Seq(Nat), NEW M \in SUBSET Nat, ListsFirst(r \o s, M)
  PROVE  ListsFirst(r, M)
<1> DEFINE t == r \o s
<1>1. /\ DOMAIN r = 1 .. Len(r) /\ DOMAIN t = 1 .. Len(t) /\ Len(r) \in Nat /\ Len(t) \in Nat
      /\ \A i \in DOMAIN r : t[i] = r[i] /\ i \in DOMAIN t
      /\ t \in Seq(Nat)
  OBVIOUS
<1>2. ListsFirst(t, M)
  OBVIOUS
<1> HIDE DEF t
<1>3. ASSUME NEW i \in DOMAIN r, NEW m \in M, m < r[i] PROVE \E j \in DOMAIN r : r[j] = m
  <2>1. PICK j \in DOMAIN t : t[j] = m
    BY <1>1, <1>2, <1>3 DEF ListsFirst
  <2>2. ~ (i < j) /\ i # j
    <3>1. m \in Nat /\ r[i] \in Nat
      OBVIOUS
    <3>2. i < j => t[i] < t[j]
      BY <1>1, <1>2 DEF ListsFirst
    <3>3. QED
      BY <1>1, <1>3, <2>1, <3>1, <3>2
  <2>3. j \in DOMAIN r
    BY <1>1, <2>2
  <2>4. QED
    BY <1>1, <2>1, <2>3
<1>4. QED
  BY <1>1, <1>2, <1>3 DEF ListsFirst

LEMMA ListsNothing == ListsFirst(<<>>, {}) /\ Lists(<<>>, {}) /\ \A M : ListsFirst(<<>>, M)
<1>1. DOMAIN <<>> = {}
  OBVIOUS
<1>2. QED
  BY <1>1 DEF Lists, ListsFirst

LEMMA MineNat == TypeOK => \A c \in Clients : Mine(c) \in SUBSET Nat /\ \A i \in Mine(c) : i <= Len(log)
<1> SUFFICES ASSUME TypeOK PROVE \A c \in Clients : Mine(c) \in SUBSET Nat /\ \A i \in Mine(c) : i <= Len(log)
  OBVIOUS
<1>1. DOMAIN log = 1 .. Len(log) /\ Len(log) \in Nat
  BY DEF TypeOK
<1>2. QED
  BY <1>1 DEF Mine
-------------------------------------------------------------------------------
(* The trades of a connection                                              *)

(* Sending is at the end of what was received and is still to be.          *)
LEMMA SendAtEnd ==
  ASSUME NEW r \in Seq(Nat), NEW s \in Seq(Nat), NEW x \in Nat
  PROVE  r \o Append(s, x) = Append(r \o s, x)
<1>1. Append(s, x) = s \o <<x>> /\ Append(r \o s, x) = (r \o s) \o <<x>>
  BY AppendIsConcat, ConcatProperties
<1>2. <<x>> \in Seq(Nat)
  OBVIOUS
<1>3. QED
  BY <1>1, <1>2, ConcatAssociative

(* Writing the head of the channel changes nothing of the two together.    *)
LEMMA WriteHead ==
  ASSUME NEW r \in Seq(Nat), NEW s \in Seq(Nat), s # <<>>
  PROVE  Append(r, Head(s)) \o Tail(s) = r \o s
<1>1. Head(s) \in Nat /\ Tail(s) \in Seq(Nat) /\ <<Head(s)>> \in Seq(Nat)
  BY HeadTailProperties
<1>2. Append(r, Head(s)) = r \o <<Head(s)>>
  BY <1>1, AppendIsConcat
<1>3. s = <<Head(s)>> \o Tail(s)
  <2> DEFINE t == <<Head(s)>> \o Tail(s)
  <2>1. /\ t \in Seq(Nat) /\ Len(t) = Len(s)
        /\ \A i \in 1 .. Len(s) : t[i] = s[i]
    <3>1. /\ t \in Seq(Nat) /\ Len(t) = 1 + Len(Tail(s))
          /\ \A i \in 1 .. (1 + Len(Tail(s))) : t[i] = IF i <= 1 THEN Head(s) ELSE Tail(s)[i - 1]
      BY <1>1, ConcatProperties
    <3>2. /\ Len(Tail(s)) = Len(s) - 1 /\ Head(s) = s[1] /\ Len(s) \in Nat
          /\ \A i \in 1 .. (Len(s) - 1) : Tail(s)[i] = s[i + 1]
      BY HeadTailProperties
    <3> HIDE DEF t
    <3>3. QED
      BY <3>1, <3>2
  <2> HIDE DEF t
  <2>2. s = t
    BY <2>1, SeqEqual, Zenon
  <2>3. QED
    BY <2>2 DEF t
<1>4. (r \o <<Head(s)>>) \o Tail(s) = r \o (<<Head(s)>> \o Tail(s))
  BY <1>1, ConcatAssociative
<1>5. QED
  BY <1>2, <1>3, <1>4

(* What c was sent, written to its connection or still in its channel.     *)
Got(c) == received[c] \o send[c]

(* A connection nobody serves has nothing; one the hub still has to serve  *)
(* lacks the last trade of the log alone.                                  *)
GapOf(c) ==
  /\ joined[c] <= Len(log)
  /\ accept[c] \notin {"subscribed", "served"} => send[c] = <<>> /\ received[c] = <<>>
  /\ writer[c] # "none" => accept[c] = "served"
  /\ writer[c] # "exited" => ListsFirst(Got(c), Mine(c))
  /\ writer[c] # "exited" /\ c \in clients \ todo => Lists(Got(c), Mine(c))
  /\ writer[c] # "exited" /\ c \in todo => Lists(Got(c), Mine(c) \ {Len(log)})
  /\ c \in todo => Len(log) \in Mine(c)
  /\ ListsFirst(received[c], Mine(c))

GapInv == \A c \in Clients : GapOf(c)

LEMMA GapFrame ==
  ASSUME NEW c \in Clients, GapOf(c),
         log' = log, joined'[c] = joined[c], send'[c] = send[c], received'[c] = received[c],
         accept'[c] \in {"subscribed", "served"} <=> accept[c] \in {"subscribed", "served"},
         accept[c] = "served" => accept'[c] = "served",
         writer'[c] = writer[c],
         c \in clients' => c \in clients, c \in todo' <=> c \in todo
  PROVE  GapOf(c)'
<1>1. Mine(c)' = Mine(c) /\ Got(c)' = Got(c)
  BY DEF Mine, Got
<1>2. QED
  BY <1>1 DEF GapOf

LEMMA GapInit == Init => GapInv
<1> SUFFICES ASSUME Init, NEW c \in Clients PROVE GapOf(c)
  BY DEF GapInv
<1>1. DOMAIN log = {} /\ Len(log) = 0
  BY DEF Init
<1>2. Mine(c) = {} /\ Got(c) = <<>>
  BY <1>1 DEF Mine, Got, Init
<1>3. QED
  BY <1>1, <1>2, ListsNothing DEF Init, GapOf

LEMMA GapHandler ==
  ASSUME IInv, GapInv, NEW c \in Clients, HandlerStep(c) PROVE GapInv'
<1> SUFFICES ASSUME NEW d \in Clients PROVE GapOf(d)'
  BY DEF GapInv
<1>0. GapOf(d) /\ GapOf(c) /\ TypeOK
  BY DEF GapInv, IInv
<1>1. /\ UNCHANGED <<joined, hung, received, chanVars, hubVars>>
      /\ d # c => accept'[d] = accept[d] /\ writer'[d] = writer[d]
  BY <1>0 DEF HandlerStep, CheckLimit, Count, Upgrade, UpgradeFails, Serve, At, pumpVars, TypeOK
<1>2. CASE d # c
  BY <1>0, <1>1, <1>2, GapFrame DEF chanVars, hubVars
<1>3. CASE d = c /\ ~Serve(c)
  <2>1. /\ accept[c] \notin {"subscribed", "served"} /\ accept'[c] \notin {"subscribed", "served"}
        /\ writer'[c] = writer[c]
    BY <1>0, <1>3 DEF HandlerStep, CheckLimit, Count, Upgrade, UpgradeFails, At, pumpVars, TypeOK
  <2>2. QED
    BY <1>0, <1>1, <1>3, <2>1, GapFrame DEF chanVars, hubVars
<1>4. CASE d = c /\ Serve(c)
  <2>1. accept[c] = "subscribed" /\ accept'[c] = "served" /\ writer'[c] = "waiting"
    BY <1>0, <1>4 DEF Serve, At, TypeOK
  <2>2. writer[c] = "none"
    BY <1>0, <2>1 DEF GapOf, TypeOK
  <2>3. Mine(c)' = Mine(c) /\ Got(c)' = Got(c)
    BY <1>1 DEF Mine, Got, chanVars, hubVars
  <2>4. QED
    BY <1>0, <1>1, <1>4, <2>1, <2>2, <2>3 DEF GapOf, chanVars, hubVars
<1>5. QED
  BY <1>2, <1>3, <1>4

LEMMA GapRegister ==
  ASSUME IInv, GapInv, NEW c \in Clients, Register(c) PROVE GapInv'
<1> SUFFICES ASSUME NEW d \in Clients PROVE GapOf(d)'
  BY DEF GapInv
<1>0. GapOf(d) /\ TypeOK /\ todo = {}
  BY DEF GapInv, IInv, FanOutInv, Register
<1>1. /\ UNCHANGED <<received, writer, send, log, todo>>
      /\ clients' = clients \cup {c}
      /\ accept[c] = "subscribing" /\ accept'[c] = "subscribed" /\ joined'[c] = Len(log)
      /\ d # c => accept'[d] = accept[d] /\ joined'[d] = joined[d]
  BY <1>0 DEF Register, At, pumpVars, hubVars, TypeOK
<1>2. CASE d # c
  BY <1>0, <1>1, <1>2, GapFrame
<1>3. CASE d = c
  <2>1. Mine(c)' = {}
    <3>1. DOMAIN log = 1 .. Len(log) /\ Len(log) \in Nat
      BY <1>0 DEF TypeOK
    <3>2. QED
      BY <1>1, <3>1 DEF Mine
  <2>2. received[c] = <<>> /\ send[c] = <<>> /\ writer[c] = "none"
    BY <1>0, <1>1, <1>3 DEF GapOf, TypeOK
  <2>3. Got(c)' = <<>> /\ received'[c] = <<>>
    BY <1>1, <2>2 DEF Got
  <2>4. joined'[c] <= Len(log')
    BY <1>0, <1>1 DEF TypeOK
  <2>5. QED
    BY <1>0, <1>1, <1>3, <2>1, <2>2, <2>3, <2>4, ListsNothing DEF GapOf
<1>4. QED
  BY <1>2, <1>3

LEMMA GapTakeTrade ==
  ASSUME IInv, GapInv, TakeTrade PROVE GapInv'
<1> SUFFICES ASSUME NEW d \in Clients PROVE GapOf(d)'
  BY DEF GapInv
<1>0. GapOf(d) /\ TypeOK /\ todo = {}
  BY DEF GapInv, IInv, FanOutInv, TakeTrade
<1> DEFINE k == Len(log)
           s == Head(broadcast)
<1>1. /\ UNCHANGED <<received, writer, send, joined, accept, clients>>
      /\ log' = Append(log, s) /\ todo' = {c \in clients : SymbolOf[c] = s}
  BY DEF TakeTrade, pumpVars, connVars, chanVars
<1>2. /\ s \in Symbols /\ log \in Seq(Symbols) /\ k \in Nat
      /\ DOMAIN log = 1 .. k /\ DOMAIN log' = 1 .. (k + 1) /\ Len(log') = k + 1
      /\ log'[k + 1] = s /\ \A i \in 1 .. k : log'[i] = log[i]
  <2>1. broadcast \in Seq(Symbols) /\ broadcast # <<>> /\ log \in Seq(Symbols)
    BY <1>0 DEF TypeOK, TakeTrade
  <2>2. s \in Symbols
    BY <2>1
  <2>3. QED
    BY <1>1, <2>1, <2>2
<1>3. joined[d] \in Nat /\ joined[d] <= k
  BY <1>0 DEF TypeOK, GapOf
<1> HIDE DEF k, s
<1>4. Mine(d)' = IF SymbolOf[d] = s THEN Mine(d) \cup {k + 1} ELSE Mine(d)
  <2>1. \A i \in 1 .. (k + 1) : i = k + 1 \/ i \in 1 .. k
    BY <1>2
  <2>2. k + 1 > joined[d]
    BY <1>2, <1>3
  <2>3. k + 1 \in 1 .. (k + 1) /\ \A i \in 1 .. k : i \in 1 .. (k + 1) /\ i # k + 1
    BY <1>2
  <2>4. \A i : i \in Mine(d)' <=> i \in 1 .. (k + 1) /\ i > joined[d] /\ log'[i] = SymbolOf[d]
    BY <1>1, <1>2 DEF Mine
  <2>5. \A i : i \in Mine(d) <=> i \in 1 .. k /\ i > joined[d] /\ log[i] = SymbolOf[d]
    BY <1>2 DEF Mine
  <2>6. CASE SymbolOf[d] = s
    <3>1. \A i : i \in Mine(d)' <=> i \in Mine(d) \/ i = k + 1
      BY <1>2, <2>1, <2>2, <2>3, <2>4, <2>5, <2>6
    <3>2. QED
      BY <2>6, <3>1
  <2>7. CASE SymbolOf[d] # s
    <3>1. \A i : i \in Mine(d)' <=> i \in Mine(d)
      BY <1>2, <2>1, <2>3, <2>4, <2>5, <2>7
    <3>2. QED
      BY <2>7, <3>1
  <2>8. QED
    BY <2>6, <2>7
<1>5. Mine(d) \in SUBSET Nat /\ \A i \in Mine(d) : i <= k
  BY <1>0, MineNat DEF k
<1>6. Got(d) \in Seq(Nat) /\ received[d] \in Seq(Nat) /\ Got(d)' = Got(d) /\ received'[d] = received[d]
  BY <1>0, <1>1 DEF Got, TypeOK
<1>7. ASSUME NEW t \in Seq(Nat), ListsFirst(t, Mine(d)) PROVE ListsFirst(t, Mine(d)')
  <2>1. \A i \in DOMAIN t : t[i] <= k + 1
    <3>1. \A i \in DOMAIN t : t[i] \in Mine(d)
      BY <1>7 DEF ListsFirst
    <3>2. QED
      BY <1>2, <1>5, <3>1
  <2>2. Mine(d) \cup {k + 1} \in SUBSET Nat
    BY <1>2, <1>5
  <2>3. ListsFirst(t, Mine(d) \cup {k + 1})
    <3> DEFINE M == Mine(d)
               N == M \cup {k + 1}
    <3>1. \A n \in N \ M : \A i \in DOMAIN t : t[i] <= n
      BY <2>1
    <3>2. M \in SUBSET Nat /\ N \in SUBSET Nat /\ M \subseteq N /\ ListsFirst(t, M)
      BY <1>5, <1>7, <2>2
    <3> HIDE DEF M, N
    <3>3. ListsFirst(t, N)
      BY <3>1, <3>2, ListsFirstGrow
    <3>4. QED
      BY <3>3 DEF M, N
  <2>4. QED
    BY <1>4, <1>7, <2>3
<1>8. joined'[d] <= Len(log')
  BY <1>1, <1>2, <1>3
<1>9. CASE d \in todo'
  <2>1. Mine(d)' = Mine(d) \cup {k + 1} /\ d \in clients \ todo
    BY <1>0, <1>1, <1>4, <1>9
  <2>2. Mine(d)' \ {Len(log')} = Mine(d) /\ Len(log') \in Mine(d)'
    BY <1>2, <1>5, <2>1
  <2>3. QED
    BY <1>0, <1>1, <1>6, <1>7, <1>8, <1>9, <2>1, <2>2 DEF GapOf
<1>10. CASE d \notin todo'
  <2>1. d \in clients => Mine(d)' = Mine(d)
    BY <1>1, <1>4, <1>10
  <2>2. QED
    BY <1>0, <1>1, <1>6, <1>7, <1>8, <1>10, <2>1 DEF GapOf
<1>11. QED
  BY <1>9, <1>10

LEMMA GapFanOut ==
  ASSUME IInv, GapInv, NEW c \in Clients, Deliver(c) \/ DropSlow(c) PROVE GapInv'
<1> SUFFICES ASSUME NEW d \in Clients PROVE GapOf(d)'
  BY DEF GapInv
<1>0. GapOf(d) /\ TypeOK /\ TypeOK' /\ c \in clients /\ todo \subseteq clients
  BY DeliverIInv, DropSlowIInv DEF GapInv, IInv, FanOutInv, Deliver, DropSlow, Served
<1>1. /\ UNCHANGED <<received, writer, log, joined, accept>>
      /\ todo' = todo \ {c} /\ c \in todo
      /\ d # c => send'[d] = send[d]
      /\ clients' = clients \/ clients' = clients \ {c}
  BY <1>0 DEF Deliver, DropSlow, Served, Forget, pumpVars, connVars, TypeOK
<1>2. CASE d # c
  BY <1>0, <1>1, <1>2, GapFrame
<1>3. CASE d = c /\ DropSlow(c)
  <2>1. Mine(c)' = Mine(c) /\ Got(c)' = Got(c) /\ c \notin clients' /\ c \notin todo' /\ send'[c] = send[c]
    BY <1>1, <1>3 DEF Mine, Got, DropSlow, Forget
  <2>2. Got(c) \in Seq(Nat) /\ received[c] \in Seq(Nat)
    BY <1>0 DEF Got, TypeOK
  <2>3. QED
    BY <1>0, <1>1, <1>3, <2>1, <2>2 DEF GapOf
<1>4. CASE d = c /\ Deliver(c)
  <2> DEFINE x == Len(log)
  <2>1. send'[c] = Append(send[c], x) /\ x \in Nat /\ send[c] \in Seq(Nat) /\ received[c] \in Seq(Nat)
    BY <1>0, <1>4 DEF Deliver, TypeOK
  <2>2. Got(c)' = Append(Got(c), x) /\ Got(c) \in Seq(Nat)
    <3>1. received[c] \o Append(send[c], x) = Append(received[c] \o send[c], x)
      BY <2>1, SendAtEnd
    <3>2. Got(c)' = received[c] \o send'[c]
      BY <1>1 DEF Got
    <3>3. send'[c] = Append(send[c], x)
      BY <2>1
    <3> HIDE DEF x
    <3>4. Got(c)' = Append(Got(c), x)
      BY <3>1, <3>2, <3>3 DEF Got
    <3>5. Got(c) \in Seq(Nat)
      BY <2>1 DEF Got
    <3>6. QED
      BY <3>4, <3>5
  <2>3. Mine(c)' = Mine(c) /\ received'[c] = received[c]
    BY <1>1 DEF Mine
  <2>4. Mine(c) \in SUBSET Nat /\ \A m \in Mine(c) : m <= x
    BY <1>0, MineNat
  <2>5. x \in Mine(c) /\ accept[c] \in {"subscribed", "served"}
    BY <1>0, <1>1, <1>4 DEF GapOf, IInv, ChannelsSound
  <2>6. writer[c] # "exited" => Lists(Append(Got(c), x), Mine(c))
    <3> HIDE DEF x
    <3>1. writer[c] # "exited" => Lists(Got(c), Mine(c) \ {x})
      BY <1>0, <1>1, <1>4 DEF GapOf, x
    <3>2. QED
      BY <2>2, <2>4, <2>5, <3>1, ListsAppend
  <2>7. QED
    BY <1>0, <1>1, <1>4, <2>2, <2>3, <2>5, <2>6 DEF GapOf, Lists
<1>5. QED
  BY <1>2, <1>3, <1>4

LEMMA GapWriter ==
  ASSUME IInv, GapInv, NEW c \in Clients, WriteStep(c) PROVE GapInv'
<1> SUFFICES ASSUME NEW d \in Clients PROVE GapOf(d)'
  BY DEF GapInv
<1>0. GapOf(d) /\ TypeOK
  BY DEF GapInv, IInv
<1>1. /\ UNCHANGED <<connVars, hubVars, clients>>
      /\ d # c => writer'[d] = writer[d] /\ send'[d] = send[d] /\ received'[d] = received[d]
  BY <1>0 DEF WriteStep, WriteTrade, WriteFails, WriteEnds, Writes, chanVars, TypeOK
<1>2. CASE d # c
  BY <1>0, <1>1, <1>2, GapFrame DEF connVars, hubVars
<1>3. Mine(d)' = Mine(d)
  BY <1>1 DEF Mine, connVars, hubVars
<1>4. CASE d = c /\ WriteTrade(c)
  <2>1. /\ writer[c] = "waiting" /\ writer'[c] = "waiting"
        /\ send[c] # <<>> /\ send[c] \in Seq(Nat) /\ received[c] \in Seq(Nat)
        /\ send'[c] = Tail(send[c]) /\ received'[c] = Append(received[c], Head(send[c]))
    BY <1>0, <1>4 DEF WriteTrade, Writes, TypeOK
  <2>2. Got(c)' = Got(c)
    <3>1. Append(received[c], Head(send[c])) \o Tail(send[c]) = received[c] \o send[c]
      BY <2>1, WriteHead
    <3>2. QED
      BY <2>1, <3>1 DEF Got
  <2>3. ListsFirst(received'[c], Mine(c))
    <3>1. received'[c] \in Seq(Nat) /\ send'[c] \in Seq(Nat)
      BY <2>1
    <3>2. ListsFirst(received'[c] \o send'[c], Mine(c))
      BY <1>0, <1>4, <2>1, <2>2 DEF GapOf, Got
    <3>3. Mine(c) \in SUBSET Nat
      BY <1>0, MineNat
    <3>4. QED
      BY <3>1, <3>2, <3>3, ListsPrefix
  <2>4. accept[c] = "served"
    BY <1>0, <1>4, <2>1 DEF GapOf
  <2>5. QED
    BY <1>0, <1>1, <1>3, <1>4, <2>1, <2>2, <2>3, <2>4 DEF GapOf, connVars, hubVars
<1>5. CASE d = c /\ (WriteFails(c) \/ WriteEnds(c))
  <2>1. writer[c] = "waiting" /\ writer'[c] = "exited" /\ received' = received
    BY <1>0, <1>5 DEF WriteFails, WriteEnds, Writes, TypeOK
  <2>2. accept[c] = "served"
    BY <1>0, <1>5, <2>1 DEF GapOf
  <2>3. QED
    BY <1>0, <1>1, <1>3, <1>5, <2>1, <2>2 DEF GapOf, connVars, hubVars
<1>6. QED
  BY <1>2, <1>4, <1>5 DEF WriteStep

LEMMA GapStep == IInv /\ GapInv /\ [Next]_vars => GapInv'
<1> SUFFICES ASSUME IInv, GapInv, [Next]_vars PROVE GapInv'
  OBVIOUS
<1>1. ASSUME NEW c \in Clients, Unregister(c) PROVE GapInv'
  <2>1. /\ UNCHANGED <<connVars, writer, received, send, hubVars>>
        /\ clients' \subseteq clients
    BY <1>1 DEF Unregister, Forget
  <2>2. QED
    BY <2>1, GapFrame DEF GapInv, connVars, hubVars
<1>2. CASE \/ \E c \in Clients : ReadFails(c) \/ ReadStep(c)
           \/ HubStops \/ (\E s \in Symbols : Broadcast(s)) \/ Shutdown \/ UNCHANGED vars
  <2>1. UNCHANGED <<accept, joined, writer, received, chanVars, todo, log>>
    BY <1>2 DEF ReadFails, ReadStep, Decrement, CloseConn, HubStops, Broadcast, Shutdown, vars, connVars, pumpVars,
                hubVars
  <2>2. QED
    BY <2>1, GapFrame DEF GapInv, chanVars
<1>3. QED
  BY <1>1, <1>2, GapHandler, GapRegister, GapTakeTrade, GapFanOut, GapWriter DEF Next, HubStep, Quiet

(* Every connection is sent the trades of its symbol from its registration *)
(* on, each once and in their order, and misses none of them as long as    *)
(* its goroutine writes and the hub has not dropped it (hub.go:60-113,     *)
(* client.go:56-100).                                                      *)
THEOREM TradesWithoutGaps == Spec => []NoGaps
<1>1. GapInv => NoGaps
  <2> SUFFICES ASSUME GapInv, NEW c \in Clients
               PROVE  /\ writer[c] # "exited" => ListsFirst(Got(c), Mine(c))
                      /\ c \in clients \ todo /\ writer[c] # "exited" => Lists(Got(c), Mine(c))
                      /\ ListsFirst(received[c], Mine(c))
    BY DEF NoGaps, Got
  <2>1. QED
    BY DEF GapInv, GapOf
<1>2. QED
  BY <1>1, Invariance, GapInit, GapStep, PTL DEF Spec
================================================================================
