-------------------------------- MODULE MarketHub --------------------------------
(***************************************************************************)
(* The market service: the hub goroutine that fans trades out, the         *)
(* websocket connections with their Read and Write goroutines, the handler *)
(* that admits them and the consumer that feeds the hub                    *)
(* (cmd/market-service/main.go, internal/market/{hub,client}.go).          *)
(*                                                                         *)
(* A step is what a goroutine does between two points where another could  *)
(* notice.  register and unregister are unbuffered: the two sides meet in  *)
(* one step.  The hub's mutex is only ever taken by the hub itself.        *)
(***************************************************************************)
EXTENDS Integers, Sequences, FiniteSets

CONSTANTS
  Clients,         \* connection attempts
  Symbols,
  SymbolOf,        \* SymbolOf[c]: the symbol c asks for; others get a 400 and leave no trace
  MaxConnections,  \* cfg.MaxConnections
  SendBuffer,      \* sendBufSize (256)
  HubBuffer,       \* capacity of the broadcast channel (256)
  MaxTrades        \* bound: trades consumed

ASSUME HubAssumption ==
  /\ SymbolOf \in [Clients -> Symbols]
  /\ {MaxConnections, SendBuffer, HubBuffer} \subseteq Nat \ {0}
  /\ MaxTrades \in Nat

VARIABLES
  accept,    \* accept[c]: where the handler of c's request is
  active,    \* activeConnections
  reader,    \* reader[c]: where c's Read goroutine is
  writer,    \* writer[c]: where c's Write goroutine is
  send,      \* send[c]: the buffered channel of c
  closed,    \* clients whose send channel is closed
  hung,      \* clients whose connection this side has closed
  clients,   \* the hub's map: registered clients
  broadcast, \* the broadcast channel
  hub,       \* where the hub's goroutine is
  todo,      \* in a fan-out, the clients still to be served
  shutdown,  \* hubCancel() was called
  log,       \* history: trades the hub took from the channel, with their symbols
  last,      \* the consumer stops after this many trades
  consumed,  \* trades consumed
  joined,    \* history: joined[c] is Len(log) when c was registered
  received   \* history: received[c] is what was written to c's connection

connVars == <<accept, active, joined>>
pumpVars == <<reader, writer, hung, received>>
chanVars == <<send, closed, clients>>
hubVars  == <<broadcast, hub, todo, log>>
envVars  == <<shutdown, last, consumed>>
vars     == <<connVars, pumpVars, chanVars, hubVars, envVars>>

Init ==
  /\ accept = [c \in Clients |-> "none"]
  /\ active = 0
  /\ joined = [c \in Clients |-> 0]
  /\ reader = [c \in Clients |-> "none"]
  /\ writer = [c \in Clients |-> "none"]
  /\ hung = {}
  /\ received = [c \in Clients |-> <<>>]
  /\ send = [c \in Clients |-> <<>>]
  /\ closed = {}
  /\ clients = {}
  /\ broadcast = <<>> /\ hub = "select" /\ todo = {} /\ log = <<>>
  /\ shutdown = FALSE /\ last = MaxTrades /\ consumed = 0
-------------------------------------------------------------------------------
(* The handler of /ws *)

At(c, here, there) == accept[c] = here /\ accept' = [accept EXCEPT ![c] = there]

(* activeConnections.Load() and the comparison with the limit.             *)
CheckLimit(c) ==
  /\ At(c, "none", IF active >= MaxConnections THEN "refused" ELSE "checked")
  /\ UNCHANGED <<active, joined, pumpVars, chanVars, hubVars, envVars>>

Count(c) ==
  /\ At(c, "checked", "counted")
  /\ active' = active + 1
  /\ UNCHANGED <<joined, pumpVars, chanVars, hubVars, envVars>>

Upgrade(c) ==
  /\ At(c, "counted", "subscribing")
  /\ UNCHANGED <<active, joined, pumpVars, chanVars, hubVars, envVars>>

(* Slip: returning without giving the place back. *)
UpgradeFailsCounted(c) ==
  /\ At(c, "counted", "failed")
  /\ UNCHANGED <<active, joined, pumpVars, chanVars, hubVars, envVars>>

UpgradeFails(c) ==
  /\ At(c, "counted", "failed")
  /\ active' = active - 1
  /\ UNCHANGED <<joined, pumpVars, chanVars, hubVars, envVars>>

(* go client.Write(); go client.Read()                                     *)
Serve(c) ==
  /\ At(c, "subscribed", "served")
  /\ reader' = [reader EXCEPT ![c] = "reading"]
  /\ writer' = [writer EXCEPT ![c] = "waiting"]
  /\ UNCHANGED <<active, joined, hung, received, chanVars, hubVars, envVars>>
-------------------------------------------------------------------------------
(* The hub *)

Register(c) ==
  /\ hub = "select"
  /\ At(c, "subscribing", "subscribed")
  /\ clients' = clients \cup {c}
  /\ joined' = [joined EXCEPT ![c] = Len(log)]
  /\ UNCHANGED <<active, pumpVars, send, closed, hubVars, envVars>>

(* delete(clients, c); close(c.send)                                       *)
Forget(c) ==
  /\ clients' = clients \ {c}
  /\ closed' = closed \cup {c}

(* Slip: Unsubscribe deletes the client itself, while the hub may be        *)
(* serving it.                                                             *)
UnregisterAnytime(c) ==
  /\ reader[c] = "unsubscribing"
  /\ reader' = [reader EXCEPT ![c] = "closing"]
  /\ IF c \in clients THEN Forget(c) ELSE UNCHANGED <<clients, closed>>
  /\ UNCHANGED <<connVars, writer, hung, received, send, hubVars, envVars>>

(* A client the hub dropped already is not removed again.                  *)
Unregister(c) ==
  /\ hub = "select"
  /\ reader[c] = "unsubscribing"
  /\ reader' = [reader EXCEPT ![c] = "closing"]
  /\ IF c \in clients THEN Forget(c) ELSE UNCHANGED <<clients, closed>>
  /\ UNCHANGED <<connVars, writer, hung, received, send, hubVars, envVars>>

(* A trade nobody subscribed to is dropped.                                *)
TakeTrade ==
  /\ hub = "select"
  /\ broadcast # <<>>
  /\ broadcast' = Tail(broadcast)
  /\ log' = Append(log, Head(broadcast))
  /\ todo' = {c \in clients : SymbolOf[c] = Head(broadcast)}
  /\ hub' = IF todo' = {} THEN "select" ELSE "fanout"
  /\ UNCHANGED <<connVars, pumpVars, chanVars, envVars>>

Served(c) ==
  /\ hub = "fanout"
  /\ c \in todo
  /\ todo' = todo \ {c}
  /\ hub' = IF todo = {c} THEN "select" ELSE "fanout"
  /\ UNCHANGED <<connVars, pumpVars, broadcast, log, envVars>>

Deliver(c) ==
  /\ Served(c)
  /\ Len(send[c]) < SendBuffer
  /\ send' = [send EXCEPT ![c] = Append(@, Len(log))]
  /\ UNCHANGED <<closed, clients>>

(* Slip: without the default branch the hub waits for a slow client. *)
DropSlowWaiting(c) ==
  /\ Served(c)
  /\ Len(send[c]) < SendBuffer
  /\ UNCHANGED chanVars

(* Slip: the message is skipped and the client kept. *)
DropSlowSkipped(c) ==
  /\ Served(c)
  /\ Len(send[c]) >= SendBuffer
  /\ UNCHANGED chanVars

(* The channel is full: the client is dropped.                             *)
DropSlow(c) ==
  /\ Served(c)
  /\ Len(send[c]) >= SendBuffer
  /\ Forget(c)
  /\ UNCHANGED send

HubStops ==
  /\ hub = "select"
  /\ shutdown
  /\ hub' = "stopped"
  /\ UNCHANGED <<connVars, pumpVars, chanVars, broadcast, todo, log, envVars>>
-------------------------------------------------------------------------------
(* The Kafka consumer *)

(* hub.Broadcast waits while the channel is full.                          *)
Broadcast(s) ==
  /\ consumed < last
  /\ Len(broadcast) < HubBuffer
  /\ broadcast' = Append(broadcast, s)
  /\ consumed' = consumed + 1
  /\ UNCHANGED <<connVars, pumpVars, chanVars, hub, todo, log, shutdown, last>>
-------------------------------------------------------------------------------
(* A connection's goroutines *)

Reads(c, here, there) == reader[c] = here /\ reader' = [reader EXCEPT ![c] = there]

(* ReadMessage fails: the peer left, or the read deadline passed.          *)
ReadFails(c) ==
  /\ Reads(c, "reading", "failed")
  /\ UNCHANGED <<connVars, writer, hung, received, chanVars, hubVars, envVars>>

(* Read's deferred calls: count the connection out, Unsubscribe (above),   *)
(* then close the connection and done.                                     *)
Decrement(c) ==
  /\ Reads(c, "failed", "unsubscribing")
  /\ active' = active - 1
  /\ UNCHANGED <<accept, joined, writer, hung, received, chanVars, hubVars, envVars>>

(* Slip: the connection is counted out a second time. *)
CloseConnCounted(c) ==
  /\ Reads(c, "closing", "done")
  /\ active' = active - 1
  /\ hung' = hung \cup {c}
  /\ UNCHANGED <<accept, joined, writer, received, chanVars, hubVars, envVars>>

CloseConn(c) ==
  /\ Reads(c, "closing", "done")
  /\ hung' = hung \cup {c}
  /\ UNCHANGED <<connVars, writer, received, chanVars, hubVars, envVars>>

Writes(c, there) == writer[c] = "waiting" /\ writer' = [writer EXCEPT ![c] = there]

WriteTrade(c) ==
  /\ Writes(c, "waiting")
  /\ send[c] # <<>>
  /\ c \notin hung
  /\ send' = [send EXCEPT ![c] = Tail(@)]
  /\ received' = [received EXCEPT ![c] = Append(@, Head(send[c]))]
  /\ UNCHANGED <<connVars, reader, hung, closed, clients, hubVars, envVars>>

(* A write of a trade or of a ping fails, within writeWait.                *)
WriteFails(c) ==
  /\ Writes(c, "exited")
  /\ \/ send[c] # <<>> /\ send' = [send EXCEPT ![c] = Tail(@)]
     \/ UNCHANGED send
  /\ UNCHANGED <<connVars, reader, hung, received, closed, clients, hubVars, envVars>>

(* The channel is closed and drained, or done is closed.                   *)
WriteEnds(c) ==
  /\ Writes(c, "exited")
  /\ (c \in closed /\ send[c] = <<>>) \/ reader[c] = "done"
  /\ UNCHANGED <<connVars, reader, hung, received, chanVars, hubVars, envVars>>
-------------------------------------------------------------------------------
(* hubCancel(): the hub and the consumer see it at their next turn, and a  *)
(* trade in the consumer's handler is still broadcast.                     *)
Shutdown ==
  /\ ~shutdown
  /\ shutdown' = TRUE
  /\ last' \in {n \in {consumed, consumed + 1} : n <= MaxTrades}
  /\ UNCHANGED <<connVars, pumpVars, chanVars, hubVars, consumed>>

(* The hub waits with nothing to come, or the process has ended.           *)
Quiet ==
  /\ \/ hub = "stopped"
     \/ /\ hub = "select" /\ broadcast = <<>> /\ consumed = MaxTrades
        /\ \A c \in Clients : \/ accept[c] \in {"refused", "failed"}
                              \/ reader[c] = "done" /\ writer[c] = "exited"
  /\ UNCHANGED vars

HandlerStep(c) == CheckLimit(c) \/ Count(c) \/ Upgrade(c) \/ UpgradeFails(c) \/ Serve(c)

HubStep ==
  \/ \E c \in Clients : Register(c) \/ Unregister(c) \/ Deliver(c) \/ DropSlow(c)
  \/ TakeTrade
  \/ HubStops

ReadStep(c) == Decrement(c) \/ CloseConn(c)
WriteStep(c) == WriteTrade(c) \/ WriteFails(c) \/ WriteEnds(c)

(* main returns once the hub has, and everything ends with it.             *)
Next ==
  \/ /\ hub # "stopped"
     /\ \/ \E c \in Clients : HandlerStep(c) \/ ReadFails(c) \/ ReadStep(c) \/ WriteStep(c)
        \/ HubStep
        \/ \E s \in Symbols : Broadcast(s)
        \/ Shutdown
  \/ Quiet

Spec == Init /\ [][Next]_vars

(* Goroutines run.  The hub's select chooses at random among what is ready,*)
(* so a client waiting to be unregistered is not passed over forever.      *)
(* Without a writer there are no pings, so no pongs, and the read deadline *)
(* passes.                                                                 *)
Fairness ==
  /\ WF_vars(HubStep)
  /\ \A c \in Clients :
       /\ WF_vars(ReadStep(c)) /\ WF_vars(Serve(c))
       /\ SF_vars(Unregister(c))
       /\ WF_vars(ReadFails(c) /\ writer[c] = "exited")
       /\ WF_vars(WriteTrade(c) \/ WriteEnds(c))

FairSpec == Spec /\ Fairness
-------------------------------------------------------------------------------
(* Properties *)

(* The types of the variables; channels stay within their capacity.        *)
TypeOK ==
  /\ accept \in [Clients -> {"none", "refused", "checked", "counted", "failed",
                             "subscribing", "subscribed", "served"}]
  /\ active \in Nat
  /\ joined \in [Clients -> Nat]
  /\ reader \in [Clients -> {"none", "reading", "failed", "unsubscribing", "closing", "done"}]
  /\ writer \in [Clients -> {"none", "waiting", "exited"}]
  /\ hung \subseteq Clients /\ closed \subseteq Clients
  /\ received \in [Clients -> Seq(Nat)]
  /\ send \in [Clients -> Seq(Nat)]
  /\ \A c \in Clients : Len(send[c]) <= SendBuffer
  /\ clients \subseteq Clients /\ todo \subseteq Clients
  /\ broadcast \in Seq(Symbols) /\ Len(broadcast) <= HubBuffer
  /\ log \in Seq(Symbols)
  /\ hub \in {"select", "fanout", "stopped"}
  /\ shutdown \in BOOLEAN /\ last \in Nat /\ consumed \in Nat

(* The hub never sends on a closed channel nor closes one twice: what it   *)
(* has in its map is open, and all it took out of the map is closed.       *)
ChannelsSound ==
  /\ (clients \cup todo) \cap closed = {}
  /\ \A c \in Clients : c \in clients \cup closed <=> accept[c] \in {"subscribed", "served"}

(* activeConnections is the number of connections admitted and not counted *)
(* out: every way a connection ends gives its place back exactly once.     *)
ActiveIsAccurate ==
  active = Cardinality({c \in Clients : /\ accept[c] \in {"counted", "subscribing", "subscribed", "served"}
                                        /\ reader[c] \in {"none", "reading", "failed"}})

(* The trades of c's symbol since c was registered.                        *)
Mine(c) == {i \in DOMAIN log : i > joined[c] /\ log[i] = SymbolOf[c]}

(* s lists the first elements of M, in order and without a gap.            *)
ListsFirst(s, M) ==
  /\ \A i, j \in DOMAIN s : i < j => s[i] < s[j]
  /\ \A i \in DOMAIN s : /\ s[i] \in M
                         /\ \A m \in M : m < s[i] => \E j \in DOMAIN s : s[j] = m

Lists(s, M) == ListsFirst(s, M) /\ \A m \in M : \E j \in DOMAIN s : s[j] = m

(* A connection is sent every trade of its symbol since it was registered, *)
(* once, in order and without a gap, for as long as it is sent any.        *)
NoGaps ==
  \A c \in Clients :
    LET got == received[c] \o send[c] IN
    /\ writer[c] # "exited" => ListsFirst(got, Mine(c))
    /\ c \in clients \ todo /\ writer[c] # "exited" => Lists(got, Mine(c))
    /\ ListsFirst(received[c], Mine(c))

(* When one of a connection's goroutines is gone the other one ends, and   *)
(* the hub forgets the client: no slow, dropped or broken connection is    *)
(* left behind.                                                            *)
NoneLeftBehind ==
  \A c \in Clients :
    (writer[c] = "exited" \/ reader[c] = "failed" \/ c \in closed) ~>
      (hub = "stopped" \/ (reader[c] = "done" /\ writer[c] = "exited" /\ c \notin clients))

================================================================================
