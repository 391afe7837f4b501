------------------------------ MODULE MarketSocket ------------------------------
(***************************************************************************)
(* The web client's market socket and the dashboard page that uses it      *)
(* (frontend/lib/websocket.ts, frontend/app/(dashboard)/page.tsx and       *)
(* frontend/components/recent-trades.tsx).  Each action is one task of the *)
(* browser's event loop, run to its end: React's effects after a render, a *)
(* timer, an event of a socket.                                            *)
(***************************************************************************)
EXTENDS Integers, Sequences, FiniteSetsExt

CONSTANTS
  Symbols,
  Idle,        \* no reconnect pending
  MaxSockets,  \* bound: sockets created and attempts to create one
  MaxSelects   \* bound: how often the user opens the page or picks a symbol

ASSUME SocketAssumption ==
  /\ Idle \notin Nat
  /\ {MaxSockets, MaxSelects} \subseteq Nat

NoSymbol == ""
MaxExponent == 5  \* baseReconnectDelay * 2^5 exceeds maxReconnectDelay

VARIABLES
  symbol,    \* this.symbol
  sockets,   \* every WebSocket made: its symbol, readyState, and whether onclose is set
  ws,        \* this.ws: an index of sockets, or 0 for null
  timer,     \* reconnectTimer: Idle, or its delay as an exponent of 2
  attempt,   \* reconnectAttempt
  handlers,  \* this.handlers: "page" (the status) and "panel" (recent trades)
  page,      \* "closed", "open": is the dashboard mounted
  live,      \* the page's `connected` state, shown as Live
  tries,     \* calls of new WebSocket
  selects,   \* the user's choices
  failures   \* history: tries that failed, since the last success or choice

socketVars == <<symbol, sockets, ws, timer, attempt, handlers, tries>>
vars == <<socketVars, page, live, selects, failures>>

Init ==
  /\ symbol = NoSymbol /\ sockets = <<>> /\ ws = 0
  /\ timer = Idle /\ attempt = 0
  /\ handlers = {}
  /\ page = "closed" /\ live = FALSE
  /\ tries = 0 /\ selects = 0 /\ failures = 0
-------------------------------------------------------------------------------
(* Slip: onclose stays set on the socket that is given up. *)
AbandonedHooked(s) == IF s.state = "closed" THEN s ELSE [s EXCEPT !.state = "closing"]

(* onclose = null; close().                                                *)
Abandoned(s) ==
  [s EXCEPT !.hooked = FALSE, !.state = IF @ = "closed" THEN @ ELSE "closing"]

CleanUp == [i \in DOMAIN sockets |-> IF i = ws THEN Abandoned(sockets[i]) ELSE sockets[i]]

(* Slip: a failed try is not tried again. *)
ScheduledNever(n) == timer' = Idle /\ attempt' = n + 1

(* scheduleReconnect with reconnectAttempt = n.                            *)
Scheduled(n) == timer' = Min({n, MaxExponent}) /\ attempt' = n + 1

(* connect(s): new WebSocket succeeds or throws.  handlers.clear() is one  *)
(* of its steps; its callers say which handlers are added afterwards.  n is *)
(* the number of tries that have failed.                                   *)
Connect(s, n) ==
  /\ tries < MaxSockets
  /\ tries' = tries + 1
  /\ symbol' = s
  /\ \/ /\ sockets' = Append(CleanUp, [symbol |-> s, state |-> "connecting", hooked |-> TRUE])
        /\ ws' = Len(sockets) + 1
        /\ timer' = Idle /\ attempt' = 0
        /\ failures' = n
     \/ /\ sockets' = CleanUp
        /\ ws' = 0
        /\ Scheduled(0)
        /\ failures' = n + 1

(* React runs the effects of a child before those of its parent: the panel *)
(* adds its handler, then the page connects and adds its own.  When the    *)
(* symbol changes all clean-ups run first; disconnect's leave nothing that *)
(* connect would not remove as well.                                       *)
Select(s) ==
  /\ page = "open" => s # symbol
  /\ selects < MaxSelects
  /\ selects' = selects + 1
  /\ Connect(s, 0)
  /\ handlers' = {"page"}
  /\ page' = "open"
  /\ live' = (page = "open" /\ live)

(* disconnect(), as the page is unmounted.                                 *)
Leave ==
  /\ page = "open"
  /\ page' = "closed" /\ live' = FALSE
  /\ sockets' = CleanUp /\ ws' = 0
  /\ timer' = Idle /\ attempt' = 0 /\ handlers' = {}
  /\ UNCHANGED <<symbol, tries, selects, failures>>

TimerFires ==
  /\ timer # Idle
  /\ Connect(symbol, failures)
  /\ handlers' = {}
  /\ UNCHANGED <<page, live, selects>>
-------------------------------------------------------------------------------
(* Events of the sockets *)

Become(i, state) == sockets' = [sockets EXCEPT ![i].state = state]

Open(i) ==
  /\ sockets[i].state = "connecting"
  /\ Become(i, "open")
  /\ failures' = 0
  /\ UNCHANGED <<symbol, ws, timer, attempt, handlers, tries, page, live, selects>>

(* onmessage: every handler hears the trade; the page shows Live.          *)
Message(i) ==
  /\ sockets[i].state = "open"
  /\ live' = (live \/ "page" \in handlers)
  /\ UNCHANGED <<socketVars, page, selects, failures>>

(* The connection fails, the server closes it, or our close completes.     *)
Close(i) ==
  /\ sockets[i].state # "closed"
  /\ Become(i, "closed")
  /\ IF sockets[i].hooked
     THEN Scheduled(attempt) /\ failures' = failures + 1
     ELSE UNCHANGED <<timer, attempt, failures>>
  /\ UNCHANGED <<symbol, ws, handlers, tries, page, live, selects>>

Next ==
  \/ \E s \in Symbols : Select(s)
  \/ Leave
  \/ TimerFires
  \/ \E i \in DOMAIN sockets : Open(i) \/ Message(i) \/ Close(i)

Spec == Init /\ [][Next]_vars

(* Timers fire, unless the bound on tries is reached.                      *)
FairSpec == Spec /\ WF_vars(TimerFires)
-------------------------------------------------------------------------------
(* Properties *)

(* The types of the variables; this.ws is null or has its onclose set, and *)
(* a pending delay is one of the backoff's.                                *)
TypeOK ==
  /\ symbol \in Symbols \cup {NoSymbol}
  /\ sockets \in Seq([symbol : Symbols, state : {"connecting", "open", "closing", "closed"},
                      hooked : BOOLEAN])
  /\ ws \in 0 .. Len(sockets) /\ (ws # 0 => sockets[ws].hooked)
  /\ timer \in {Idle} \cup 0 .. MaxExponent /\ attempt \in Nat
  /\ handlers \subseteq {"page", "panel"}
  /\ page \in {"closed", "open"} /\ live \in BOOLEAN
  /\ tries \in 0 .. MaxSockets /\ selects \in 0 .. MaxSelects /\ failures \in Nat

InUse(i) == sockets[i].state \in {"connecting", "open"}

(* There is one connection at most, to the symbol shown, none while a      *)
(* reconnect is pending, and none once the page is left, when nothing can  *)
(* connect again behind the user's back: trades come once, of that symbol. *)
OneConnection ==
  /\ \A i \in DOMAIN sockets :
       InUse(i) => i = ws /\ sockets[i].symbol = symbol /\ timer = Idle /\ page = "open"
  /\ page = "closed" => timer = Idle /\ \A i \in DOMAIN sockets : ~sockets[i].hooked

(* A page that lost its connection tries again, however often it fails.    *)
KeepsTrying ==
  \A n \in 1 .. MaxSockets - 1 :
    (page = "open" /\ tries = n) ~>
      \/ tries > n \/ page = "closed"
      \/ ws # 0 /\ InUse(ws)

(* A claim the code does not keep: "Auto-reconnects on disconnect"         *)
(* (frontend plan, line 180): an open page goes on hearing trades when its *)
(* socket is open again.                                                   *)
PageHearsTrades == page = "open" => "page" \in handlers
================================================================================
