--------------------------- MODULE MarketSocketProofs ---------------------------
(***************************************************************************)
(* Proofs about the market socket, for any symbols, number of sockets and  *)
(* number of choices.                                                      *)
(***************************************************************************)
EXTENDS MarketSocket, TLAPS

(* onclose is set on this.ws and on no other socket; a socket without it   *)
(* has been given up.                                                      *)
HookInv ==
  \A i \in DOMAIN sockets :
    /\ sockets[i].hooked <=> i = ws
    /\ ~sockets[i].hooked => sockets[i].state \in {"closing", "closed"}

(* A connection, and a reconnect to come, belong to an open page, and not  *)
(* both at once.                                                           *)
PageInv ==
  /\ page = "open" => symbol \in Symbols
  /\ timer # Idle => page = "open"
  /\ ws # 0 => page = "open" /\ sockets[ws].symbol = symbol
  /\ ws # 0 /\ InUse(ws) => timer = Idle

IInv == TypeOK /\ HookInv /\ PageInv

Socket == [symbol : Symbols, state : {"connecting", "open", "closing", "closed"}, hooked : BOOLEAN]
-------------------------------------------------------------------------------
LEMMA DelayType ==
  ASSUME NEW n \in Nat
  PROVE  Min({n, MaxExponent}) \in 0 .. MaxExponent
<1> DEFINE S == {n, MaxExponent}
<1>1. \E x \in S : \A y \in S : x =< y
  BY DEF MaxExponent
<1>2. Min(S) \in S /\ \A y \in S : Min(S) =< y
  BY <1>1 DEF Min
<1>3. QED
  BY <1>2 DEF MaxExponent

LEMMA InitIInv == Init => IInv
<1> SUFFICES ASSUME Init PROVE IInv
  OBVIOUS
<1>1. TypeOK
  <2>1. sockets \in Seq(Socket) /\ ws \in 0 .. Len(sockets) /\ ws = 0
    BY DEF Init
  <2>2. tries \in 0 .. MaxSockets /\ selects \in 0 .. MaxSelects /\ failures \in Nat
    BY SocketAssumption DEF Init
  <2>3. /\ symbol \in Symbols \cup {NoSymbol} /\ timer = Idle /\ attempt \in Nat
        /\ handlers \subseteq {"page", "panel"} /\ page \in {"closed", "open"}
    BY DEF Init
  <2>4. live \in BOOLEAN
    BY DEF Init
  <2>5. QED
    BY <2>1, <2>2, <2>3, <2>4 DEF TypeOK, Socket
<1>2. HookInv /\ PageInv
  BY DEF Init, HookInv, PageInv
<1>3. QED
  BY <1>1, <1>2 DEF IInv

(* Giving up this.ws leaves no socket in use and none with onclose set.    *)
LEMMA CleanUpFact ==
  ASSUME IInv
  PROVE  /\ CleanUp \in Seq(Socket)
         /\ Len(CleanUp) = Len(sockets)
         /\ \A i \in 1 .. Len(sockets) :
              ~CleanUp[i].hooked /\ CleanUp[i].state \in {"closing", "closed"}
<1>1. sockets \in Seq(Socket) /\ HookInv
  BY DEF IInv, TypeOK, Socket
<1>2. DOMAIN sockets = 1 .. Len(sockets) /\ Len(sockets) \in Nat
  BY <1>1
<1>3. ASSUME NEW s \in Socket
      PROVE  /\ Abandoned(s) \in Socket
             /\ ~Abandoned(s).hooked /\ Abandoned(s).state \in {"closing", "closed"}
  BY <1>3 DEF Abandoned, Socket
<1>4. \A i \in 1 .. Len(sockets) :
        /\ CleanUp[i] \in Socket
        /\ ~CleanUp[i].hooked /\ CleanUp[i].state \in {"closing", "closed"}
  <2> SUFFICES ASSUME NEW i \in 1 .. Len(sockets)
               PROVE  /\ CleanUp[i] \in Socket
                      /\ ~CleanUp[i].hooked /\ CleanUp[i].state \in {"closing", "closed"}
    OBVIOUS
  <2>1. sockets[i] \in Socket
    BY <1>1, <1>2
  <2>2. CleanUp[i] = IF i = ws THEN Abandoned(sockets[i]) ELSE sockets[i]
    BY <1>2 DEF CleanUp
  <2>3. CASE i = ws
    BY <2>1, <2>2, <2>3, <1>3
  <2>4. CASE i # ws
    BY <1>1, <1>2, <2>1, <2>2, <2>4 DEF HookInv
  <2>5. QED
    BY <2>3, <2>4
<1>5. CleanUp = [i \in 1 .. Len(sockets) |-> CleanUp[i]]
  BY <1>2 DEF CleanUp
<1>6. CleanUp \in [1 .. Len(sockets) -> Socket]
  BY <1>4, <1>5
<1>7. CleanUp \in Seq(Socket) /\ Len(CleanUp) = Len(sockets)
  <2> HIDE DEF CleanUp
  <2>1. QED
    BY <1>2, <1>6
<1>8. QED
  BY <1>4, <1>7

(* Whoever calls connect leaves one connection at most, to the new symbol. *)
LEMMA ConnectIInv ==
  ASSUME IInv, NEW s \in Symbols, NEW n \in Nat, Connect(s, n),
         handlers' \in SUBSET {"page", "panel"}, page' = "open", live' \in BOOLEAN,
         selects' \in 0 .. MaxSelects
  PROVE  IInv'
<1> DEFINE new == [symbol |-> s, state |-> "connecting", hooked |-> TRUE]
<1>1. /\ CleanUp \in Seq(Socket)
      /\ Len(CleanUp) = Len(sockets)
      /\ \A i \in 1 .. Len(sockets) :
           ~CleanUp[i].hooked /\ CleanUp[i].state \in {"closing", "closed"}
  BY CleanUpFact
<1>2. Len(sockets) \in Nat /\ tries \in 0 .. MaxSockets /\ MaxSockets \in Nat
  BY SocketAssumption DEF IInv, TypeOK
<1>3. symbol' = s /\ tries' \in 0 .. MaxSockets
  BY <1>2 DEF Connect
<1>4. CASE /\ sockets' = Append(CleanUp, new)
           /\ ws' = Len(sockets) + 1
           /\ timer' = Idle /\ attempt' = 0
           /\ failures' = n
  <2> HIDE DEF CleanUp
  <2>1. new \in Socket
    BY DEF Socket
  <2>2. /\ sockets' \in Seq(Socket)
        /\ Len(sockets') = Len(sockets) + 1
        /\ sockets'[Len(sockets) + 1] = new
        /\ \A i \in 1 .. Len(sockets) : sockets'[i] = CleanUp[i]
    BY <1>1, <1>2, <1>4, <2>1
  <2>3. DOMAIN sockets' = 1 .. Len(sockets) + 1
    BY <2>2
  <2>4. TypeOK'
    BY <1>2, <1>3, <1>4, <2>2 DEF TypeOK, Socket
  <2>5. HookInv'
    <3> SUFFICES ASSUME NEW i \in 1 .. Len(sockets) + 1
                 PROVE  /\ sockets'[i].hooked <=> i = Len(sockets) + 1
                        /\ ~sockets'[i].hooked => sockets'[i].state \in {"closing", "closed"}
      BY <1>4, <2>3 DEF HookInv
    <3>1. QED
      BY <1>1, <1>2, <2>2
  <2>6. PageInv'
    BY <1>3, <1>4, <2>2 DEF PageInv
  <2>7. QED
    BY <2>4, <2>5, <2>6 DEF IInv
<1>5. CASE /\ sockets' = CleanUp
           /\ ws' = 0
           /\ Scheduled(0)
           /\ failures' = n + 1
  <2> HIDE DEF CleanUp
  <2>1. timer' \in 0 .. MaxExponent /\ attempt' = 1
    BY <1>5, DelayType DEF Scheduled
  <2>2. DOMAIN sockets' = 1 .. Len(sockets)
    BY <1>1, <1>5
  <2>3. TypeOK'
    BY <1>1, <1>2, <1>3, <1>5, <2>1 DEF TypeOK, Socket
  <2>4. HookInv'
    BY <1>1, <1>2, <1>5, <2>2 DEF HookInv
  <2>5. PageInv'
    BY <1>3, <1>5 DEF PageInv
  <2>6. QED
    BY <2>3, <2>4, <2>5 DEF IInv
<1>6. QED
  BY <1>4, <1>5 DEF Connect

LEMMA SelectIInv ==
  ASSUME IInv, NEW s \in Symbols, Select(s)
  PROVE  IInv'
<1>1. selects' \in 0 .. MaxSelects
  BY SocketAssumption DEF IInv, TypeOK, Select
<1>2. live' \in BOOLEAN
  <2>1. (page = "open" /\ live) \in BOOLEAN
    BY Zenon
  <2>2. live' = (page = "open" /\ live)
    BY DEF Select
  <2>3. QED
    BY <2>1, <2>2
<1>3. Connect(s, 0) /\ handlers' = {"page"} /\ page' = "open"
  BY DEF Select
<1>4. QED
  BY <1>1, <1>2, <1>3, ConnectIInv

LEMMA TimerIInv ==
  ASSUME IInv, TimerFires
  PROVE  IInv'
<1>1. Connect(symbol, failures) /\ handlers' = {} /\ UNCHANGED <<page, live, selects>>
  BY DEF TimerFires
<1>2. page = "open" /\ symbol \in Symbols
  BY DEF TimerFires, IInv, PageInv
<1>3. failures \in Nat /\ live \in BOOLEAN /\ selects \in 0 .. MaxSelects
  BY DEF IInv, TypeOK
<1>4. QED
  BY <1>1, <1>2, <1>3, ConnectIInv

LEMMA LeaveIInv ==
  ASSUME IInv, Leave
  PROVE  IInv'
<1>1. /\ CleanUp \in Seq(Socket)
      /\ Len(CleanUp) = Len(sockets)
      /\ \A i \in 1 .. Len(sockets) :
           ~CleanUp[i].hooked /\ CleanUp[i].state \in {"closing", "closed"}
  BY CleanUpFact
<1>2. /\ page' = "closed" /\ live' = FALSE
      /\ sockets' = CleanUp /\ ws' = 0
      /\ timer' = Idle /\ attempt' = 0 /\ handlers' = {}
      /\ UNCHANGED <<symbol, tries, selects, failures>>
  BY DEF Leave
<1> HIDE DEF CleanUp
<1>3. Len(sockets) \in Nat /\ DOMAIN sockets' = 1 .. Len(sockets)
  BY <1>1, <1>2 DEF IInv, TypeOK
<1>4. TypeOK'
  <2>1. /\ sockets' \in Seq(Socket) /\ ws' = 0 /\ ws' \in 0 .. Len(sockets')
        /\ timer' = Idle /\ attempt' \in Nat /\ handlers' \subseteq {"page", "panel"}
        /\ page' \in {"closed", "open"} /\ UNCHANGED <<symbol, tries, selects, failures>>
    BY <1>1, <1>2, <1>3
  <2>2. live' \in BOOLEAN
    BY <1>2
  <2>3. TypeOK
    BY DEF IInv
  <2>4. QED
    BY <2>1, <2>2, <2>3 DEF TypeOK, Socket
<1>5. HookInv'
  BY <1>1, <1>2, <1>3 DEF HookInv
<1>6. PageInv'
  BY <1>2 DEF PageInv
<1>7. QED
  BY <1>4, <1>5, <1>6 DEF IInv

(* What a change of one socket's readyState leaves alone.                  *)
LEMMA BecomeFact ==
  ASSUME IInv, NEW i \in DOMAIN sockets,
         NEW state \in {"connecting", "open", "closing", "closed"}, Become(i, state)
  PROVE  /\ sockets' \in Seq(Socket) /\ Len(sockets') = Len(sockets)
         /\ DOMAIN sockets' = DOMAIN sockets
         /\ \A j \in DOMAIN sockets :
              /\ sockets'[j].symbol = sockets[j].symbol
              /\ sockets'[j].hooked = sockets[j].hooked
              /\ sockets'[j].state = IF j = i THEN state ELSE sockets[j].state
<1>1. sockets \in Seq(Socket)
  BY DEF IInv, TypeOK, Socket
<1>2. sockets' = [sockets EXCEPT ![i] = [sockets[i] EXCEPT !.state = state]]
  BY <1>1 DEF Become
<1>3. sockets[i] \in Socket
  BY <1>1
<1>4. [sockets[i] EXCEPT !.state = state] \in Socket
  BY <1>3 DEF Socket
<1>5. sockets' \in Seq(Socket) /\ Len(sockets') = Len(sockets) /\ DOMAIN sockets' = DOMAIN sockets
  BY <1>1, <1>2, <1>4
<1>6. \A j \in DOMAIN sockets :
         sockets'[j] = IF j = i THEN [sockets[i] EXCEPT !.state = state] ELSE sockets[j]
  BY <1>1, <1>2
<1>7. QED
  BY <1>3, <1>5, <1>6 DEF Socket

LEMMA OpenIInv ==
  ASSUME IInv, NEW i \in DOMAIN sockets, Open(i)
  PROVE  IInv'
<1>1. /\ sockets[i].state = "connecting" /\ Become(i, "open") /\ failures' = 0
      /\ UNCHANGED <<symbol, ws, timer, attempt, handlers, tries, page, live, selects>>
  BY DEF Open
<1>2. TypeOK /\ HookInv /\ PageInv /\ DOMAIN sockets = 1 .. Len(sockets)
  BY DEF IInv, TypeOK
<1>3. i = ws
  BY <1>1, <1>2 DEF HookInv
<1>4. TypeOK'
  BY <1>1, <1>2, BecomeFact DEF TypeOK, Socket
<1>5. HookInv'
  BY <1>1, <1>2, <1>3, BecomeFact DEF HookInv
<1>6. PageInv'
  BY <1>1, <1>2, <1>3, BecomeFact DEF PageInv, InUse
<1>7. QED
  BY <1>4, <1>5, <1>6 DEF IInv

(* A close event is heard only from this.ws, whose page is open.           *)
LEMMA CloseIInv ==
  ASSUME IInv, NEW i \in DOMAIN sockets, Close(i)
  PROVE  IInv'
<1>1. /\ Become(i, "closed")
      /\ UNCHANGED <<symbol, ws, handlers, tries, page, live, selects>>
  BY DEF Close
<1>2. TypeOK /\ HookInv /\ PageInv /\ DOMAIN sockets = 1 .. Len(sockets)
  BY DEF IInv, TypeOK
<1>3. \/ i = ws /\ timer' \in 0 .. MaxExponent /\ attempt' \in Nat /\ failures' \in Nat
      \/ i # ws /\ UNCHANGED <<timer, attempt, failures>>
  <2>1. CASE sockets[i].hooked
    <3>1. Scheduled(attempt) /\ failures' = failures + 1
      BY <2>1 DEF Close
    <3>2. attempt \in Nat /\ failures \in Nat
      BY <1>2 DEF TypeOK
    <3>3. i = ws
      BY <1>2, <2>1 DEF HookInv
    <3>4. QED
      BY <3>1, <3>2, <3>3, DelayType DEF Scheduled
  <2>2. CASE ~sockets[i].hooked
    BY <1>2, <2>2 DEF Close, HookInv
  <2>3. QED
    BY <2>1, <2>2
<1>4. TypeOK'
  BY <1>1, <1>2, <1>3, BecomeFact DEF TypeOK, Socket
<1>5. HookInv'
  BY <1>1, <1>2, BecomeFact DEF HookInv
<1>6. PageInv'
  <2>1. 0 \notin DOMAIN sockets /\ (ws # 0 => ws \in DOMAIN sockets)
    BY <1>2 DEF TypeOK
  <2>2. QED
    BY <1>1, <1>2, <1>3, <2>1, BecomeFact DEF PageInv, InUse
<1>7. QED
  BY <1>4, <1>5, <1>6 DEF IInv

LEMMA MessageIInv ==
  ASSUME IInv, NEW i \in DOMAIN sockets, Message(i)
  PROVE  IInv'
<1>1. UNCHANGED <<symbol, sockets, ws, timer, attempt, handlers, tries, page, selects, failures>>
  BY DEF Message, socketVars
<1>2. live' \in BOOLEAN
  <2>1. (live \/ "page" \in handlers) \in BOOLEAN
    BY Zenon
  <2>2. live' = (live \/ "page" \in handlers)
    BY DEF Message
  <2>3. QED
    BY <2>1, <2>2
<1>3. TypeOK'
  BY <1>1, <1>2 DEF IInv, TypeOK
<1>4. HookInv' /\ PageInv'
  BY <1>1 DEF IInv, HookInv, PageInv, InUse
<1>5. QED
  BY <1>3, <1>4 DEF IInv

LEMMA StepIInv == IInv /\ [Next]_vars => IInv'
<1> SUFFICES ASSUME IInv, [Next]_vars PROVE IInv'
  OBVIOUS
<1>1. CASE UNCHANGED vars
  BY <1>1 DEF vars, socketVars, IInv, TypeOK, HookInv, PageInv, InUse
<1>2. QED
  BY <1>1, SelectIInv, LeaveIInv, TimerIInv, OpenIInv, MessageIInv, CloseIInv DEF Next

LEMMA Invariance == Spec => []IInv
BY InitIInv, StepIInv, PTL DEF Spec
-------------------------------------------------------------------------------
(* The variables keep their types.                                         *)
THEOREM TypeCorrect == Spec => []TypeOK
<1>1. IInv => TypeOK
  BY DEF IInv
<1>2. QED
  BY <1>1, Invariance, PTL

(* However choices, closes, failures and reconnects interleave, there is   *)
(* one connection at most, the one this.ws names, to the symbol shown, on  *)
(* an open page and with no reconnect pending.                             *)
THEOREM SingleConnection == Spec => []OneConnection
<1>1. IInv => OneConnection
  <2> SUFFICES ASSUME IInv PROVE OneConnection
    OBVIOUS
  <2>1. TypeOK /\ HookInv /\ PageInv /\ DOMAIN sockets = 1 .. Len(sockets)
    BY DEF IInv, TypeOK
  <2>2. ASSUME NEW i \in DOMAIN sockets, InUse(i)
        PROVE  i = ws /\ sockets[i].symbol = symbol /\ timer = Idle /\ page = "open"
    BY <2>1, <2>2 DEF HookInv, PageInv, InUse
  <2>3. ASSUME page = "closed"
        PROVE  timer = Idle /\ \A i \in DOMAIN sockets : ~sockets[i].hooked
    BY <2>1, <2>3 DEF HookInv, PageInv
  <2>4. QED
    BY <2>2, <2>3 DEF OneConnection
<1>2. QED
  BY <1>1, Invariance, PTL
================================================================================
