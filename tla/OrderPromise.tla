------------------------------ MODULE OrderPromise ------------------------------
(***************************************************************************)
(* What the order service promises its callers, without statements,        *)
(* transactions, locks or connections: a PlaceOrder call creates at most   *)
(* one order, under a key no other order has, and is answered once.        *)
(*                                                                         *)
(* OrderService implements this specification, and ApiGateway calls the    *)
(* order service through it.  An order is named by the call that made it.  *)
(***************************************************************************)
CONSTANTS
  Calls,      \* PlaceOrder calls
  Requests,   \* what they may ask: records with a user and a key
  NoRequest,  \* a call that has not arrived
  NoOrder     \* no order in an answer

VARIABLES
  asked,      \* asked[c]: the request of call c
  outcome,    \* outcome[c]: "none", "order", "refused" or "unknown"
  answer,     \* answer[c]: the order that was returned
  placed,     \* the orders that exist
  cancelled   \* those that were cancelled

promised == <<asked, outcome, answer, placed, cancelled>>

Running(c) == asked[c] # NoRequest /\ outcome[c] = "none"
SameKey(c) == {o \in placed : asked[o].key = asked[c].key}

PInit ==
  /\ asked = [c \in Calls |-> NoRequest]
  /\ outcome = [c \in Calls |-> "none"]
  /\ answer = [c \in Calls |-> NoOrder]
  /\ placed = {}
  /\ cancelled = {}
-------------------------------------------------------------------------------
(* A call arrives, and may be refused at once.                             *)
Ask(c, request) ==
  /\ asked[c] = NoRequest
  /\ asked' = [asked EXCEPT ![c] = request]
  /\ outcome' \in {outcome, [outcome EXCEPT ![c] = "refused"]}
  /\ UNCHANGED <<answer, placed, cancelled>>

(* Slip: the key is not unique. *)
PlaceAgain(c) ==
  /\ Running(c)
  /\ placed' = placed \cup {c}
  /\ UNCHANGED <<asked, outcome, answer, cancelled>>

(* The order exists before its caller hears of it.                         *)
Place(c) ==
  /\ Running(c)
  /\ SameKey(c) = {}
  /\ placed' = placed \cup {c}
  /\ UNCHANGED <<asked, outcome, answer, cancelled>>

(* The order with the call's key, whoever placed it.                       *)
ReturnOrder(c) ==
  /\ Running(c)
  /\ \E o \in SameKey(c) : answer' = [answer EXCEPT ![c] = o]
  /\ outcome' = [outcome EXCEPT ![c] = "order"]
  /\ UNCHANGED <<asked, placed, cancelled>>

Refuse(c) ==
  /\ Running(c)
  /\ c \notin placed
  /\ outcome' = [outcome EXCEPT ![c] = "refused"]
  /\ UNCHANGED <<asked, answer, placed, cancelled>>

(* Calls end with an error, or without an answer: all of them in a crash.  *)
Fail(C) ==
  /\ \A c \in C : Running(c)
  /\ outcome' = [c \in Calls |-> IF c \in C THEN "unknown" ELSE outcome[c]]
  /\ UNCHANGED <<asked, answer, placed, cancelled>>

Cancel(o) ==
  /\ o \in placed \ cancelled
  /\ cancelled' = cancelled \cup {o}
  /\ UNCHANGED <<asked, outcome, answer, placed>>

(* GetOrder finds an order for its owner only.                             *)
Visible(o, user) == o \in placed /\ asked[o].user = user

PNext ==
  \/ \E c \in Calls : \E request \in Requests : Ask(c, request)
  \/ \E c \in Calls : Place(c) \/ ReturnOrder(c) \/ Refuse(c)
  \/ \E C \in SUBSET Calls : Fail(C)
  \/ \E o \in Calls : Cancel(o)

PSpec == PInit /\ [][PNext]_promised
================================================================================
