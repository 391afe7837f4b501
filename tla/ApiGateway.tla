------------------------------- MODULE ApiGateway -------------------------------
(***************************************************************************)
(* The API gateway (cmd/api-gateway): HTTP requests pass the rate limiter  *)
(* and, on the order routes, the token check; the handlers call the order  *)
(* service over gRPC and turn what it says into an HTTP status.            *)
(*                                                                         *)
(* The order service is the one of OrderPromise, which OrderService        *)
(* implements.  The user client is the mock the factory installs: each     *)
(* login is a user of its own, so a user, and a token, is named by the     *)
(* login that made it.                                                     *)
(***************************************************************************)
EXTENDS Integers, Sequences, FiniteSets

CONSTANTS
  HttpRequests,  \* requests; a client's retry is a request of its own
  Sessions,      \* logins of before: a token outlives the process
  NoToken,       \* no token, or one that is malformed or not signed by us
  Addresses,     \* client IPs
  Keys,          \* idempotency keys
  Forms,         \* Forms[r]: what request r may look like, but for token and order
  NoRequest, NoOrder,
  Burst, Rate,   \* the token bucket: its size, its refill at each tick
  MaxEvents      \* bound: refills, purges, clients that leave, tokens that expire,
                 \* shutdowns and crashes

Form == [kind : {"public", "place", "get"}, bearer : BOOLEAN, ip : Addresses, key : Keys, bindable : BOOLEAN]

ASSUME GatewayAssumption ==
  /\ Forms \in [HttpRequests -> SUBSET Form]
  /\ HttpRequests \cap Sessions = {}
  /\ NoToken \notin HttpRequests \cup Sessions
  /\ NoOrder \notin HttpRequests
  /\ {Burst, Rate, MaxEvents} \subseteq Nat

VARIABLES
  server,     \* "up", "draining" (Shutdown was called) or "down"
  dialled,    \* newGRPCOrderClient gave a client; its error is dropped
  call,       \* call[r]: the request
  at,         \* at[r]: where its goroutine is
  status,     \* status[r]: the HTTP status the client got; "cut": none
  gone,       \* requests whose client will not get the answer
  limiter,    \* limiter[r]: the bucket r took from the map, 0 for none
  admitted,   \* requests Allow let pass
  visitors,   \* visitors[ip]: the bucket of an address, 0 for none
  buckets,    \* the buckets, in the order they were made
  clock, drops,
  expired,    \* tokens more than 24 hours old
  events,     \* what has happened to the requests so far
  asked, outcome, answer, placed, cancelled  \* the order service

limitVars == <<limiter, admitted, visitors, buckets, clock, drops>>
orderVars == <<asked, outcome, answer, placed, cancelled>>
hostVars  == <<server, dialled, expired>>
vars == <<call, at, status, gone, events, limitVars, hostVars, orderVars>>

Orders == INSTANCE OrderPromise WITH
  Calls <- HttpRequests,
  Requests <- [user : HttpRequests \cup Sessions, key : Keys]

Stages   == {"idle", "limit", "place", "get", "done"}
Statuses == {"none", "cut", "OK", "Registered", "Created", "BadRequest", "Unauthorized", "NotFound",
             "TooManyRequests", "InternalServerError"}
InFlight == {r \in HttpRequests : at[r] \notin {"idle", "done"}}

Init ==
  /\ server = "up" /\ dialled \in BOOLEAN
  /\ call = [r \in HttpRequests |-> NoRequest]
  /\ at = [r \in HttpRequests |-> "idle"]
  /\ status = [r \in HttpRequests |-> "none"]
  /\ gone = {}
  /\ limiter = [r \in HttpRequests |-> 0]
  /\ admitted = {}
  /\ visitors = [ip \in Addresses |-> 0]
  /\ buckets = <<>>
  /\ clock = 0 /\ drops = 0 /\ events = 0
  /\ expired = {}
  /\ Orders!PInit

Happens == events < MaxEvents /\ events' = events + 1

Goto(r, stage) == at' = [at EXCEPT ![r] = stage] /\ UNCHANGED status

(* The handler writes its answer, for a client that may have left.         *)
Respond(r, s) ==
  /\ at' = [at EXCEPT ![r] = "done"]
  /\ status' = [status EXCEPT ![r] = IF r \in gone THEN "cut" ELSE s]
-------------------------------------------------------------------------------
(* The rate limiter *)

(* Slip: the new limiter is not stored. *)
GetVisitorUnstored(r, ip) ==
  IF visitors[ip] # 0
  THEN limiter' = [limiter EXCEPT ![r] = visitors[ip]] /\ UNCHANGED <<visitors, buckets>>
  ELSE /\ buckets' = Append(buckets, [ip |-> ip, tokens |-> Burst, born |-> clock])
       /\ limiter' = [limiter EXCEPT ![r] = Len(buckets')]
       /\ UNCHANGED visitors

(* Under the mutex: the address's bucket, made full at its first request.  *)
GetVisitor(r, ip) ==
  IF visitors[ip] # 0
  THEN limiter' = [limiter EXCEPT ![r] = visitors[ip]] /\ UNCHANGED <<visitors, buckets>>
  ELSE /\ buckets' = Append(buckets, [ip |-> ip, tokens |-> Burst, born |-> clock])
       /\ limiter' = [limiter EXCEPT ![r] = Len(buckets')]
       /\ visitors' = [visitors EXCEPT ![ip] = Len(buckets')]

(* A token a client holds: of an earlier session or a login it heard from. *)
HeldTokens ==
  Sessions \cup {r \in HttpRequests : status[r] = "OK" /\ call[r].kind = "public"}

(* An order id a client holds.                                             *)
HeldOrders == {answer[r] : r \in {q \in HttpRequests : status[q] = "Created"}} \cap HttpRequests

Arrive(r) ==
  /\ server = "up"
  /\ at[r] = "idle"
  /\ \E form \in Forms[r] :
     \E token \in IF form.bearer THEN HeldTokens ELSE {NoToken} :
     \E order \in IF form.kind = "get" THEN HeldOrders \cup {NoOrder} ELSE {NoOrder} :
       /\ call' = [call EXCEPT ![r] = [form |-> form, kind |-> form.kind, token |-> token, order |-> order]]
       /\ GetVisitor(r, form.ip)
  /\ Goto(r, "limit")
  /\ UNCHANGED <<events, gone, admitted, clock, drops, hostVars, orderVars>>

(* Slip: refilled beyond the burst. *)
RefilledUncapped(bucket) == [bucket EXCEPT !.tokens = @ + Rate + 1]

Refilled(bucket) ==
  [bucket EXCEPT !.tokens = IF @ + Rate > Burst THEN Burst ELSE @ + Rate]

(* A unit of time in which some bucket is refilled.                        *)
Tick ==
  /\ Happens
  /\ \E b \in DOMAIN buckets : buckets[b].tokens < Burst
  /\ clock' = clock + 1
  /\ buckets' = [b \in DOMAIN buckets |-> Refilled(buckets[b])]
  /\ UNCHANGED <<call, at, status, gone, limiter, admitted, visitors, drops, hostVars, orderVars>>

ForgetVisitors ==
  /\ visitors' = [ip \in Addresses |-> 0]
  /\ drops' = drops + 1

(* cleanup, every five minutes: all limiters go, in use or not.            *)
Cleanup ==
  /\ server # "down"
  /\ \E ip \in Addresses : visitors[ip] # 0
  /\ Happens
  /\ ForgetVisitors
  /\ UNCHANGED <<call, at, status, gone, limiter, admitted, buckets, clock, hostVars, orderVars>>
-------------------------------------------------------------------------------
(* The handlers *)

(* Login takes any credentials and makes a token for a new user; Register  *)
(* stores nothing and answers 201.  The mock refuses empty credentials     *)
(* only, which do not bind, so the 401 and the 500 are not reached.        *)
Public(r) ==
  /\ call[r].kind = "public"
  /\ \E s \in IF call[r].form.bindable THEN {"OK", "Registered"} ELSE {"BadRequest"} :
       Respond(r, s)
  /\ UNCHANGED orderVars

ValidToken(r) == call[r].token \notin {NoToken} \cup expired

RequireAuth(r) ==
  /\ call[r].kind \in {"place", "get"}
  /\ ~ValidToken(r)
  /\ Respond(r, "Unauthorized")
  /\ UNCHANGED orderVars

SendOrder(r) == Orders!Ask(r, [user |-> call[r].token, key |-> call[r].form.key])

(* There is no client: the call panics, and Recovery answers.              *)
Recovery(r) == ~dialled /\ Respond(r, "InternalServerError")

(* The body does not bind, or a LIMIT order has no price; the context is   *)
(* cancelled before the call; or the call is sent.                         *)
PlaceOrder(r) ==
  /\ call[r].kind = "place"
  /\ ValidToken(r)
  /\ \/ /\ ~call[r].form.bindable
        /\ Respond(r, "BadRequest")
        /\ UNCHANGED orderVars
     \/ /\ call[r].form.bindable
        /\ \/ Recovery(r)
           \/ r \in gone /\ Respond(r, "InternalServerError")
        /\ UNCHANGED orderVars
     \/ /\ call[r].form.bindable
        /\ dialled
        /\ SendOrder(r)
        /\ Goto(r, "place")

GetOrder(r) ==
  /\ call[r].kind = "get"
  /\ ValidToken(r)
  /\ \/ Recovery(r)
     \/ dialled /\ Goto(r, "get")
  /\ UNCHANGED orderVars

(* Allow, outside the mutex, on a bucket that may have left the map; what  *)
(* follows touches nothing shared until the order service is called.       *)
Allow(r) ==
  LET b == limiter[r] IN
  /\ at[r] = "limit"
  /\ buckets[b].tokens > 0
  /\ buckets' = [buckets EXCEPT ![b].tokens = @ - 1]
  /\ admitted' = admitted \cup {r}
  /\ Public(r) \/ RequireAuth(r) \/ PlaceOrder(r) \/ GetOrder(r)
  /\ UNCHANGED <<events, call, gone, limiter, visitors, clock, drops, hostVars>>

TooMany(r) ==
  /\ at[r] = "limit"
  /\ buckets[limiter[r]].tokens = 0
  /\ Respond(r, "TooManyRequests")
  /\ UNCHANGED <<events, call, gone, limitVars, hostVars, orderVars>>

(* Slip: the error of the call is not looked at. *)
PlaceOrderErrorIgnored(r) ==
  /\ at[r] = "place"
  /\ outcome[r] # "none"
  /\ Respond(r, "Created")
  /\ UNCHANGED <<events, call, gone, limitVars, hostVars, orderVars>>

(* Slip: only an order ends the wait. *)
PlaceOrderWaits(r) ==
  /\ at[r] = "place"
  /\ outcome[r] = "order"
  /\ Respond(r, "Created")
  /\ UNCHANGED <<events, call, gone, limitVars, hostVars, orderVars>>

(* The call returns; with an error at once if the client has left.         *)
PlaceOrderReturns(r) ==
  /\ at[r] = "place"
  /\ \/ outcome[r] = "order" /\ Respond(r, "Created")
     \/ outcome[r] \in {"refused", "unknown"} /\ Respond(r, "InternalServerError")
     \/ outcome[r] = "none" /\ r \in gone /\ Respond(r, "InternalServerError")
  /\ UNCHANGED <<events, call, gone, limitVars, hostVars, orderVars>>

(* The connection to the order service breaks, which may go on with the    *)
(* call.                                                                   *)
ConnectionBreaks(r) ==
  /\ at[r] = "place"
  /\ outcome[r] = "none"
  /\ Respond(r, "InternalServerError")
  /\ UNCHANGED <<events, call, gone, limitVars, hostVars, orderVars>>

(* An order of another user is not found; nor is any, if the call fails.   *)
GetOrderReturns(r) ==
  /\ at[r] = "get"
  /\ \/ Orders!Visible(call[r].order, call[r].token) /\ Respond(r, "OK")
     \/ Respond(r, "NotFound")
  /\ UNCHANGED <<events, call, gone, limitVars, hostVars, orderVars>>
-------------------------------------------------------------------------------
(* Clients, tokens, the order service and the process *)

(* The client disconnects, which cancels the call's context, or            *)
(* WriteTimeout is over and the answer, if it comes, is not sent.          *)
Leave(r) ==
  /\ r \in InFlight \ gone
  /\ Happens
  /\ gone' = gone \cup {r}
  /\ UNCHANGED <<call, at, status, limitVars, hostVars, orderVars>>

Expire(token) ==
  /\ token \in HeldTokens \ expired
  /\ Happens
  /\ expired' = expired \cup {token}
  /\ UNCHANGED <<call, at, status, gone, limitVars, server, dialled, orderVars>>

(* The order service works on a call whether or not anyone waits for it.   *)
OrderService(r) ==
  /\ Orders!Place(r) \/ Orders!ReturnOrder(r) \/ Orders!Refuse(r)
  /\ UNCHANGED <<events, call, at, status, gone, limitVars, hostVars>>

(* A failed statement or a crash of the order service ends the call.       *)
OrderServiceFails(r) ==
  /\ Orders!Fail({r})
  /\ UNCHANGED <<events, call, at, status, gone, limitVars, hostVars>>

(* SIGTERM: Shutdown closes the listener.                                  *)
Shutdown ==
  /\ server = "up"
  /\ Happens
  /\ server' = "draining"
  /\ UNCHANGED <<call, at, status, gone, limitVars, dialled, expired, orderVars>>

(* The process ends, with the requests in C unanswered.                    *)
EndProcess(C) ==
  /\ server' = "down"
  /\ at' = [r \in HttpRequests |-> IF r \in C THEN "done" ELSE at[r]]
  /\ status' = [r \in HttpRequests |-> IF r \in C THEN "cut" ELSE status[r]]
  /\ UNCHANGED <<call, limitVars, dialled, expired, orderVars>>

(* Shutdown returns when nothing is in flight.                             *)
Exit ==
  /\ server = "draining"
  /\ InFlight = {}
  /\ EndProcess({})
  /\ UNCHANGED <<gone, events>>

(* Ten seconds have passed, or the process is killed.                      *)
Abandon ==
  /\ server # "down"
  /\ InFlight # {}
  /\ gone' = gone \cup InFlight
  /\ EndProcess(InFlight)
  /\ \/ server = "draining" /\ UNCHANGED events
     \/ server = "up" /\ Happens

Restart ==
  /\ server = "down"
  /\ server' = "up"
  /\ dialled' \in BOOLEAN
  /\ ForgetVisitors
  /\ UNCHANGED <<events, call, at, status, gone, limiter, admitted, buckets, clock, expired, orderVars>>

Quiet ==
  /\ \A r \in HttpRequests : at[r] = "done"
  /\ UNCHANGED vars

Handler(r) == Allow(r) \/ TooMany(r) \/ PlaceOrderReturns(r) \/ GetOrderReturns(r)

Next ==
  \/ \E r \in HttpRequests :
       \/ Arrive(r) \/ Handler(r) \/ Leave(r)
       \/ OrderService(r) \/ OrderServiceFails(r) \/ ConnectionBreaks(r)
  \/ \E token \in HttpRequests \cup Sessions : Expire(token)
  \/ Tick \/ Cleanup
  \/ Shutdown \/ Exit \/ Abandon \/ Restart
  \/ Quiet

Spec == Init /\ [][Next]_vars

(* A handler that can go on does.  The order service answers every call,   *)
(* which AllCallsReturn says of OrderService; the gateway has no timeout   *)
(* of its own.  A process that was told to stop ends.                      *)
Fairness ==
  /\ \A r \in HttpRequests : WF_vars(Handler(r)) /\ WF_vars(OrderService(r))
  /\ WF_vars(Exit)

FairSpec == Spec /\ Fairness
-------------------------------------------------------------------------------
(* Properties *)

(* The types of the variables.                                             *)
TypeOK ==
  /\ server \in {"up", "draining", "down"} /\ dialled \in BOOLEAN
  /\ call \in [HttpRequests ->
       [form : UNION {Forms[r] : r \in HttpRequests}, kind : {"public", "place", "get"},
        token : HttpRequests \cup Sessions \cup {NoToken},
        order : HttpRequests \cup {NoOrder}] \cup {NoRequest}]
  /\ at \in [HttpRequests -> Stages]
  /\ status \in [HttpRequests -> Statuses]
  /\ gone \subseteq HttpRequests /\ admitted \subseteq HttpRequests
  /\ limiter \in [HttpRequests -> 0 .. Len(buckets)]
  /\ visitors \in [Addresses -> 0 .. Len(buckets)]
  /\ buckets \in Seq([ip : Addresses, tokens : 0 .. Burst, born : 0 .. clock])
  /\ clock \in Nat /\ drops \in Nat /\ events \in 0 .. MaxEvents
  /\ expired \subseteq HttpRequests \cup Sessions

(* What the status says is so, however the request, its client, the order  *)
(* service and a shutdown interleave: "Created" names an order that exists *)
(* under the request's key, "OK" to GetOrder one of the asker's own; after *)
(* a 4xx the order service never hears of the request; and only a client   *)
(* that left, or one a deadline abandoned, gets no answer.                 *)
AnswersTruthful ==
  \A r \in HttpRequests :
    /\ status[r] = "Created" =>
         answer[r] \in placed /\ asked[answer[r]].key = call[r].form.key
    /\ status[r] = "OK" /\ call[r].kind = "get" =>
         asked[call[r].order].user = call[r].token
    /\ status[r] \in {"BadRequest", "Unauthorized", "TooManyRequests"} =>
         asked[r] = NoRequest
    /\ status[r] = "cut" => r \in gone

(* Retries with the key of a request that was cut or failed never make a   *)
(* second order, and those that are answered agree on it.                  *)
RetriesAgree ==
  \A r, q \in HttpRequests :
    /\ r \in placed /\ q \in placed /\ asked[r].key = asked[q].key => r = q
    /\ /\ status[r] = "Created" /\ status[q] = "Created"
       /\ call[r].form.key = call[q].form.key
       => answer[r] = answer[q]

(* The limit of main.go:64, as far as it goes: an address gets one bucket  *)
(* until the map is next emptied, whatever its requests do at once, and a  *)
(* bucket lets pass its burst and what flows in, even to requests that     *)
(* took it from the map before it was dropped.                             *)
RateBounded ==
  /\ \A ip \in Addresses :
       Cardinality({b \in DOMAIN buckets : buckets[b].ip = ip}) <= 1 + drops
  /\ \A b \in DOMAIN buckets :
       Cardinality({r \in admitted : limiter[r] = b}) <= Burst + Rate * (clock - buckets[b].born)

(* As long as the order service answers, the gateway comes to rest: no     *)
(* request hangs in a handler and a process told to stop ends.             *)
RequestsAnswered ==
  (InFlight # {} \/ server = "draining") ~> (InFlight = {} /\ server # "draining")
================================================================================
