----------------------------- MODULE ApiGatewayProofs -----------------------------
(***************************************************************************)
(* Proofs about the API gateway, for any requests, logins, addresses, keys,*)
(* bucket sizes and number of events, over any order service that keeps    *)
(* OrderPromise.                                                           *)
(***************************************************************************)
EXTENDS ApiGateway, FiniteSetTheorems, TLAPS

Tokens   == HttpRequests \cup Sessions \cup {NoToken}
Question == [user : Tokens, key : Keys]
Received == [form : UNION {Forms[r] : r \in HttpRequests}, kind : {"public", "place", "get"},
             token : Tokens, order : HttpRequests \cup {NoOrder}]
Bucket   == [ip : Addresses, tokens : 0 .. Burst, born : 0 .. clock]

(* What the order service keeps to itself: orders have keys of their own,  *)
(* and whoever is told of an order is told of one with the key asked for.  *)
OrderInv ==
  /\ asked \in [HttpRequests -> Question \cup {NoRequest}]
  /\ answer \in [HttpRequests -> HttpRequests \cup {NoOrder}]
  /\ outcome \in [HttpRequests -> {"none", "order", "refused", "unknown"}]
  /\ placed \subseteq HttpRequests
  /\ \A o \in placed : asked[o] # NoRequest
  /\ \A o, p \in placed : asked[o].key = asked[p].key => o = p
  /\ \A r \in HttpRequests : outcome[r] = "order" =>
       asked[r] # NoRequest /\ answer[r] \in placed /\ asked[answer[r]].key = asked[r].key

(* How far a request has come, and what the order service knows of it.     *)
Stage(r) ==
  /\ status[r] # "none" => at[r] = "done"
  /\ at[r] # "idle" => call[r] \in Received
  /\ at[r] \in {"idle", "limit"} => asked[r] = NoRequest /\ r \notin admitted
  /\ at[r] = "limit" => limiter[r] # 0
  /\ at[r] = "place" => asked[r] = [user |-> call[r].token, key |-> call[r].form.key]

(* AnswersTruthful for one request, with what keeps it true: the order was *)
(* there when the answer was given.                                        *)
Truthful(r) ==
  /\ status[r] = "Created" =>
       outcome[r] = "order" /\ answer[r] \in placed /\ asked[answer[r]].key = call[r].form.key
  /\ status[r] = "OK" /\ call[r].kind = "get" =>
       call[r].order \in placed /\ asked[call[r].order].user = call[r].token
  /\ status[r] \in {"BadRequest", "Unauthorized", "TooManyRequests"} => asked[r] = NoRequest
  /\ status[r] = "cut" => r \in gone

RequestInv == \A r \in HttpRequests : Stage(r) /\ Truthful(r)

(* An address has at most one bucket for each time the map was emptied,    *)
(* and one for the time since if it is in the map; what went through a     *)
(* bucket and what is left in it came from its burst and its refills.      *)
Made(ip)   == {b \in DOMAIN buckets : buckets[b].ip = ip}
Through(b) == {r \in admitted : limiter[r] = b}

RateInv ==
  /\ \A ip \in Addresses :
       Cardinality(Made(ip)) <= IF visitors[ip] = 0 THEN drops ELSE 1 + drops
  /\ \A b \in DOMAIN buckets :
       /\ IsFiniteSet(Through(b))
       /\ Cardinality(Through(b)) + buckets[b].tokens <= Burst + Rate * (clock - buckets[b].born)

IInv == TypeOK /\ OrderInv /\ RequestInv /\ RateInv
-------------------------------------------------------------------------------
(* The order service *)

(* What a question was stays, and so does an order, and an answer.         *)
Lasting ==
  /\ \A r \in HttpRequests : asked[r] # NoRequest => asked'[r] = asked[r]
  /\ placed \subseteq placed'
  /\ \A r \in HttpRequests : outcome[r] = "order" => outcome'[r] = "order" /\ answer'[r] = answer[r]

LEMMA AskKeeps ==
  ASSUME OrderInv, NEW r \in HttpRequests, NEW question \in Question, Orders!Ask(r, question)
  PROVE  /\ OrderInv' /\ Lasting
         /\ asked' = [asked EXCEPT ![r] = question] /\ outcome[r] # "order"
<1>1. /\ asked[r] = NoRequest
      /\ asked' = [asked EXCEPT ![r] = question]
      /\ outcome' \in {outcome, [outcome EXCEPT ![r] = "refused"]}
      /\ UNCHANGED <<answer, placed>>
  BY DEF Orders!Ask
<1>2. outcome[r] # "order" /\ r \notin placed
  BY <1>1 DEF OrderInv
<1>3. \A q \in HttpRequests : outcome'[q] = "order" <=> outcome[q] = "order"
  BY <1>1, <1>2 DEF OrderInv
<1>4. \A q \in HttpRequests : q # r => asked'[q] = asked[q]
  BY <1>1 DEF OrderInv
<1>5. Lasting
  BY <1>1, <1>2, <1>3, <1>4 DEF Lasting
<1>6. \A o \in placed : asked'[o] = asked[o]
  BY <1>2, <1>4 DEF OrderInv
<1>7. OrderInv'
  <2>1. /\ asked' \in [HttpRequests -> Question \cup {NoRequest}]
        /\ outcome' \in [HttpRequests -> {"none", "order", "refused", "unknown"}]
    BY <1>1 DEF OrderInv
  <2>2. \A q \in HttpRequests : outcome'[q] = "order" =>
           asked'[q] # NoRequest /\ answer'[q] \in placed' /\ asked'[answer'[q]].key = asked'[q].key
    BY <1>1, <1>2, <1>3, <1>4, <1>6 DEF OrderInv
  <2>3. QED
    BY <1>1, <1>6, <2>1, <2>2 DEF OrderInv
<1>8. QED
  BY <1>1, <1>2, <1>5, <1>7

LEMMA ServiceKeeps ==
  ASSUME OrderInv, NEW r \in HttpRequests,
         Orders!Place(r) \/ Orders!ReturnOrder(r) \/ Orders!Refuse(r) \/ Orders!Fail({r})
  PROVE  OrderInv' /\ Lasting /\ asked' = asked
<1> USE DEF Orders!Running
<1>1. CASE Orders!Place(r)
  <2>1. /\ asked[r] # NoRequest /\ Orders!SameKey(r) = {}
        /\ placed' = placed \cup {r} /\ UNCHANGED <<asked, outcome, answer>>
    BY <1>1 DEF Orders!Place
  <2>2. \A o \in placed : asked[o].key # asked[r].key
    BY <2>1 DEF Orders!SameKey
  <2>3. OrderInv'
    BY <2>1, <2>2 DEF OrderInv
  <2>4. QED
    BY <2>1, <2>3 DEF Lasting
<1>2. CASE Orders!ReturnOrder(r)
  <2>1. PICK o \in Orders!SameKey(r) : answer' = [answer EXCEPT ![r] = o]
    BY <1>2 DEF Orders!ReturnOrder
  <2>2. /\ asked[r] # NoRequest /\ outcome[r] = "none"
        /\ outcome' = [outcome EXCEPT ![r] = "order"] /\ UNCHANGED <<asked, placed>>
    BY <1>2 DEF Orders!ReturnOrder
  <2>3. o \in placed /\ asked[o].key = asked[r].key
    BY <2>1 DEF Orders!SameKey
  <2>4. OrderInv'
    BY <2>1, <2>2, <2>3 DEF OrderInv
  <2>5. Lasting
    BY <2>1, <2>2 DEF Lasting, OrderInv
  <2>6. QED
    BY <2>2, <2>4, <2>5
<1>3. CASE Orders!Refuse(r) \/ Orders!Fail({r})
  <2>1. outcome[r] = "none" /\ UNCHANGED <<asked, answer, placed>>
    BY <1>3 DEF Orders!Refuse, Orders!Fail
  <2>2. /\ outcome' \in [HttpRequests -> {"none", "order", "refused", "unknown"}]
        /\ \A q \in HttpRequests : outcome'[q] = "order" <=> outcome[q] = "order"
    BY <1>3, <2>1 DEF OrderInv, Orders!Refuse, Orders!Fail
  <2>3. OrderInv'
    BY <2>1, <2>2 DEF OrderInv
  <2>4. QED
    BY <2>1, <2>2, <2>3 DEF Lasting
<1>4. QED
  BY <1>1, <1>2, <1>3

LEMMA NothingAsked ==
  ASSUME OrderInv, UNCHANGED orderVars
  PROVE  OrderInv' /\ Lasting /\ asked' = asked
BY DEF OrderInv, Lasting, orderVars
-------------------------------------------------------------------------------
(* Requests *)

(* The step is not one of request r.                                       *)
Untouched(r) ==
  /\ at'[r] = at[r] /\ status'[r] = status[r] /\ call'[r] = call[r]
  /\ limiter'[r] = limiter[r] /\ asked'[r] = asked[r]
  /\ r \in admitted' => r \in admitted

LEMMA UntouchedKeeps ==
  ASSUME OrderInv, NEW r \in HttpRequests, Stage(r), Truthful(r),
         Untouched(r), Lasting, gone \subseteq gone'
  PROVE  Stage(r)' /\ Truthful(r)'
<1>1. Stage(r)'
  BY DEF Stage, Untouched, Received, Tokens
<1>2. ASSUME status[r] = "Created"
      PROVE  outcome'[r] = "order" /\ answer'[r] \in placed' /\ asked'[answer'[r]].key = call'[r].form.key
  <2>1. answer'[r] = answer[r] /\ outcome'[r] = "order" /\ answer[r] \in placed
    BY <1>2 DEF Truthful, Lasting
  <2>2. asked'[answer[r]] = asked[answer[r]]
    BY <2>1 DEF OrderInv, Lasting
  <2>3. QED
    BY <1>2, <2>1, <2>2 DEF Truthful, Lasting, Untouched
<1>3. ASSUME status[r] = "OK", call[r].kind = "get"
      PROVE  call'[r].order \in placed' /\ asked'[call'[r].order].user = call'[r].token
  <2>1. call[r].order \in placed
    BY <1>3 DEF Truthful
  <2>2. asked'[call[r].order] = asked[call[r].order]
    BY <2>1 DEF OrderInv, Lasting
  <2>3. QED
    BY <1>3, <2>1, <2>2 DEF Truthful, Lasting, Untouched
<1>4. Truthful(r)'
  BY <1>2, <1>3 DEF Truthful, Untouched
<1>5. QED
  BY <1>1, <1>4

(* Steps that are of no request.                                           *)
LEMMA QuietKeeps ==
  ASSUME IInv, UNCHANGED <<call, at, status, limiter, admitted>>, gone \subseteq gone',
         OrderInv', Lasting, asked' = asked
  PROVE  RequestInv'
<1>1. ASSUME NEW r \in HttpRequests PROVE Stage(r)' /\ Truthful(r)'
  <2>1. Untouched(r)
    BY DEF Untouched
  <2>2. QED
    BY <2>1, UntouchedKeeps DEF IInv, RequestInv
<1>2. QED
  BY <1>1 DEF RequestInv

(* A request is answered, with an answer that is true.                     *)
LEMMA RespondKeeps ==
  ASSUME IInv, NEW r \in HttpRequests, NEW s \in Statuses, Respond(r, s), at[r] # "idle",
         UNCHANGED <<call, limiter, gone, orderVars>>, admitted' \subseteq admitted \cup {r},
         s \notin {"none", "cut"},
         s = "Created" =>
           outcome[r] = "order" /\ answer[r] \in placed /\ asked[answer[r]].key = call[r].form.key,
         s = "OK" /\ call[r].kind = "get" =>
           call[r].order \in placed /\ asked[call[r].order].user = call[r].token,
         s \in {"BadRequest", "Unauthorized", "TooManyRequests"} => asked[r] = NoRequest
  PROVE  RequestInv'
<1>1. /\ at' = [at EXCEPT ![r] = "done"]
      /\ status' = [status EXCEPT ![r] = IF r \in gone THEN "cut" ELSE s]
      /\ at \in [HttpRequests -> Stages] /\ status \in [HttpRequests -> Statuses]
  BY DEF Respond, IInv, TypeOK
<1>2. Lasting /\ OrderInv /\ UNCHANGED <<asked, outcome, answer, placed>>
  BY NothingAsked DEF IInv, orderVars
<1>3. Stage(r)'
  BY <1>1, <1>2 DEF Stage, IInv, RequestInv, Received, Tokens
<1>4. Truthful(r)'
  BY <1>1, <1>2 DEF Truthful
<1>5. ASSUME NEW q \in HttpRequests, q # r PROVE Stage(q)' /\ Truthful(q)'
  <2>1. Untouched(q)
    BY <1>1, <1>2, <1>5 DEF Untouched
  <2>2. QED
    BY <1>2, <2>1, UntouchedKeeps DEF IInv, RequestInv
<1>6. QED
  BY <1>3, <1>4, <1>5 DEF RequestInv

(* A request that has not asked yet goes on.                               *)
LEMMA GotoKeeps ==
  ASSUME IInv, NEW r \in HttpRequests, NEW stage \in {"limit", "place", "get"},
         Goto(r, stage), at[r] \in {"idle", "limit"},
         UNCHANGED gone, call' = [call EXCEPT ![r] = call'[r]], call'[r] \in Received,
         limiter' = [limiter EXCEPT ![r] = limiter'[r]],
         OrderInv', Lasting, \A q \in HttpRequests : q # r => asked'[q] = asked[q],
         stage = "limit" => asked' = asked /\ UNCHANGED admitted /\ limiter'[r] # 0,
         admitted' \subseteq admitted \cup {r},
         stage = "place" => asked'[r] = [user |-> call'[r].token, key |-> call'[r].form.key]
  PROVE  RequestInv'
<1>1. /\ at' = [at EXCEPT ![r] = stage] /\ status' = status
      /\ at \in [HttpRequests -> Stages] /\ call \in [HttpRequests -> Received \cup {NoRequest}]
      /\ limiter \in [HttpRequests -> 0 .. Len(buckets)]
  BY DEF Goto, IInv, TypeOK, Received, Tokens
<1>2. status[r] = "none" /\ asked[r] = NoRequest /\ r \notin admitted
  BY DEF IInv, RequestInv, Stage, TypeOK
<1>3. Stage(r)'
  BY <1>1, <1>2 DEF Stage, Received, Tokens
<1>4. Truthful(r)'
  BY <1>1, <1>2 DEF Truthful
<1>5. ASSUME NEW q \in HttpRequests, q # r PROVE Stage(q)' /\ Truthful(q)'
  <2>1. Untouched(q)
    BY <1>1, <1>5 DEF Untouched
  <2>2. QED
    BY <2>1, UntouchedKeeps DEF IInv, RequestInv
<1>6. QED
  BY <1>3, <1>4, <1>5 DEF RequestInv
-------------------------------------------------------------------------------
(* The rate limiter *)

RateType ==
  /\ limiter \in [HttpRequests -> 0 .. Len(buckets)]
  /\ visitors \in [Addresses -> 0 .. Len(buckets)]
  /\ buckets \in Seq(Bucket)
  /\ admitted \subseteq HttpRequests
  /\ clock \in Nat /\ drops \in Nat

LEMMA RateTyped == TypeOK => RateType
BY DEF TypeOK, RateType, Bucket

LEMMA RateKept ==
  ASSUME RateType, RateInv, UNCHANGED limitVars
  PROVE  RateType' /\ RateInv'
BY DEF RateType, RateInv, Bucket, Made, Through, limitVars

LEMMA MadeFinite ==
  ASSUME RateType, NEW ip \in Addresses
  PROVE  IsFiniteSet(Made(ip)) /\ Cardinality(Made(ip)) \in Nat
<1>1. DOMAIN buckets = 1 .. Len(buckets) /\ Len(buckets) \in Nat
  BY DEF RateType
<1>2. IsFiniteSet(1 .. Len(buckets))
  BY <1>1, FS_Interval
<1>3. Made(ip) \in SUBSET (1 .. Len(buckets))
  BY <1>1 DEF Made
<1>4. IsFiniteSet(Made(ip))
  BY <1>2, <1>3, FS_Subset
<1>5. QED
  BY <1>4, FS_CardinalityType

LEMMA AppendFact ==
  ASSUME NEW S, NEW seq \in Seq(S), NEW x \in S
  PROVE  /\ Append(seq, x) \in Seq(S) /\ Len(Append(seq, x)) = Len(seq) + 1
         /\ DOMAIN Append(seq, x) = 1 .. Len(seq) + 1
         /\ Append(seq, x)[Len(seq) + 1] = x
         /\ \A i \in DOMAIN seq : Append(seq, x)[i] = seq[i]
OBVIOUS

(* A request takes its bucket, which is a new one only if the address has  *)
(* none in the map.                                                        *)
LEMMA GetVisitorRate ==
  ASSUME RateType, RateInv, NEW r \in HttpRequests, r \notin admitted, NEW ip \in Addresses,
         GetVisitor(r, ip), UNCHANGED <<admitted, clock, drops>>
  PROVE  /\ RateType' /\ RateInv' /\ limiter'[r] # 0
         /\ limiter' = [limiter EXCEPT ![r] = limiter'[r]]
<1>1. Len(buckets) \in Nat /\ DOMAIN buckets = 1 .. Len(buckets)
  BY DEF RateType
<1>2. CASE visitors[ip] # 0
  <2>1. limiter' = [limiter EXCEPT ![r] = visitors[ip]] /\ UNCHANGED <<visitors, buckets>>
    BY <1>2 DEF GetVisitor
  <2>2. RateType'
    BY <2>1 DEF RateType, Bucket
  <2>3. \A b \in DOMAIN buckets : Through(b)' = Through(b)
    BY <2>1 DEF Through, RateType
  <2>4. \A jp \in Addresses : Made(jp)' = Made(jp)
    BY <2>1 DEF Made
  <2>5. RateInv'
    BY <2>1, <2>3, <2>4 DEF RateInv
  <2>6. QED
    BY <1>2, <2>1, <2>2, <2>5 DEF RateType
<1>3. CASE visitors[ip] = 0
  <2> DEFINE new == [ip |-> ip, tokens |-> Burst, born |-> clock]
             n == Len(buckets) + 1
  <2>1. /\ buckets' = Append(buckets, new)
        /\ limiter' = [limiter EXCEPT ![r] = Len(buckets')]
        /\ visitors' = [visitors EXCEPT ![ip] = Len(buckets')]
    BY <1>3 DEF GetVisitor
  <2>2. new \in Bucket
    BY GatewayAssumption DEF Bucket, RateType
  <2>3. /\ buckets' \in Seq(Bucket) /\ Len(buckets') = n /\ DOMAIN buckets' = 1 .. n
        /\ buckets'[n] = new /\ \A b \in DOMAIN buckets : buckets'[b] = buckets[b]
    <3> HIDE DEF new
    <3>1. buckets \in Seq(Bucket) /\ buckets' = Append(buckets, new)
      BY <2>1 DEF RateType
    <3>2. QED
      BY <2>2, <3>1, AppendFact
  <2>4. limiter' = [limiter EXCEPT ![r] = n] /\ visitors' = [visitors EXCEPT ![ip] = n]
    BY <2>1, <2>3
  <2> HIDE DEF new
  <2>5. RateType'
    BY <1>1, <2>3, <2>4 DEF RateType, Bucket
  <2>6. ASSUME NEW jp \in Addresses
        PROVE  Cardinality(Made(jp))' <= IF visitors'[jp] = 0 THEN drops' ELSE 1 + drops'
    <3>1. CASE jp = ip
      <4>1. Made(jp)' = Made(jp) \cup {n}
        BY <1>1, <2>3, <3>1 DEF Made, new
      <4>2. IsFiniteSet(Made(jp)) /\ n \notin Made(jp)
        BY <1>1, MadeFinite DEF Made
      <4>3. Cardinality(Made(jp) \cup {n}) = Cardinality(Made(jp)) + 1
        BY <4>2, FS_AddElement
      <4>4. Cardinality(Made(jp)) <= drops
        BY <1>3, <3>1 DEF RateInv
      <4>5. visitors'[jp] # 0
        BY <1>1, <2>4, <3>1 DEF RateType
      <4>6. Cardinality(Made(jp)) \in Nat /\ drops \in Nat
        BY MadeFinite DEF RateType
      <4>7. QED
        BY <4>1, <4>3, <4>4, <4>5, <4>6
    <3>2. CASE jp # ip
      <4>1. Made(jp)' = Made(jp)
        BY <1>1, <2>3, <3>2 DEF Made, new
      <4>2. visitors'[jp] = visitors[jp]
        BY <2>4, <3>2 DEF RateType
      <4>3. QED
        BY <4>1, <4>2 DEF RateInv
    <3>3. QED
      BY <3>1, <3>2
  <2>7. ASSUME NEW b \in DOMAIN buckets'
        PROVE  /\ IsFiniteSet(Through(b)')
               /\ Cardinality(Through(b)') + buckets'[b].tokens <= Burst + Rate * (clock' - buckets'[b].born)
    <3>1. CASE b = n
      <4>1. Through(b)' = {}
        BY <1>1, <2>4, <3>1 DEF Through, RateType
      <4>2. IsFiniteSet(Through(b)') /\ Cardinality(Through(b)') = 0
        BY <4>1, FS_EmptySet
      <4>3. buckets'[b].tokens = Burst /\ buckets'[b].born = clock'
        BY <2>3, <3>1 DEF new
      <4>4. Burst \in Nat /\ Rate \in Nat /\ clock' \in Nat
        BY GatewayAssumption DEF RateType
      <4>5. Rate * (clock' - clock') = 0
        BY <4>4
      <4>6. QED
        BY <4>2, <4>3, <4>4, <4>5
    <3>2. CASE b \in DOMAIN buckets
      <4>1. Through(b)' = Through(b)
        BY <1>1, <2>4, <3>2 DEF Through, RateType
      <4>2. buckets'[b] = buckets[b]
        BY <2>3, <3>2
      <4>3. QED
        BY <3>2, <4>1, <4>2 DEF RateInv
    <3>3. QED
      BY <1>1, <2>3, <3>1, <3>2
  <2>8. QED
    BY <1>1, <2>4, <2>5, <2>6, <2>7 DEF RateInv, RateType
<1>4. QED
  BY <1>2, <1>3

LEMMA ForgetRate ==
  ASSUME RateType, RateInv, ForgetVisitors, UNCHANGED <<limiter, admitted, buckets, clock>>
  PROVE  RateType' /\ RateInv'
<1>1. visitors' = [ip \in Addresses |-> 0] /\ drops' = drops + 1
  BY DEF ForgetVisitors
<1>2. Len(buckets) \in Nat
  BY DEF RateType
<1>3. RateType'
  BY <1>1, <1>2 DEF RateType, Bucket
<1>4. ASSUME NEW ip \in Addresses
      PROVE  Cardinality(Made(ip))' <= IF visitors'[ip] = 0 THEN drops' ELSE 1 + drops'
  <2>1. Made(ip)' = Made(ip) /\ visitors'[ip] = 0
    BY <1>1 DEF Made
  <2>2. Cardinality(Made(ip)) \in Nat /\ drops \in Nat
    BY MadeFinite DEF RateType
  <2>3. QED
    BY <1>1, <2>1, <2>2 DEF RateInv
<1>5. \A b \in DOMAIN buckets : Through(b)' = Through(b)
  BY DEF Through
<1>6. QED
  BY <1>3, <1>4, <1>5 DEF RateInv

LEMMA RefilledFact ==
  ASSUME RateType, NEW b \in DOMAIN buckets, clock' = clock + 1
  PROVE  /\ Refilled(buckets[b]) \in Bucket'
         /\ Refilled(buckets[b]).ip = buckets[b].ip
         /\ Refilled(buckets[b]).born = buckets[b].born
         /\ Refilled(buckets[b]).tokens <= buckets[b].tokens + Rate
<1>1. buckets[b] \in Bucket
  BY DEF RateType
<1>2. Burst \in Nat /\ Rate \in Nat /\ clock \in Nat
  BY GatewayAssumption DEF RateType
<1>3. /\ Refilled(buckets[b]).ip = buckets[b].ip
      /\ Refilled(buckets[b]).born = buckets[b].born
      /\ Refilled(buckets[b]).tokens =
           IF buckets[b].tokens + Rate > Burst THEN Burst ELSE buckets[b].tokens + Rate
      /\ Refilled(buckets[b]) = [ip |-> Refilled(buckets[b]).ip,
                                 tokens |-> Refilled(buckets[b]).tokens,
                                 born |-> Refilled(buckets[b]).born]
  BY <1>1 DEF Refilled, Bucket
<1>4. buckets[b].ip \in Addresses /\ buckets[b].tokens \in 0 .. Burst /\ buckets[b].born \in 0 .. clock
  BY <1>1 DEF Bucket
<1>5. Refilled(buckets[b]).tokens \in 0 .. Burst /\ buckets[b].born \in 0 .. clock'
  BY <1>2, <1>3, <1>4
<1>6. QED
  BY <1>2, <1>3, <1>4, <1>5 DEF Bucket

LEMMA OneMore ==
  ASSUME NEW a \in Nat, NEW i \in Int
  PROVE  a * (i + 1) = a * i + a
OBVIOUS

LEMMA TickRate ==
  ASSUME RateType, RateInv, Tick
  PROVE  RateType' /\ RateInv'
<1>1. /\ clock' = clock + 1
      /\ buckets' = [b \in DOMAIN buckets |-> Refilled(buckets[b])]
      /\ UNCHANGED <<limiter, admitted, visitors, drops>>
  BY DEF Tick
<1>2. Len(buckets) \in Nat /\ DOMAIN buckets = 1 .. Len(buckets)
  BY DEF RateType
<1>3. \A b \in DOMAIN buckets :
        /\ buckets'[b] \in Bucket'
        /\ buckets'[b].ip = buckets[b].ip
        /\ buckets'[b].born = buckets[b].born
        /\ buckets'[b].tokens <= buckets[b].tokens + Rate
  BY <1>1, RefilledFact
<1>4. buckets' \in Seq(Bucket') /\ Len(buckets') = Len(buckets) /\ DOMAIN buckets' = DOMAIN buckets
  <2>1. buckets' = [b \in 1 .. Len(buckets) |-> buckets'[b]]
    BY <1>1, <1>2
  <2>2. buckets' \in [1 .. Len(buckets) -> Bucket']
    BY <1>2, <1>3, <2>1
  <2>3. QED
    BY <1>2, <2>2
<1>5. RateType'
  BY <1>1, <1>4 DEF RateType
<1>6. \A ip \in Addresses : Made(ip)' = Made(ip)
  BY <1>3, <1>4 DEF Made
<1>7. ASSUME NEW b \in DOMAIN buckets
      PROVE  /\ IsFiniteSet(Through(b)')
             /\ Cardinality(Through(b)') + buckets'[b].tokens <= Burst + Rate * (clock' - buckets'[b].born)
  <2>1. Through(b)' = Through(b)
    BY <1>1 DEF Through
  <2>2. /\ Burst \in Nat /\ Rate \in Nat /\ clock \in Nat
        /\ buckets[b].born \in 0 .. clock /\ buckets[b].tokens \in 0 .. Burst
        /\ buckets'[b].tokens \in 0 .. Burst
    <3>1. buckets[b] \in Bucket /\ buckets'[b] \in Bucket'
      BY <1>3 DEF RateType
    <3>2. QED
      BY <3>1, GatewayAssumption DEF RateType, Bucket
  <2>3. Cardinality(Through(b)) \in Nat
    BY FS_CardinalityType DEF RateInv
  <2>4. Rate * (clock' - buckets[b].born) = Rate * (clock - buckets[b].born) + Rate
    <3>1. clock - buckets[b].born \in Int /\ clock' - buckets[b].born = (clock - buckets[b].born) + 1
      BY <1>1, <2>2
    <3>2. QED
      BY <2>2, <3>1, OneMore
  <2>5. Rate * (clock - buckets[b].born) \in Int
    BY <2>2
  <2>6. Cardinality(Through(b)) + buckets[b].tokens <= Burst + Rate * (clock - buckets[b].born)
    BY DEF RateInv
  <2>7. IsFiniteSet(Through(b)')
    BY <2>1 DEF RateInv
  <2> DEFINE flow == Rate * (clock - buckets[b].born)
             flowed == Rate * (clock' - buckets[b].born)
             went == Cardinality(Through(b))
  <2>8. went + buckets'[b].tokens <= Burst + flowed
    <3>1. flowed = flow + Rate /\ flow \in Int /\ went \in Nat /\ went + buckets[b].tokens <= Burst + flow
      BY <2>3, <2>4, <2>5, <2>6
    <3>2. buckets'[b].tokens <= buckets[b].tokens + Rate
      BY <1>3
    <3> HIDE DEF flow, flowed, went
    <3>3. QED
      BY <2>2, <3>1, <3>2
  <2>9. buckets'[b].born = buckets[b].born
    BY <1>3
  <2>10. QED
    BY <2>1, <2>7, <2>8, <2>9
<1>8. QED
  BY <1>1, <1>4, <1>5, <1>6, <1>7 DEF RateInv

(* A request that takes a token is counted in the bucket it was taken from.*)
LEMMA AllowRate ==
  ASSUME RateType, RateInv, NEW r \in HttpRequests, Allow(r), limiter[r] # 0
  PROVE  RateType' /\ RateInv'
<1> DEFINE b == limiter[r]
<1>1. /\ buckets[b].tokens > 0
      /\ buckets' = [buckets EXCEPT ![b].tokens = buckets[b].tokens - 1]
      /\ admitted' = admitted \cup {r}
      /\ UNCHANGED <<limiter, visitors, clock, drops>>
  BY DEF Allow
<1>2. Len(buckets) \in Nat /\ DOMAIN buckets = 1 .. Len(buckets) /\ b \in DOMAIN buckets
  BY DEF RateType
<1>3. buckets[b] \in Bucket
  BY <1>2 DEF RateType
<1>4. /\ buckets' = [buckets EXCEPT ![b] = [buckets[b] EXCEPT !.tokens = buckets[b].tokens - 1]]
      /\ [buckets[b] EXCEPT !.tokens = buckets[b].tokens - 1] \in Bucket
  <2>1. buckets' = [buckets EXCEPT ![b] = [buckets[b] EXCEPT !.tokens = buckets[b].tokens - 1]]
    BY <1>1, <1>2
  <2>2. Burst \in Nat /\ buckets[b].tokens - 1 \in 0 .. Burst
    BY <1>1, <1>3, GatewayAssumption DEF Bucket
  <2>3. [buckets[b] EXCEPT !.tokens = buckets[b].tokens - 1] \in Bucket
    BY <1>3, <2>2 DEF Bucket
  <2>4. QED
    BY <2>1, <2>3
<1>5. /\ buckets' \in Seq(Bucket) /\ Len(buckets') = Len(buckets) /\ DOMAIN buckets' = DOMAIN buckets
      /\ \A c \in DOMAIN buckets :
           /\ buckets'[c].ip = buckets[c].ip /\ buckets'[c].born = buckets[c].born
           /\ buckets'[c].tokens = IF c = b THEN buckets[b].tokens - 1 ELSE buckets[c].tokens
  <2> DEFINE less == [buckets[b] EXCEPT !.tokens = buckets[b].tokens - 1]
  <2>1. less.ip = buckets[b].ip /\ less.born = buckets[b].born /\ less.tokens = buckets[b].tokens - 1
    BY <1>3 DEF Bucket
  <2>2. less \in Bucket /\ buckets' = [buckets EXCEPT ![b] = less] /\ buckets \in Seq(Bucket)
    BY <1>4 DEF RateType
  <2> HIDE DEF less
  <2>3. buckets' \in Seq(Bucket) /\ Len(buckets') = Len(buckets) /\ DOMAIN buckets' = DOMAIN buckets
    BY <1>2, <2>2
  <2>4. \A c \in DOMAIN buckets : buckets'[c] = IF c = b THEN less ELSE buckets[c]
    BY <1>2, <2>2
  <2>5. QED
    BY <2>1, <2>3, <2>4
<1>6. RateType'
  BY <1>1, <1>5 DEF RateType, Bucket
<1>7. \A ip \in Addresses : Made(ip)' = Made(ip)
  BY <1>5 DEF Made
<1>8. ASSUME NEW c \in DOMAIN buckets
      PROVE  /\ IsFiniteSet(Through(c)')
             /\ Cardinality(Through(c)') + buckets'[c].tokens <= Burst + Rate * (clock' - buckets'[c].born)
  <2>1. IsFiniteSet(Through(c)) /\ Cardinality(Through(c)) \in Nat
    BY FS_CardinalityType DEF RateInv
  <2>2. CASE c = b
    <3>1. Through(c)' = Through(c) \cup {r}
      BY <1>1, <2>2 DEF Through
    <3>2. IsFiniteSet(Through(c)') /\ Cardinality(Through(c)') <= Cardinality(Through(c)) + 1
          /\ Cardinality(Through(c)') \in Nat
      <4>1. /\ IsFiniteSet(Through(c) \cup {r})
            /\ Cardinality(Through(c) \cup {r}) =
                 IF r \in Through(c) THEN Cardinality(Through(c)) ELSE Cardinality(Through(c)) + 1
        BY <2>1, FS_AddElement
      <4>2. QED
        BY <2>1, <3>1, <4>1
    <3>3. Cardinality(Through(c)) + buckets[c].tokens <= Burst + Rate * (clock - buckets[c].born)
      BY DEF RateInv
    <3>4. buckets[c].tokens \in Nat /\ buckets'[c].tokens = buckets[c].tokens - 1
      BY <1>3, <1>5, <2>2 DEF Bucket
    <3>5. clock' - buckets'[c].born = clock - buckets[c].born
      BY <1>1, <1>5
    <3>6. Burst + Rate * (clock - buckets[c].born) \in Int
      BY <1>3, <2>2, GatewayAssumption DEF Bucket, RateType
    <3> DEFINE most == Burst + Rate * (clock - buckets[c].born)
    <3> HIDE DEF most
    <3>7. Cardinality(Through(c)') + buckets'[c].tokens <= most
      BY <2>1, <3>2, <3>3, <3>4, <3>6 DEF most
    <3>8. QED
      BY <3>2, <3>5, <3>7 DEF most
  <2>3. CASE c # b
    <3>1. Through(c)' = Through(c)
      BY <1>1, <2>3 DEF Through
    <3>2. buckets'[c].tokens = buckets[c].tokens /\ buckets'[c].born = buckets[c].born
      BY <1>5, <2>3
    <3>3. QED
      BY <1>1, <3>1, <3>2 DEF RateInv
  <2>4. QED
    BY <2>2, <2>3
<1>9. QED
  BY <1>1, <1>5, <1>6, <1>7, <1>8 DEF RateInv
-------------------------------------------------------------------------------
(* The steps *)

HostType ==
  /\ server \in {"up", "draining", "down"} /\ dialled \in BOOLEAN
  /\ call \in [HttpRequests -> Received \cup {NoRequest}]
  /\ at \in [HttpRequests -> Stages]
  /\ status \in [HttpRequests -> Statuses]
  /\ gone \subseteq HttpRequests /\ events \in 0 .. MaxEvents
  /\ expired \subseteq HttpRequests \cup Sessions

LEMMA TypeParts == TypeOK <=> HostType /\ RateType
BY DEF TypeOK, HostType, RateType, Received, Tokens, Bucket

LEMMA PartsNext ==
  ASSUME HostType', RateType', OrderInv', RequestInv', RateInv'
  PROVE  IInv'
BY DEF IInv, TypeOK, HostType, RateType, Received, Tokens, Bucket

LEMMA ReceivedFact ==
  ASSUME NEW m \in Received
  PROVE  /\ m.form \in Form /\ m.token \in Tokens
         /\ [user |-> m.token, key |-> m.form.key] \in Question
<1>1. m.form \in UNION {Forms[r] : r \in HttpRequests} /\ m.token \in Tokens
  BY DEF Received
<1>2. m.form \in Form
  BY <1>1, GatewayAssumption
<1>3. QED
  BY <1>1, <1>2 DEF Form, Question

LEMMA InitIInv == Init => IInv
<1> SUFFICES ASSUME Init PROVE IInv
  OBVIOUS
<1>1. HostType
  BY GatewayAssumption DEF Init, HostType, Stages, Statuses
<1>2. RateType
  <2>1. buckets = <<>> /\ buckets \in Seq(Bucket) /\ Len(buckets) = 0
    BY DEF Init
  <2>2. QED
    BY <2>1 DEF Init, RateType
<1>3. OrderInv
  BY DEF Init, OrderInv, Orders!PInit
<1>4. RequestInv
  BY DEF Init, RequestInv, Stage, Truthful, Orders!PInit
<1>5. RateInv
  <2>1. \A ip \in Addresses : Made(ip) = {}
    BY DEF Init, Made
  <2>2. DOMAIN buckets = {} /\ drops = 0
    BY DEF Init
  <2>3. \A ip \in Addresses : Cardinality(Made(ip)) = 0 /\ visitors[ip] = 0
    BY <2>1, FS_EmptySet DEF Init
  <2>4. QED
    BY <2>2, <2>3 DEF RateInv
<1>6. QED
  BY <1>1, <1>2, <1>3, <1>4, <1>5, TypeParts DEF IInv

LEMMA HappensFact ==
  ASSUME HostType, Happens
  PROVE  events' \in 0 .. MaxEvents
BY GatewayAssumption DEF HostType, Happens

LEMMA ArriveIInv ==
  ASSUME IInv, NEW r \in HttpRequests, Arrive(r)
  PROVE  IInv'
<1>1. PICK form \in Forms[r] :
        \E token \in IF form.bearer THEN HeldTokens ELSE {NoToken} :
        \E order \in IF form.kind = "get" THEN HeldOrders \cup {NoOrder} ELSE {NoOrder} :
          /\ call' = [call EXCEPT ![r] = [form |-> form, kind |-> form.kind,
                                          token |-> token, order |-> order]]
          /\ GetVisitor(r, form.ip)
  BY DEF Arrive
<1>2. PICK token \in IF form.bearer THEN HeldTokens ELSE {NoToken} :
        \E order \in IF form.kind = "get" THEN HeldOrders \cup {NoOrder} ELSE {NoOrder} :
          /\ call' = [call EXCEPT ![r] = [form |-> form, kind |-> form.kind,
                                          token |-> token, order |-> order]]
          /\ GetVisitor(r, form.ip)
  BY <1>1
<1>3. PICK order \in IF form.kind = "get" THEN HeldOrders \cup {NoOrder} ELSE {NoOrder} :
          /\ call' = [call EXCEPT ![r] = [form |-> form, kind |-> form.kind,
                                          token |-> token, order |-> order]]
          /\ GetVisitor(r, form.ip)
  BY <1>2
<1>4. /\ at[r] = "idle" /\ Goto(r, "limit")
      /\ UNCHANGED <<events, gone, admitted, clock, drops, hostVars, orderVars>>
  BY DEF Arrive
<1>5. HostType /\ RateType /\ RateInv /\ OrderInv /\ Stage(r)
  BY TypeParts DEF IInv, RequestInv
<1> DEFINE message == [form |-> form, kind |-> form.kind, token |-> token, order |-> order]
<1>6. message \in Received
  <2>1. form \in Form /\ form \in UNION {Forms[q] : q \in HttpRequests}
    BY GatewayAssumption
  <2>2. token \in Tokens
    BY DEF Tokens, HeldTokens
  <2>3. order \in HttpRequests \cup {NoOrder}
    BY DEF HeldOrders
  <2>4. QED
    BY <2>1, <2>2, <2>3 DEF Received, Form
<1>7. call' = [call EXCEPT ![r] = message] /\ call'[r] = message
  BY <1>3, <1>5 DEF HostType
<1>8. form.ip \in Addresses
  BY GatewayAssumption DEF Form
<1>9. /\ RateType' /\ RateInv' /\ limiter'[r] # 0
      /\ limiter' = [limiter EXCEPT ![r] = limiter'[r]]
  BY <1>3, <1>4, <1>5, <1>8, GetVisitorRate DEF Stage
<1> HIDE DEF message
<1>10. HostType'
  BY <1>4, <1>5, <1>6, <1>7 DEF HostType, Goto, Stages, hostVars
<1>11. OrderInv' /\ Lasting /\ asked' = asked
  BY <1>4, <1>5, NothingAsked
<1>12. RequestInv'
  BY <1>4, <1>6, <1>7, <1>9, <1>11, GotoKeeps
<1>13. QED
  BY <1>9, <1>10, <1>11, <1>12, PartsNext

(* A step that only answers.                                               *)
LEMMA RespondHost ==
  ASSUME HostType, NEW r \in HttpRequests, NEW s \in Statuses, Respond(r, s),
         UNCHANGED <<events, call, gone, hostVars>>
  PROVE  HostType'
BY DEF HostType, Respond, Stages, Statuses, hostVars

LEMMA AnsweredIInv ==
  ASSUME IInv, NEW r \in HttpRequests,
         TooMany(r) \/ PlaceOrderReturns(r) \/ ConnectionBreaks(r) \/ GetOrderReturns(r)
  PROVE  IInv'
<1>1. /\ HostType /\ RateType /\ RateInv /\ OrderInv /\ Stage(r)
      /\ UNCHANGED <<events, call, gone, limitVars, hostVars, orderVars>>
  BY TypeParts DEF IInv, RequestInv, TooMany, PlaceOrderReturns, ConnectionBreaks,
     GetOrderReturns
<1>2. UNCHANGED <<limiter, admitted>>
  BY <1>1 DEF limitVars
<1>3. RateType' /\ RateInv' /\ OrderInv'
  BY <1>1, RateKept, NothingAsked
<1>4. HostType' /\ RequestInv'
  <2>1. CASE TooMany(r)
    <3>1. Respond(r, "TooManyRequests") /\ at[r] = "limit"
      BY <2>1 DEF TooMany
    <3>2. asked[r] = NoRequest
      BY <1>1, <3>1 DEF Stage
    <3>3. QED
      BY <1>1, <1>2, <3>1, <3>2, RespondHost, RespondKeeps DEF Statuses
  <2>2. CASE PlaceOrderReturns(r) \/ ConnectionBreaks(r)
    <3>1. at[r] = "place"
      BY <2>2 DEF PlaceOrderReturns, ConnectionBreaks
    <3>2. asked[r] = [user |-> call[r].token, key |-> call[r].form.key]
      BY <1>1, <3>1 DEF Stage
    <3>3. CASE outcome[r] = "order" /\ Respond(r, "Created")
      <4>1. answer[r] \in placed /\ asked[answer[r]].key = call[r].form.key
        BY <1>1, <3>2, <3>3 DEF OrderInv
      <4>2. QED
        BY <1>1, <1>2, <3>1, <3>3, <4>1, RespondHost, RespondKeeps DEF Statuses
    <3>4. CASE Respond(r, "InternalServerError")
      BY <1>1, <1>2, <3>1, <3>4, RespondHost, RespondKeeps DEF Statuses
    <3>5. QED
      BY <2>2, <3>3, <3>4 DEF PlaceOrderReturns, ConnectionBreaks
  <2>3. CASE GetOrderReturns(r)
    <3>1. at[r] = "get"
      BY <2>3 DEF GetOrderReturns
    <3>2. CASE Orders!Visible(call[r].order, call[r].token) /\ Respond(r, "OK")
      <4>1. call[r].order \in placed /\ asked[call[r].order].user = call[r].token
        BY <3>2 DEF Orders!Visible
      <4>2. QED
        BY <1>1, <1>2, <3>1, <3>2, <4>1, RespondHost, RespondKeeps DEF Statuses
    <3>3. CASE Respond(r, "NotFound")
      BY <1>1, <1>2, <3>1, <3>3, RespondHost, RespondKeeps DEF Statuses
    <3>4. QED
      BY <2>3, <3>2, <3>3 DEF GetOrderReturns
  <2>4. QED
    BY <2>1, <2>2, <2>3
<1>5. QED
  BY <1>3, <1>4, PartsNext

LEMMA AllowIInv ==
  ASSUME IInv, NEW r \in HttpRequests, Allow(r)
  PROVE  IInv'
<1>1. /\ HostType /\ RateType /\ RateInv /\ OrderInv /\ Stage(r)
      /\ at[r] = "limit" /\ admitted' = admitted \cup {r}
      /\ UNCHANGED <<events, call, gone, limiter, visitors, clock, drops, hostVars>>
  BY TypeParts DEF IInv, RequestInv, Allow
<1>2. asked[r] = NoRequest /\ call[r] \in Received /\ limiter[r] # 0
  BY <1>1 DEF Stage
<1>3. RateType' /\ RateInv'
  BY <1>1, <1>2, AllowRate
<1>4. ASSUME NEW s \in {"OK", "Registered", "BadRequest", "Unauthorized", "InternalServerError"},
             Respond(r, s),
             s = "OK" => call[r].kind # "get", UNCHANGED orderVars
      PROVE  HostType' /\ RequestInv' /\ OrderInv'
  <2>1. s \in Statuses
    BY DEF Statuses
  <2>2. HostType' /\ OrderInv'
    BY <1>1, <1>4, <2>1, RespondHost, NothingAsked
  <2>3. RequestInv'
    BY <1>1, <1>2, <1>4, <2>1, RespondKeeps
  <2>4. QED
    BY <2>2, <2>3
<1>5. ASSUME NEW stage \in {"place", "get"}, Goto(r, stage),
             OrderInv', Lasting, \A q \in HttpRequests : q # r => asked'[q] = asked[q],
             stage = "place" => asked'[r] = [user |-> call[r].token, key |-> call[r].form.key]
      PROVE  HostType' /\ RequestInv'
  <2>1. HostType'
    BY <1>1, <1>5 DEF HostType, Goto, Stages, hostVars
  <2>2. call' = [call EXCEPT ![r] = call'[r]] /\ limiter' = [limiter EXCEPT ![r] = limiter'[r]]
        /\ call'[r] = call[r]
    BY <1>1 DEF HostType, RateType
  <2>3. RequestInv'
    BY <1>1, <1>2, <1>5, <2>2, GotoKeeps
  <2>4. QED
    BY <2>1, <2>3
<1>6. HostType' /\ RequestInv' /\ OrderInv'
  <2>1. CASE Public(r)
    <3>1. PICK s \in {"OK", "Registered", "BadRequest"} : Respond(r, s)
      BY <2>1 DEF Public
    <3>2. call[r].kind # "get" /\ UNCHANGED orderVars
      BY <2>1 DEF Public
    <3>3. QED
      BY <1>4, <3>1, <3>2
  <2>2. CASE RequireAuth(r)
    BY <1>4, <2>2 DEF RequireAuth
  <2>3. CASE PlaceOrder(r)
    <3>1. CASE \E s \in {"BadRequest", "InternalServerError"} : Respond(r, s) /\ UNCHANGED orderVars
      BY <1>4, <3>1
    <3>2. CASE SendOrder(r) /\ Goto(r, "place")
      <4> DEFINE question == [user |-> call[r].token, key |-> call[r].form.key]
      <4>1. question \in Question
        BY <1>2, ReceivedFact
      <4>2. Orders!Ask(r, question)
        BY <3>2 DEF SendOrder
      <4> HIDE DEF question
      <4>3. OrderInv' /\ Lasting /\ asked' = [asked EXCEPT ![r] = question]
        BY <1>1, <4>1, <4>2, AskKeeps
      <4>4. asked'[r] = question /\ \A q \in HttpRequests : q # r => asked'[q] = asked[q]
        BY <1>1, <4>3 DEF OrderInv
      <4>5. QED
        BY <1>5, <3>2, <4>3, <4>4 DEF question
    <3>3. QED
      BY <2>3, <3>1, <3>2 DEF PlaceOrder, Recovery
  <2>4. CASE GetOrder(r)
    <3>1. UNCHANGED orderVars
      BY <2>4 DEF GetOrder
    <3>2. OrderInv' /\ Lasting /\ asked' = asked
      BY <1>1, <3>1, NothingAsked
    <3>3. QED
      BY <1>4, <1>5, <2>4, <3>1, <3>2 DEF GetOrder, Recovery
  <2>5. QED
    BY <2>1, <2>2, <2>3, <2>4 DEF Allow
<1>7. QED
  BY <1>3, <1>6, PartsNext

(* The order service works, a client leaves, a token expires, a bucket is  *)
(* refilled, the map is emptied, a process starts or is told to stop.      *)
LEMMA AroundIInv ==
  ASSUME IInv,
         \/ \E r \in HttpRequests : Leave(r) \/ OrderService(r) \/ OrderServiceFails(r)
         \/ \E token \in HttpRequests \cup Sessions : Expire(token)
         \/ Tick \/ Cleanup \/ Shutdown \/ Restart
  PROVE  IInv'
<1>1. HostType /\ RateType /\ RateInv /\ OrderInv /\ RequestInv
  BY TypeParts DEF IInv
<1>2. UNCHANGED <<call, at, status, limiter, admitted>> /\ gone \subseteq gone'
  BY DEF Leave, OrderService, OrderServiceFails, Expire, Tick, Cleanup, Shutdown, Restart, limitVars
<1>3. HostType'
  <2>1. events' \in 0 .. MaxEvents
    BY <1>1, HappensFact DEF HostType, Leave, OrderService, OrderServiceFails, Expire, Tick,
       Cleanup, Shutdown, Restart
  <2>2. gone' \subseteq HttpRequests /\ expired' \subseteq HttpRequests \cup Sessions
    BY <1>1 DEF HostType, Leave, OrderService, OrderServiceFails, Expire, Tick,
       Cleanup, Shutdown, Restart, hostVars, InFlight
  <2>3. server' \in {"up", "draining", "down"} /\ dialled' \in BOOLEAN
    BY <1>1 DEF HostType, Leave, OrderService, OrderServiceFails, Expire, Tick,
       Cleanup, Shutdown, Restart, hostVars
  <2>4. QED
    BY <1>1, <1>2, <2>1, <2>2, <2>3 DEF HostType
<1>4. RateType' /\ RateInv'
  <2>1. CASE Tick
    BY <1>1, <2>1, TickRate
  <2>2. CASE Cleanup \/ Restart
    BY <1>1, <2>2, ForgetRate DEF Cleanup, Restart
  <2>3. CASE UNCHANGED limitVars
    BY <1>1, <2>3, RateKept
  <2>4. QED
    BY <2>1, <2>2, <2>3 DEF Leave, OrderService, OrderServiceFails, Expire, Shutdown
<1>5. OrderInv' /\ Lasting /\ asked' = asked
  <2>1. CASE UNCHANGED orderVars
    BY <1>1, <2>1, NothingAsked
  <2>2. ASSUME NEW r \in HttpRequests, OrderService(r) \/ OrderServiceFails(r)
        PROVE  OrderInv' /\ Lasting /\ asked' = asked
    BY <1>1, <2>2, ServiceKeeps DEF OrderService, OrderServiceFails
  <2>3. QED
    BY <2>1, <2>2 DEF Leave, Expire, Tick, Cleanup, Shutdown, Restart
<1>6. RequestInv'
  BY <1>2, <1>5, QuietKeeps
<1>7. QED
  BY <1>3, <1>4, <1>5, <1>6, PartsNext

(* The process ends: those it leaves unanswered get nothing.               *)
LEMMA EndIInv ==
  ASSUME IInv, Exit \/ Abandon
  PROVE  IInv'
<1>1. HostType /\ RateType /\ RateInv /\ OrderInv /\ RequestInv
  BY TypeParts DEF IInv
<1>2. PICK C \in SUBSET InFlight : EndProcess(C) /\ C \subseteq gone' /\ gone \subseteq gone'
  <2>1. CASE Exit
    BY <2>1 DEF Exit
  <2>2. CASE Abandon
    BY <2>2 DEF Abandon
  <2>3. QED
    BY <2>1, <2>2
<1>3. /\ at' = [r \in HttpRequests |-> IF r \in C THEN "done" ELSE at[r]]
      /\ status' = [r \in HttpRequests |-> IF r \in C THEN "cut" ELSE status[r]]
      /\ server' = "down" /\ UNCHANGED <<call, limitVars, dialled, expired, orderVars>>
  BY <1>2 DEF EndProcess
<1>4. HostType'
  <2>1. gone' \subseteq HttpRequests
    BY <1>1 DEF Exit, Abandon, InFlight, HostType
  <2>2. events' \in 0 .. MaxEvents
    BY <1>1, HappensFact DEF Exit, Abandon, HostType
  <2>3. at' \in [HttpRequests -> Stages] /\ status' \in [HttpRequests -> Statuses]
    BY <1>1, <1>3 DEF HostType, Stages, Statuses
  <2>4. QED
    BY <1>1, <1>3, <2>1, <2>2, <2>3 DEF HostType
<1>5. RateType' /\ RateInv' /\ OrderInv' /\ Lasting /\ asked' = asked
  BY <1>1, <1>3, RateKept, NothingAsked
<1>6. ASSUME NEW r \in HttpRequests PROVE Stage(r)' /\ Truthful(r)'
  <2>1. CASE r \in C
    <3>1. at'[r] = "done" /\ status'[r] = "cut" /\ r \in gone'
      BY <1>2, <1>3, <2>1
    <3>2. call[r] \in Received
      BY <1>1, <1>2, <2>1 DEF InFlight, RequestInv, Stage
    <3>3. QED
      BY <1>3, <3>1, <3>2 DEF Stage, Truthful, Received, Tokens
  <2>2. CASE r \notin C
    <3>1. Untouched(r)
      BY <1>3, <2>2 DEF Untouched, limitVars, orderVars
    <3>2. QED
      BY <1>1, <1>2, <1>5, <3>1, UntouchedKeeps DEF RequestInv
  <2>3. QED
    BY <2>1, <2>2
<1>7. QED
  BY <1>4, <1>5, <1>6, PartsNext DEF RequestInv

LEMMA StepIInv == IInv /\ [Next]_vars => IInv'
<1> SUFFICES ASSUME IInv, [Next]_vars PROVE IInv'
  OBVIOUS
<1>1. CASE UNCHANGED vars
  <2>1. /\ HostType /\ RateType /\ RateInv /\ OrderInv
        /\ UNCHANGED <<call, at, status, gone, events, limitVars, hostVars, orderVars>>
    BY <1>1, TypeParts DEF IInv, vars
  <2>2. HostType'
    BY <2>1 DEF HostType, hostVars
  <2>3. RateType' /\ RateInv' /\ OrderInv' /\ Lasting /\ asked' = asked
    BY <2>1, RateKept, NothingAsked
  <2>4. UNCHANGED <<limiter, admitted>> /\ gone \subseteq gone'
    BY <2>1 DEF limitVars
  <2>5. RequestInv'
    BY <2>1, <2>3, <2>4, QuietKeeps
  <2>6. QED
    BY <2>2, <2>3, <2>5, PartsNext
<1>2. CASE Quiet
  BY <1>1, <1>2 DEF Quiet
<1>3. ASSUME NEW r \in HttpRequests, Arrive(r) \/ Handler(r) \/ ConnectionBreaks(r) PROVE IInv'
  BY <1>3, ArriveIInv, AllowIInv, AnsweredIInv DEF Handler
<1>4. QED
  BY <1>1, <1>2, <1>3, AroundIInv, EndIInv DEF Next

LEMMA Invariance == Spec => []IInv
BY InitIInv, StepIInv, PTL DEF Spec
-------------------------------------------------------------------------------
(* The variables of the gateway keep their types.                          *)
THEOREM TypeCorrect == Spec => []TypeOK
<1>1. IInv => TypeOK
  BY DEF IInv
<1>2. QED
  BY <1>1, Invariance, PTL

(* What a status says is so, whatever clients, tokens, the order service   *)
(* and a shutdown do while the request is under way.                       *)
THEOREM TruthfulAnswers == Spec => []AnswersTruthful
<1>1. IInv => AnswersTruthful
  BY DEF IInv, RequestInv, Truthful, AnswersTruthful
<1>2. QED
  BY <1>1, Invariance, PTL

(* Any number of retries with one key make one order and are told of it.   *)
THEOREM RetriesMakeOneOrder == Spec => []RetriesAgree
<1>1. IInv => RetriesAgree
  <2> SUFFICES ASSUME IInv, NEW r \in HttpRequests, NEW q \in HttpRequests
               PROVE  /\ r \in placed /\ q \in placed /\ asked[r].key = asked[q].key => r = q
                      /\ /\ status[r] = "Created" /\ status[q] = "Created"
                         /\ call[r].form.key = call[q].form.key
                         => answer[r] = answer[q]
    BY DEF RetriesAgree
  <2>1. Truthful(r) /\ Truthful(q) /\ OrderInv
    BY DEF IInv, RequestInv
  <2>2. QED
    BY <2>1 DEF Truthful, OrderInv
<1>2. QED
  BY <1>1, Invariance, PTL

(* An address gets no more buckets than the map was emptied times, and one *)
(* more; a bucket lets pass no more than its burst and its refills, also   *)
(* when requests still use it after it was dropped from the map.           *)
THEOREM BoundedRate == Spec => []RateBounded
<1>1. IInv => RateBounded
  <2> SUFFICES ASSUME IInv PROVE RateBounded
    OBVIOUS
  <2>1. RateType /\ RateInv
    BY TypeParts DEF IInv
  <2>2. ASSUME NEW ip \in Addresses PROVE Cardinality(Made(ip)) <= 1 + drops
    <3>1. Cardinality(Made(ip)) \in Nat /\ drops \in Nat
      BY <2>1, MadeFinite DEF RateType
    <3>2. QED
      BY <2>1, <3>1 DEF RateInv
  <2>3. ASSUME NEW b \in DOMAIN buckets
        PROVE  Cardinality(Through(b)) <= Burst + Rate * (clock - buckets[b].born)
    <3>1. buckets[b] \in Bucket
      BY <2>1 DEF RateType
    <3>2. buckets[b].tokens \in Nat /\ clock - buckets[b].born \in Int
      BY <2>1, <3>1, GatewayAssumption DEF Bucket, RateType
    <3>3. IsFiniteSet(Through(b)) /\ Cardinality(Through(b)) \in Nat
      BY <2>1, FS_CardinalityType DEF RateInv
    <3> DEFINE most == Burst + Rate * (clock - buckets[b].born)
    <3>4. most \in Int
      BY <3>2, GatewayAssumption
    <3>5. Cardinality(Through(b)) + buckets[b].tokens <= most
      BY <2>1 DEF RateInv
    <3> HIDE DEF most
    <3>6. Cardinality(Through(b)) <= most
      BY <3>2, <3>3, <3>4, <3>5
    <3>7. QED
      BY <3>6 DEF most
  <2>4. QED
    BY <2>2, <2>3 DEF RateBounded, Made, Through
<1>2. QED
  BY <1>1, Invariance, PTL
================================================================================
