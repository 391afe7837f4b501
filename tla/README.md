# GoTradeX: a verification project in TLA+

GoTradeX is a small exchange: Go services around PostgreSQL and Kafka, and a
Next.js client. This directory holds TLA+ models of the parts that carry its
logic, TLC configurations that check them on small instances, and proofs that
TLAPS checks for every instance. Paths below are relative to the repository:
the Go code is under `src/server/`, the client under `src/frontend/`, the
documents under `docs/`.

Contents: 1 the system, 2 the modules and how they correspond to the code,
3 the runs, 4 fairness, 5 the proofs, 6 where code and documents disagree,
7 what is not modelled, 8 the plan.

## 1. The system

An order travels through it like this:

    browser --HTTP--> API gateway --gRPC--> order service --SQL--> PostgreSQL
                                   \-gRPC-> user service --SQL--/  (users, balances,
                                                                    orders, outbox)
    outbox relay (a goroutine of the order service) --polls outbox--> Kafka "orders"
    Kafka "orders" --> matching engine (book in memory) --> Kafka "trades"
    Kafka "trades" --> market service (hub) --websocket--> browser

| Component | State it keeps | Operations |
|---|---|---|
| Order service `internal/order/{service,repository,handler}.go` | rows of `orders`, `outbox`, `balances`; a pool of connections | PlaceOrder, CancelOrder, GetOrder (reads only) |
| Outbox relay `internal/order/relay.go` | status of the outbox rows; a fetched batch; a context | poll, publish, mark PROCESSED or FAILED, stop |
| Order book `internal/matching/{orderbook,heap}.go` | for each symbol a heap of bids and one of asks | Match, Insert |
| Matching engine `internal/matching/engine.go` | the book; its position in the topic; the committed offset | handleOrder: parse, validate, match, insert, publish trades |
| Kafka wrapper `pkg/kafka/` | none | Publish with a LeastBytes writer; Subscribe with background commits |
| Market service `internal/market/`, `cmd/market-service` | the hub's map and channel; per connection two goroutines and a buffer; a connection counter | admit, register, unregister, broadcast, drop a slow client, shut down |
| User service `internal/user/` | rows of `users` and `balances` | Register, DeductBalance, CreditBalance; Login and GetBalance read only |
| API gateway `cmd/api-gateway` | the limiters' map and a token bucket per address; the requests in flight; whether it is serving, draining or down | limit, check the token, place an order, get an order, the public routes; drop the limiters every five minutes; shut down, restart |
| Web client, market socket `lib/websocket.ts` | a WebSocket, a timer, a set of handlers | connect, reconnect with backoff, disconnect |
| Web client, the rest | a stored token | pages and forms |

How they interact. The order service and the user service never call one
another for balances: both write the `balances` table, each in its own way, and
meet only in its row locks. The order service and the relay share the `outbox`
table and no memory. The relay and the engine share the orders topic; nothing
flows back, so an order's status is not changed by a trade anywhere in this
code. The hub and the connections' goroutines share channels and the counter.
The gateway shares nothing with the order service but the calls it makes: a call
it no longer waits for goes on there.

What is hard, and what makes each part correct:

- *Order service.* Calls interleave statement by statement; every statement may
  fail, a COMMIT may take effect although the caller sees an error, the process
  may die. Correct when no balance is overdrawn or overwritten, one key names
  one order, order and event come into being together, and a cancelled order
  has been refunded.
- *Relay.* Publish and update are two writes to two systems; shutdown cancels
  the context in the middle of a batch and nobody waits for the goroutine.
  Correct when nothing is marked PROCESSED that is not in the topic, duplicates
  have a cause, order is kept where Kafka can keep it, and no row waits forever.
- *Book.* A loop that changes the heap it reads. Correct when trades respect
  both limits, makers are consumed exactly, price decides and among equal prices
  nothing but a pop puts a later order first, and no two resting orders cross
  without a reason.
- *Engine.* The consumer commits offsets on a timer, independently of the
  handler, and the book is in memory. Correct when messages are handled once and
  in order while nothing fails, and what a failure costs is bounded.
- *Pipeline.* The relay may write an event twice and the engine does not look at
  ids, so every copy is an order. Correct when nothing trades that was not
  committed, what an order trades can be accounted for, and an order reported as
  published reaches the engine.
- *Gateway.* Clients leave, tokens expire, limiters are dropped and the process
  is told to stop while requests are under way. Correct when a status says what
  is so, retries with one key mean one order, the rate is bounded by what the
  buckets let in, and no request hangs.
- *Hub.* A channel may be closed by the hub for a slow client or on behalf of
  the reader; counters are changed by several goroutines; every wait on a channel
  may be one for a goroutine that has gone. Correct when channels are closed
  once, connections counted once, trades delivered without gaps, and both
  goroutines of a connection end together.
- *User service.* The check is made outside the transaction that relies on it,
  and another service updates the same rows. Amounts are float64 here, decimals
  there, and rounded in the column. Correct when a balance is the sum of its
  changes but for that rounding, falls below zero by no more than a float64
  cannot tell apart, and the answers given are true.
- *Market socket.* Closes, timers and the user's choices arrive in any order.
  Correct when there is one connection at most, to the right symbol, none after
  the page is left, and a lost one is tried again.

`PROJECT.json` lists each hazard with its line and the properties that watch it.

## 2. The modules

| Module | Models | State and actions against the code |
|---|---|---|
| `OrderService` | PlaceOrder and CancelOrder | `pc[p]` and `cpc[c]` are the next statement of a call; an action is one statement. The writes of an open transaction are held in `avail[p]` and become visible in `Commit` by `Apply`. Row locks and entries of the unique index follow from the calls' positions (`HoldsRow`, `HoldsKey`, `RefundHolds`), as do connections in use (`Connections`). `PlaceFault`, `CancelFault` and `Crash` are the failures. |
| `OrderPromise` | what the order service is to its callers | one step each to ask, to place, to answer, to refuse, to fail and to cancel; `KeepsPromise` of `OrderService` is this specification with `placed` being the committed orders |
| `OrderLedger` | EXTENDS `OrderService` | what every balance must be, from the orders and refunds alone: sums over the committed orders of a row (`SpentOn`) and the refunds to it (`RefundedTo`) |
| `OutboxRelay` | the relay, the rows it reads and the topic it writes | `relay` and `current` are the goroutine's place in the loop, `batch` the rows fetched; PlaceOrder is reduced to `ReadClock` (created_at is taken before the transaction) and `InsertOutbox` (the commit). `Shutdown`, `Exit`, `Crash`, `Restart` are those of `cmd/order-service/main.go`. |
| `OutboxPromise` | what the relay is to the tables it joins | a row is inserted, written to the topic once or twice while PENDING, settled once; `KeepsPromise` of `OutboxRelay` |
| `LimitBook` | Match and Insert, abstractly | the book is a set; `MatchBest` is one iteration of the loop with *a* best counterpart, `Insert` ends the loop and inserts as handleOrder does |
| `OrderBook` | EXTENDS `LimitBook`: Match and Insert on heaps | `bids[s]`, `asks[s]` are the slices of `heap.go`; `Push`, `Pop`, `Up`, `Down` are `container/heap`; the loops of the last two are recursive functions of a slice and an index (`Sifts`). The variable `book` is a history of what the heaps hold (`Resting`). `ImplementsLimitBook` is `LimitBook`'s `Spec`. |
| `MatchingEngine` | EXTENDS `LimitBook` | the process around the book: `Handle`/`Drop` are ReadMessage with the handler's parsing and validation, `InsertRest`, `PublishTrade`, `CommitTick` (background commits), `Stop`, `Crash`, `Restart` |
| `OrderPipeline` | EXTENDS `MatchingEngine`: orders, outbox, topic, engine | `Commit`, `Relay` and `Mark` are `OutboxPromise`'s steps; `Relay` appends to the engine's topic what it writes; the rest is `EngineProcess` |
| `MarketHub` | hub, connections, admission, shutdown | `accept`, `reader`, `writer` are the places of the handler and the two goroutines of a connection; unbuffered channels are one step of both sides; deferred calls of Read are steps of their own. `last` is the trade after which the consumer stops: at a shutdown the one in its handler may still be broadcast |
| `UserService` | every call of the service, beside order transactions | `pc[k]` as above, with explicit row locks (`lock`), because a single statement of one service meets a transaction of the other. GetBalance and the balance in an answer are reads of their own, outside the transaction. What a column stores is `Numeric` of a decimal, what the service reads is `Scan` of the column, and it compares with `FloatLess`; `Float64` says which decimals a float64 merges. `Overflow` is a value the column does not hold |
| `ApiGateway` | routes, middleware, handlers, order client, process | `at[r]` is where request r's goroutine is, `limiter[r]` the bucket it took from the map, `status[r]` what the client reads. `Arrive` is the map under the mutex, `Allow` the rest of the middleware and the handler up to the gRPC call, `PlaceOrderReturns`, `GetOrderReturns` its return; `Leave` is the client's disconnect or WriteTimeout; `ConnectionBreaks` a call that fails here and may go on there; `Abandon` the end of Shutdown's ten seconds, or a kill |
| `MarketSocket` | the client's socket and the page that uses it | an action is one task of the browser's event loop; `connect` is `Connect`, run by `Select` and `TimerFires` |
| `MC*` | the constants of the runs | |
| `Totals` | | lemmas about sums over finite sets, used by three of the proof modules |
| `*Proofs` | theorems and proofs: one module per component, `MatchingProofs` for book, engine and pipeline | |

How the models are composed. `OrderService` implements `OrderPromise`, and
`ApiGateway` calls the order service through `OrderPromise`: what the gateway
tells its clients rests on a promise that the statements, locks and failures of
the service are proved to keep. `OutboxRelay` implements `OutboxPromise`, and
`OrderPipeline` feeds the engine through `OutboxPromise`, so what is said of the
pipeline is said of the relay's retries, shutdowns and crashes. `MatchingEngine`
is built on `LimitBook`, whose actions it uses for matching, and `OrderBook`
implements `LimitBook`; so what is checked and proved of the set of resting
orders holds of the heaps, and the engine need not carry heaps. `UserService`
contains the order service's transaction in the two statements that touch a
balance, `OutboxRelay` contains the order service in the two steps that make a
row.

Abstractions. Amounts are integers in a unit finer than the database keeps:
`Tick` units make 10^-8, so that what NUMERIC(20,8) rounds away is visible
(`Numeric`, in `OrderService` and in `UserService`). `UserService` also has what
only that service does: its float64, of which the model knows that reading a decimal
keeps order and sign and may merge neighbours, and NaN. `OrderService` starts from
balances that are numbers and not negative (`ConstantsAssumption`), as they are but
for the overdrafts and the NaN of section 6, which `UserService` runs beside the order service's
transaction. A LIMIT order of the code reserves its *quantity*, in the quote
asset for a BUY, and the models do the same. Prices of the book are integers
that are compared and nothing else. Ids are the call or the message that made
them; a token is the login that made it, because the user client the factory
installs makes a new user for each. The symbols, JSON and log lines are model
values or left out, but what their parsing refuses is kept as a branch of its own
(`Malformed`, `NoAsset`, `price = "text"`).

Some definitions are preceded by *Slip*: a mutated form of the definition below
it, such as a dropped lock. They are used by no specification; `PROJECT.json`
names them, and each one makes a property fail. They show that the properties
say something about the code.

## 3. The runs

Runs expected to pass:

| Run | What it shows | Bounds, and why they are enough |
|---|---|---|
| `order` | Balances, keys, orders, events and refunds stay consistent, every call returns, and the service is the one of `OrderPromise` | Two PlaceOrder calls and a cancellation, two pool connections, one failed statement, one crash. Two calls are what a lost update, a shared key or a wait for one another needs; the third party is the refund. `Tick = 4` and a quantity of 6 make the database round. Of eight requests, three can be placed (one user affords one of her two; two users share a key) and five are refused, each at its own place. |
| `relay` | Duplicates have a cause, order, progress; the relay is the outbox of `OutboxPromise` | Three rows of two users with a batch of two, so that a batch is followed by another and by a row that appeared in the meantime; one failure, one shutdown, one crash, in every order; one partition, because with two the order is lost by LeastBytes alone |
| `heaps` | The heaps implement the set, and equal prices are overtaken by pops only; prices, makers, fills and crossing | Six orders of one symbol at three prices, one of them invalid, with valid and invalid quantities: five resting orders make a heap three levels deep, in which a push climbs two levels, and a pop by the sixth order sinks two. A partial fill, a maker filled by two takers and an order that rests after having been filled all occur. Orders have no time, as in the engine, so those of one price are ties: one side's three and the takers that pop them are enough for the second to be overtaken (section 6) |
| `pipeline` | What happens to an order from its commit to its trades: which messages are handled and how often, which trades are published, how much an order trades, that it arrives | Two orders, crossing, of another symbol, invalid or unparsable, in a topic of at most three messages, so that either may be there twice; a fault, a graceful restart and a crash, in every order. Two orders are what a trade needs, and a third message is the copy that trades again |
| `hub` | Channels closed once, connections counted once, no gaps, none left behind | Two connections, limit 1, buffers of 1, two trades of the symbol subscribed to or of another: a client is slow as soon as it misses one trade |
| `user` | No money lost or created but for rounding, overdrafts explained, answers true | Five calls on one account: a registration; another of the address, perhaps with a password the hash refuses, or a login or a look at the balances; a deposit; a deduction; an order or a second deduction; one failure. The deposit may come before, between and after the registration's own inserts. A float64 of five significant bits and `Tick = 4`: a deposit of 28 and a deduction of 32 read as the same float64, 38 lies half way between two ticks, 1 rounds to nothing, 46 overflows the column, and both amounts may be NaN |
| `socket` | One connection, the right one, none after leaving, retries | Four attempts to connect, three choices, two symbols: a reconnect in each phase of the previous socket's closing |
| `gateway` | Statuses are true, retries agree, the rate is bounded, no request hangs | Three requests of two addresses: an order, its retry with the same key (or a login), and a GetOrder or a refused request with or without a token; a bucket of one token; two of the ticks, purges, departures, expiries, shutdowns and crashes, in any combination. Two events are what a purge in a burst, a restart under a request, or a client that leaves before a shutdown needs |

Runs expected to find a violation, each of a claim quoted from the repository
(section 6): `order_double_refund`, `book_overfill` (the set of resting orders,
three orders), `engine_restart` (the engine alone, three messages, one stop),
`socket_reconnect`.

Deadlock is checked in every run but those of the socket, where a page with a
live connection and no choices left to the user simply stays as it is. The other
models say when they may rest (`Quiescent`, `IdleTick`, `Quiet`, `PipelineQuiet`,
`EngineQuiet`, `Done`).

Bounds are constants named `Max...`: they limit failures, crashes, shutdowns,
orders, trades, sockets, choices and, in the gateway, events of all these kinds
together. `PoolSize`, `Limit`, `SendBuffer`, `HubBuffer`, `MaxConnections`,
`Burst` and `Rate` are parameters of the program, taken small. `MaxOrders` of
the pipeline bounds the topic: a write that does not fit does not happen.
Symmetry is not used: runs with liveness would not allow it and the others do
not need it.

What the properties say:

- *Order service.* `NoOverdraft`: no negative balance. `NoLostUpdate`: what a
  transaction will write is computed from what the row holds. `AtomicPlacement`:
  order and event together, nothing after a refusal. `CancelledWasRefunded`.
  `LedgerBalanced`: every balance can be recomputed from the orders and refunds;
  rounding may add at most a tick for each order that lies half way between two
  storable amounts. `AllCallsReturn`: no deadlock of row locks, keys and
  connections. `KeepsPromise`: one key means one order, an order exists before
  anyone is told of it, a refused call has placed none, a cancelled order stays so.
- *Relay.* `DuplicatesExplained`: the copies of a message are at most one more
  than what went wrong; `OrderPreserved`: with one partition and neither failure
  nor shutdown, an order placed after another was committed is not published
  first; `EventuallySettled`; `KeepsPromise`: nothing is written before its order
  was committed or after its row was settled, and PROCESSED means written.
- *Book.* `TradesWithinLimits`, `MakersBounded`, `FillsAccounted`,
  `CrossedOnlyIfFilled`; on heaps `ImplementsLimitBook`, and `OvertakingOnlyByPop`: of two
  resting orders of one price the later is matched first only if, while both rested,
  an order at least as good was used up and popped, the one thing that lets
  `container/heap` put its last element first.
- *Engine and pipeline.* `MessagesHandled`: no valid message is passed over, none
  is handled more often than crashes and failures explain, and without these each
  once and in order; `TradesReported`; `ExecutionsExplained`: an order trades at
  most twice its quantity for each time its message was written and read;
  `OrdersReachEngine`: an order reported as published reaches the engine.
- *Hub.* `ChannelsSound`, `ActiveIsAccurate`, `NoGaps`, `NoneLeftBehind`.
- *User service.* `OverdraftIsRounding`: a balance is negative only after a deduction
  of an amount that reads as the float64 of a smaller one, and by their difference
  at most, as the column rounds it; no later deduction or order takes more from it. `BalanceIsSumOfChanges`:
  within half a tick for each committed amount that is not a whole number of ticks,
  and NaN once one of them was. `RepliesTruthful`: the balance an answer shows is
  such a sum, with the call's own change, as a float64. A deposit told OK may have
  been rounded to nothing; that is no loss of the books but visible in them.
- *Socket.* `OneConnection`, which includes that nothing is left once the page is;
  `KeepsTrying`.
- *Gateway.* `AnswersTruthful`, `RetriesAgree`, `RateBounded`, `RequestsAnswered`.

## 4. Fairness

- `OrderService`: weak fairness of each call's statements. A goroutine that can
  go on does; PostgreSQL grants a lock that is free. Arrivals, failures and
  crashes are not fair.
- `OutboxRelay`: weak fairness of the relay's loop while it is up, and of the
  exit of a process that was told to stop. Restart is *not* fair, so
  `EventuallySettled` promises progress only while the process is up.
- `OrderPipeline`: weak fairness of the consumer's loop and nothing else; the
  relay's writes are not fair, and nothing restarts the engine, so
  `OrdersReachEngine` promises nothing while it is down.
- `MarketHub`: weak fairness of the hub and of each connection's goroutines, and
  strong fairness of `Unregister`, because Go's select chooses at random among
  ready cases and so does not pass over one forever. A read need not fail by
  itself; when the writer is gone there are no more pings, so no pongs, and the
  read deadline passes: that is the fairness of `ReadFails` with
  `writer[c] = "exited"`.
- `MarketSocket`: a timer fires.
- `ApiGateway`: weak fairness of each handler, of the order service's work on each
  call, and of the exit of a process that was told to stop. The second is what
  `AllCallsReturn` shows of `OrderService`; it is needed because the gateway sets
  no timeout of its own. Neither clients that leave nor the deadline of Shutdown
  are fair.

## 5. What is proved

TLAPS checks the theorems below for every value of the constants that satisfies
the named assumptions (`ConstantsAssumption`, `RelayAssumption`,
`BookAssumption`, `EngineAssumption`, `PipelineAssumption`, `HubAssumption`,
`UserAssumption`, `SocketAssumption`, `GatewayAssumption`): any sets of calls,
users, keys, amounts, connections and requests, any pool, buffer and bucket
sizes and any number of failures and crashes. Every invariant that a passing run
checks is stated by a theorem, and so are the refinements: the order service
implements `OrderPromise`, the relay `OutboxPromise`, the heaps `LimitBook`. Among the assumptions are three a reader may want to weigh: the
initial balances are multiples of `Tick`, as everything in a NUMERIC(20,8) column
is; there are finitely many messages and partitions, and at least one partition;
and the bounds of the runs, where a guard has them, are naturals.

An invariant that is not inductive by itself is proved from a stronger one; what
each adds, and why, is this.

`OrderServiceProofs`. The inductive invariant `IInv` is the conjunction of

- `PlaceInv`, `CancelInv`: what a call has established by the time it reaches a
  statement (its request was validated, its order exists, its refund was
  committed). Without it the later parts do not know that the amounts are
  positive or that the row asked for exists.
- `RowLock`: two transactions never hold one balance row. It is what `RowFree`
  in the guards maintains; `NoLostUpdate` follows because whoever writes a row
  holds it, so the others' computed values concern other rows.
- `BalanceInv`: balances and the values about to be written are naturals, by
  `Insufficient` and because rounding keeps naturals (`NumericNat`).
- `KeyLock`: an uncommitted key is held by one transaction and no committed order
  has it. `OneOrderPerKey` alone is not inductive: at COMMIT nothing else says
  that the key is still unused.
- `AnswerInv`, `outbox = Placed`, `CancelledWasRefunded`.

Theorems: `TypeCorrect`, `Solvency`, `RowLocking`, `KeysAreUnique`,
`Idempotence`, `Atomicity`, `RefundPrecedesCancel`, and `Refinement`: every step
is a step of `OrderPromise` or changes nothing a caller can see. A COMMIT is its
`Place`; that it finds the key unused is `KeyLock`. `FreshInv` says that a call
that has not arrived has no request, that one that has returned has a reply, and
that only an order comes with an answer.

`LedgerKept` is `LedgerBalanced`. A COMMIT subtracts what `NoLostUpdate` says was
computed from the row as it is, a refund adds to the row in one statement, and in
both the sums over the orders and refunds of that row change by one term
(`SumAdd`) and those of other rows by none. `LedgerInv` has to add that a stored
balance is a multiple of the tick: only then does the rounding of balance and
order (`Rounding`: the two differ by a tick for a half tick, by nothing
otherwise) leave the difference that `LedgerBalanced` allows. It also says that a
row that was never inserted has neither orders nor refunds.

`OutboxRelayProofs`. `RInv` adds to `ProcessedWasPublished` that between Publish
and the update the current message is in the topic if the update to come says
PROCESSED. Messages are never removed from the topic (`WriteKeeps`). Theorems:
`RelayTypeCorrect`, `NoSilentLoss`, and `RelayKeepsPromise`, for which `BatchInv`
says that the batch holds PENDING rows only: a publish is a write for a row that
is not settled yet.

`DuplicatesArePaidFor` counts. `PaidInv` says when a copy has been paid for: the
copies of a PENDING row are at most the failures, shutdowns and crashes so far,
except for the row being marked, which may have one more; and a shutdown, which
makes the updates fail for the rest of the batch, pays for each message of that
batch in advance. `TopicKeepsOrder` rests on the clock: `StampInv` says that an
order committed before another read its clock has the smaller stamp, `QuietInv`
that, while nothing has failed or been shut down, a row leaves PENDING only when
it is in the topic and the batch holds with an order every older one still
PENDING, because that is what the query returns. Crashes are allowed: they drop
the batch, not the rows.

`Totals`. What TLAPS cannot do is use an induction rule that takes a predicate.
The theory of sums over finite sets is therefore proved by a smallest
counterexample: among the finite sets where a claim fails one is minimal by
inclusion (`SmallestSet`, from the well-founded ordering of the library), and
removing an element of it gives the contradiction. In this way the recursive
function behind `SumFunctionOnSet` is shown to exist and to be unique, and a sum
not to depend on the order in which `CHOOSE` takes the elements (`SumRemove`);
the other lemmas (`SumAdd`, `SumChange`, `SumMonotone`, `SumCup`, `SumCover`)
follow.

`MatchingProofs`: the book. `KeptInv` adds to the properties that accepted orders
are valid, that the order being matched is the latest, not resting and unfilled
(`Arrival`), that what rests has something left (`Rests`), and that no trade is of
nothing (`Progress`). `BestDecides` says that if one best counterpart does not
cross then none does; it is why `CrossedOnlyIfFilled` survives `Insert`. A trade
adds one term to what its maker gave and one to what its taker took, and none to
the other sums, which is `FillsAddUp`. Theorems: `BookTypeCorrect`,
`LimitsRespected`, `MakersNeverOverfilled`, `CrossingExplained`, `FillsAddUp`.

`MatchingProofs`: the heaps. `HeapsImplementBook` is `ImplementsLimitBook`: with any
number of orders every step of the heaps is a step of the book, so the theorems
above hold of the heaps as well. `HeapInv` says that the heap of a side of a symbol
holds exactly the resting orders of that side, each once (`Holds`), and that no
order is before its parent (`Sorted`). The first of such a heap is a best order
(`TopIsBest`): of the orders before it one has the least index, and its parent has
a smaller one. Hence an iteration of the code, which looks at the first order only,
is one of `MatchBest`, and where the code's loop ends the book may `Insert`.

What the sifts do cannot be shown by an induction rule either. Two lemmas about
loops take its place. A function that goes from a state to the next until it is
at a stop exists, whatever the loop does (`LoopSolved`: what it returns is read
off the set of states that can be reached); without this `Up` and `Down` would be
arbitrary. And a loop that keeps an invariant and comes closer to its end with
each round ends at a stop within the invariant (`LoopEnds`, by the least
counterexample). The loop of `Up` comes closer to the first place, that of `Down`
to the last. `UpInv` says that only the order being sifted may be before its
parent, and that its children are not before that parent; `DownInv` that only the
children of the order being sifted may be before it, and that they are not before
its parent. The second half of each is what the next swap needs, and at a stop
either invariant is `Sorted` (`PushSorts`, `PopSorts`).

`OvertakingExplained` is about orders of one price. `TiesInv` says that no order
carries a time (`Untimed`, as the engine decodes them), and that whatever in a heap
arrived before the heap's first order, at its price, was overtaken by a pop
(`FirstExplained`). A push keeps that, because without a time a new order climbs
past better prices only, never past an equal one (`PushFirst`), and a pop is itself
the explanation for all that remain.

`MatchingProofs`: engine and pipeline. A crash forgets the book, after which
`MakersBounded` is false of the orders it held; `KeptInv` is the part of the
book's invariant that stays true, and the engine's invariant contains that part.
`HandlingInv` counts the readings of a message: one more than crashes and
failures only if it lies before `Reach`, the place where reading goes on (the
committed offset while the process is down), and at most as many otherwise;
without the distinction a restart would not preserve the count. `ReportingInv`
ties the published trades to the loop that publishes them, and all of them to the
time between messages. `OutboxInv` and `CopiesInv` say that what is in the topic
came from committed rows, and that an order of the engine has the quantity of the
message it was read from. Theorems: `TypeCorrect`, `HandledAsOften`,
`AllTradesReported`, `MatchingSurvives`, and `ExecutionsBounded`: the orders the engine
made of one message are covered by the readings of its copies, so they are at
most copies times readings (`BookedPerCopy`, from `CardinalityCover`), and each
trades at most twice its quantity, once as taker and once as maker
(`TradedTwice`, `SumCover`).

`MarketHubProofs`. `CounterInv` says what the counter counts, by the places of the
handler and the reader of a connection; `PumpInv` that a connection's goroutines
do not run before the hub was told of it; `FanOutInv` that whoever is being
served is in the map, so that a drop closes a channel that is open. For `NoGaps`,
`GapInv` says how far each connection is: what it was sent, written out or still
in its channel, lists all trades of its symbol since it was registered, all but
the last one while the hub still has it to serve, or the first of them once it is
out of the map. Lists are stated by order and membership (`ListsFirst`), so that
appending a trade is one fact about the last element. Theorems: `TypeCorrect`,
`SoundChannels`, `AccurateCounter`, `TradesWithoutGaps`.

`UserServiceProofs`. `LockInv` says that a transaction that has read its row holds
it and that the row is still as it was read, so that the second comparison is made
with the balance that is then written. `OnTick` says that every balance is a whole
number of ticks: of two such numbers the difference is stored as it is, and what is
stored below zero is explained by the amount the comparison could not tell from the
balance (`Stored`). About `Float64` the proofs use nothing but that it keeps order and
sign. `NumericIs` and `NumericWhole` are what rounding does to a value: half a tick at
most, nothing to a whole number of ticks; a change therefore adds at most one half tick
to the account, and only if its amount is off the tick (`OneMore`). `BooksInv` adds to
`BalanceIsSumOfChanges` what each call has done by the time it is at a place
(`CallInv`): applied is entered once, by the statement that writes the balance, and is
never left. `TruthfulReplies` follows because a shown balance was such a sum when it was
read, and the changes it counts stay committed. Theorems: `TypeCorrect`,
`OverdraftsExplained`, `SumsOfChanges`, `TruthfulReplies`.

`MarketSocketProofs`. `HookInv` says that `onclose` is set on the current socket
and on no other; `PageInv` that a socket and a timer belong to an open page and
are not both there. Theorems: `TypeCorrect`, `SingleConnection`.

`ApiGatewayProofs`. `OrderInv` is what `OrderPromise` keeps invariant; `Stage` says
how far a request has come and what the order service knows of it; `Truthful` is
`AnswersTruthful` for one request together with the reason it stays true, which is
that orders and answers last (`Lasting`). `RateInv` adds the tokens left in a
bucket to those taken from it, and says that an address whose bucket is not in
the map has had one fewer. Theorems: `TypeCorrect`, `TruthfulAnswers`,
`RetriesMakeOneOrder`, `BoundedRate`.

Proved and not checked by a run, because a checked property implies them, they
only give types, or they carry a property of one run over to another model:
`OneOrderPerKey`, `IdempotentReplies`, `ProcessedWasPublished`, `TypeOK` of the
user service and the socket, `MatchingSurvives`.

Only model-checked is liveness, which depends on fairness and ENABLED:
`AllCallsReturn`, `EventuallySettled`, `OrdersReachEngine`, `NoneLeftBehind`,
`KeepsTrying`, `RequestsAnswered`.

## 6. Where code and documents disagree

Found by a run:

- `order_double_refund`: "only PENDING orders can be cancelled"
  (`internal/order/service.go:16`). CancelOrder reads the status once and updates
  it unconditionally after the refund; two calls refund the order twice.
- `book_overfill`: "Remaining quantity stays in the order for the caller's heap
  insertion" (`internal/matching/orderbook.go:24`). It stays in a local variable;
  an order filled on arrival is inserted whole and trades again, up to twice its
  quantity (`FillsAccounted` is the exact account).
- `engine_restart`: "Replay ensures the orderbook is correctly rebuilt after a
  restart or crash" (`docs/05-architecture/12-architecture.md:94`). `Recover` only
  logs, nothing calls it, and the reader goes on from the committed offset.
- `socket_reconnect`: "Auto-reconnects on disconnect"
  (`docs/03-frontend-implementation-plan.md:180`). The reconnect clears the
  handlers, so nobody hears the new connection.

Visible in the models, or met while reading, with no run of their own:

- `order/service.go:213` logs a failed refund; the order stays PENDING whether or
  not the refund was committed, so a retry may refund again.
- Two simultaneous calls with one new key: the second fails with an internal
  error (`unique_violation`) where `docs/03-services/05-order-service.md:177`
  expects the existing order. A later retry gets it.
- A MARKET order may omit its price (`proto/order.proto:18`); the empty text is
  bound to a NUMERIC column (`order/repository.go:48`) and the INSERT fails.
- `pkg/kafka/producer.go:19` balances by bytes; `04-kafka.md:48` says messages
  are partitioned by user. The relay's own order is `OrderPreserved`, for one
  partition.
- FAILED is final (`order/relay.go:60`), whereas `12-architecture.md:84` retries.
  `OutboxPromise` allows it as an end, so no property refuses the lost order.
  The comment at `relay.go:72` counts on consumers to remove duplicates; the engine does
  not look at ids.
- "Price-time priority (FIFO at same price)" (`06-matching-engine.md:216`,
  `12-architecture.md:41`) is not kept. The event of an order carries no creation time
  (`order/service.go:108-119`), so CreatedAt is the zero time for every order the
  engine reads (`LimitBook`, `Accept`), orders of one price are ties, and a pop moves
  the heap's last element to the root (`heap.go:40`). Three buys of 1 at one price and
  a sell of 2: the sell is matched with the first buy and then with the third. As an
  invariant of the `heaps` run, "the first to arrive of a price is matched first" fails
  in this way; what the code does keep is `OvertakingOnlyByPop`.
- The user service compares float64 (`user/service.go:91`, `user/repository.go:170`)
  where `03-user-service.md:78-91` computes with decimals and refuses a negative
  balance. An available 200000000.00000002 and an amount of 200000000.00000003 are the
  same float64; NUMERIC subtracts them exactly, leaves -0.00000001, and no CHECK forbids
  it (`001_create_users.up.sql:15`). `OverdraftIsRounding` is the exact account.
- A deposit of 0.000000004 passes the check (`user/handler.go:138`), is committed, and
  the column rounds it to nothing; the answer is OK. A NaN passes both "<= 0" checks
  and the comparison of a deduction, and makes the balance NaN, from which every later
  deduction is granted; an order finds no decimal to read and fails.
- `pkg/kafka/consumer.go:44` commits in the background; `04-kafka.md:100` commits
  after the handler. `MessagesHandled` shows what remains: messages are read
  at least once, but one in the handler's hands at a crash may have been committed
  and its trades lost: `MessagesHandled` counts a message as handled when it is read.
- A failed publish of a trade is logged and dropped (`engine.go:91`), against
  `01-system-overview.md:132`. `TradesReported` claims nothing for that case.
- `cmd/market-service/main.go:105` compares and then adds: simultaneous upgrades
  may exceed the limit together. The counter itself stays right (`ActiveIsAccurate`).
- Pings are sent once in the period of the read deadline (`market/client.go:72`),
  not before it as `07-market-service.md:168` wants.
- CreateUser inserts the user and the balances one by one (`user/repository.go:73`).
  `RepliesTruthful` holds, since Internal promises nothing, but the user cannot
  register again.
- The password check admits 128 bytes (`user/service.go:41`), bcrypt only 72: a
  password in between is refused by the hash, with an internal error.
- The idempotency key is looked up without the user (`order/service.go:68`): whoever
  uses a key that is taken is answered with the other user's order. `OrderPromise`
  says so too (`ReturnOrder`).
- The timeout given to the gateway's factory is never used (`clients/grpc.go:116`),
  and no call has another; `RequestsAnswered` therefore has to assume that the order
  service answers.
- The error of dialling the order service is dropped (`clients/grpc.go:122`); without
  a client every order request panics and is answered 500 by Recovery.
- GetOrder answers 404 whatever went wrong (`handlers/orders.go:134`).
- The gateway's login is a mock that makes a new user for each login
  (`clients/mock.go:49`). Such a user has no balances, so the deployed order service
  refuses every order placed through the gateway; the gateway's model does not rely
  on that and lets the service accept.
- The form makes a new idempotency key for each submit (`trade-form.tsx:55`), so a
  user who submits again after an error is not protected by the key.
- The limiters are dropped every five minutes (`middleware/ratelimiter.go:38`), in
  use or not: the limit holds between two purges only (`RateBounded`).
- `lib/websocket.ts:19` resets the attempt counter with every connect, so the
  backoff of its comment at line 72 grows only while attempts do not get as far
  as a socket.
- React runs the panel's effect before the page's: the page's connect clears the
  handler its panel has just added (`page.tsx:19`), against the plan's line 179.
  The page's `connected` is set and never reset (`page.tsx:22`, plan line 227).

## 7. What is not modelled

- *Pages and forms* of the client: they render answers. The token they store is
  a token of the gateway's model.
- *`user_client_adapter.go`*: injected into the order service and never called.
- *The gateway's mock order client, `CancelOrder` and `Close`* of its clients: no
  handler or factory of the program uses them.
- *Generated code*: the messages and stubs of `proto/`, the API description.
- *Configuration, logging, the origin check, token syntax*: a token is valid,
  expired, or not one of ours.
- *Several partitions or matching engines*: one partition and one member of
  the consumer group; with more, each member would keep a book of its own.
- *Time*: tickers and timeouts may fire at any moment; delays have no length. The
  gateway's buckets have a clock that ticks when a bucket is refilled. The
  keepalive of the websocket would need real time.
- *The rest of the connection pool*: the relay and GetOrder take connections of the
  order service's pool too, for one statement each; `AllCallsReturn` has the calls
  that hold one while they wait for a lock.
- *PostgreSQL and Kafka* are modelled as far as the code relies on them:
  read-committed statements, row locks, unique keys, rounding; an append-only
  log per partition, retries that may write twice, offsets per group.

## 8. Plan

Done in this order, most important first: order service, relay, book, heaps,
engine, hub, user service, socket; then what callers may rely on (`OrderPromise`,
`OutboxPromise`) and what is built on it (`OrderPipeline`, `ApiGateway`), Login and
GetBalance; proofs of all components but the heaps.

Then the proofs of the remaining invariants: the sums, the relay's duplicates and
order, the hub's gaps, the user service's answers; and of the heaps.

Next:

1. The lock discipline of the user service and the order service as one abstract
   account that both implement.
2. What of the liveness can be said as safety: for a call that is not over, a step of
   it that its fairness condition can take (no deadlock between the row locks, the
   keys and the pool), as an invariant with a proof.
3. A timed model of the websocket's keepalive.
4. The handling of one message as an interval in the pipeline, so that what a crash
   in the middle of it loses can be stated, and the loss of an order in FAILED.
