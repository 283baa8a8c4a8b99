# A TLA+ model of service_rpc

service_rpc is a flash sale ("seckill") split into services: an admission gate
in Redis, an asynchronous purchase pipeline over Redis Streams and two RPC
services with MySQL tables of their own, and an event path over an Outbox and
Kafka. No transaction spans two of these. What makes the system correct is the
order of local commits, unique keys, Lua scripts and acknowledgements, under
retries, duplicate deliveries, crashes and calls that run after their caller has
given up. Around it stand a public API with users, roles, products and orders,
and the tools that measure and inspect the sale. The modules here model that; TLC checks them on small instances and
TLAPS proves the central facts for any number of users, units, consumers and
goroutines.

## The system

| Component | State | Operations | Hard behaviour |
| --- | --- | --- | --- |
| Redis gate (`redisgate/gate.go`) | snapshot hash with stock and window, buyers hash, results hash, Stream, retry counters, dead letter Stream | admission script, preheat script, invalidation, expiry | lost answers, a snapshot replaced while users are admitted |
| Activity management (`activity_service.go`) | activity row: status and window | create, enable, disable, preheat, discovery | every call is two steps on two stores, checked once |
| Orchestrator (`streamqueue/runtime.go`, `rpc_processor.go`) | started consumers, batches in memory | XREADGROUP, XAUTOCLAIM, two RPCs, completeScript, failScript | two consumers on one entry, crash before XACK, dropped script errors, restarts |
| inventory-rpc (`mysqlrepo/reservation.go`) | item row with available stock, reservations | ReserveSeckillStock | duplicate keys, unknown COMMIT, late execution |
| order-rpc (`order/mysqlrepo/repository.go`) | orders, items, Outbox rows | CreateIdempotent | as above |
| Outbox relay (`outboxrelay/relay.go`, `outbox.go`) | lease, backoff and status of a row | claim, publish, mark | crash between publish and mark, lease shorter than a batch |
| Kafka consumer (`platform/mq`) | group offsets, the record in hand | fetch, handle, divert, commit | rebalances, commits of former owners, publish before commit |
| Notification (`notification/`) | notifications, consumption ledger | consume, list, mark read | concurrent consumption of one event |
| Result projector (`resultprojector/`) | results hash, projection ledger | project | out of order with failScript |
| RPC policy (`platform/rpc/policy.go`) | breaker: failures, openedAt, halfOpenInFlight | Do, allow, record | goroutines sharing a breaker, stale answers |
| Purchase of v0.2 to v0.4 (`seckill.go`, `mysqlrepo/repository.go`) | claims, orders and stock in one database | three stock modes, gated and asynchronous purchase | optimistic races, unknown admission |
| Gateway (`gateway_rpc.go`, `notification_rpc.go`, `adapters.go`) | the request in hand | authenticate, check a permission, decode, call a service, map its error | check then act over RPC, a commit after the 504, values cut on the way |
| Users, tokens, roles (`user/`, `auth/`, `rbac/`) | accounts, tokens, user_roles | register, login, replace roles | concurrent replacements, gap locks, live tokens of disabled accounts |
| Products (`product/`) | products and SKUs | create, update, status, queries, snapshots | SKU keys in opposite order, partial inserts |
| Load test (`cmd/loadtest`) and diagnosis (`cmd/v03check`, `cmd/v05check`) | samples, tokens, the reads so far | prepare, run, drain, report; compare stores | lost answers, stores read one after the other |
| Configuration, labs, generated code | | | see "Not modelled" |

How they interact: seckill-rpc admits a user by one script that also appends the
Stream entry. The orchestrator consumes the Stream, calls inventory-rpc and then
order-rpc under the same order number, and acknowledges the entry last. order-rpc
writes the Outbox row in the order's transaction; the relay publishes it; the
notification consumer and the projector, two groups, consume it, and the
projector turns the user's QUEUED result into SUCCEEDED. Administrative calls
touch the activity row and the snapshot. The policy wraps both calls of the
orchestrator.

## The modules

| Module | Models |
| --- | --- |
| `SaleBase` | users, order numbers, stock and the task they travel in |
| `RedisGate` | snapshot, buyers, results and Stream; the admission script, publish, drop |
| `Activity` | clock, status row, the three administrative calls in two steps each |
| `Inventory` | item row and reservations; `Reserve` and its answer |
| `OrderBook` | orders and Outbox rows; `CreateOrder` and its answer |
| `SeckillSale` | the composition, with orchestrator, late requests and projector |
| `SaleContract` | what the sale promises, with none of the machinery |
| `RpcPolicy` | `Policy.Do` and its breaker |
| `EventTopics` | the three Kafka topics as logs |
| `OutboxRelay` | Outbox rows, leases and the relays |
| `EventConsumer` | a consumer group around the notification handler |
| `EventDelivery` | relay and consumer group together |
| `EventDiagnosis` | `v05check` reading backlog and lag while events move |
| `Purchase` | the purchase of v0.2 to v0.4: three stock modes, three ways in, on top of `RedisGate` and `Activity` |
| `Diagnosis` | `v03check` comparing MySQL and Redis during purchases |
| `LoadTest` | the load test around `Purchase` and `Diagnosis`, and the result query it polls |
| `ShopBase` | a request to the gateway: its steps, permissions and errors |
| `Accounts`, `Catalog`, `Checkout`, `Inbox`, `SaleSetup` | user-rpc, product-rpc, the normal orders of order-rpc, notification-rpc, and how activities and items are created |
| `Gateway` | all of these behind the public API |
| `SeckillSaleProofs`, `RpcPolicyProofs`, `EventDeliveryProofs`, `PurchaseProofs`, `LoadTestProofs`, `LoadReportProofs`, `GatewayProofs` | theorems |
| `MCSeckillSale`, `MCRpcPolicy`, `MCEventDiagnosis`, `MCPurchase`, `MCGateway` | symmetry sets, menus and arguments of requests for TLC |

`SeckillSale` extends `Activity`, `Inventory` and `OrderBook`; `Purchase` extends
`Activity` and is extended by `Diagnosis` and that by `LoadTest`; `EventDelivery`
extends `OutboxRelay` and `EventConsumer` and is extended by `EventDiagnosis`;
`Gateway` extends `Accounts`, `Inbox` (over `Checkout` and `Catalog`) and
`SaleSetup`, which all extend `ShopBase`.

### The sale

`Decision` is the admission script's order of checks; `ReserveAndEnqueue` its
writing branch. One item is modelled, as no script or statement of the path
touches two. The time a script compares is the one its caller read, so it may be
behind the clock (`Reached`).

A preheat reads (`BeginPreheat`) and publishes (`PublishActivity`) in two steps.
`LatePublish` says whether the second may come after the start of the activity.
Nothing in the code prevents it; it takes a pause of the process or a slow Redis
exactly there. The properties that hold regardless are checked and proved
regardless; the others are stated under `~LatePublish`, and the run
`late_preheat` shows what happens otherwise.

`jobs` are the entries in the hands of consumers, each with the step it is at:
fetched, reserve, order, and then the script to run: complete, retry or reject.
Two consumers may hold the same entry, because XAUTOCLAIM goes by idle time alone.
A call may be answered, or its outcome may be unknown (`ReserveUnknown`,
`OrderUnknown`): then the request joins `lateReserve` or `lateOrder` and may be
executed at any later time or never. A call that succeeded on the server and
whose answer was lost is such a request that is executed at once. The policy's
second attempt is part of this: it repeats the request under the same order
number. `Crash` drops the consumer's batch, `ScriptFails` is an error that
`processOne` ignores. `Complete` and `RecordFailure` are the two scripts, which
act whatever has become of the entry. `retries` is kept by order number, as an
order number has one entry. After a crash, `Discover` starts the consumer only
for an enabled activity that has not ended.

`Reserve` and `CreateOrder` are one step each: inside, a unique key or the lock on
the item row decides, reservations and orders are never deleted, and the look-ups
before and after the transaction only find what was committed. The projector's
deliveries are any order of the committed Outbox rows, at least once; that this
is what the relay and Kafka provide is the subject of `EventDelivery`.

### The policy

`allow` and `record` run under a mutex and are one step each; between them a call
is in flight. Time is one bit, whether the open period has passed. The deployed
configuration ends a call after 300 ms and keeps the breaker open for 1000 ms, so
calls in flight when it opens have ended before a probe goes out
(`CallsOutlive = FALSE`). `PolicyConfig.Validate` does not relate the two; with
`CallsOutlive = TRUE` an old call's answer lets a second probe out.

### Event delivery

A row is `due` when its lease and its backoff are over. Publishing is acknowledged,
fails, or lands with its acknowledgement lost. The relays have different
WorkerIDs, as `claimed_by` is all that tells them apart. On the other side a
consumer reads the main and the retry topic; a former owner of a partition may go
on fetching and committing after a rebalance, until it learns of it, and its
commit replaces the group's offset. The handler succeeds, fails, or commits and
reports an error. A record that timed out on publish and reaches the topic only
after the row was marked is not modelled apart from one that reaches it before.
`EventDiagnosis` adds the three reads of `v05check`, each a step of its own, to
these steps.

### The purchase of v0.2 to v0.4

One transaction takes the unit, writes the order and the claim. It is modelled at
the statements that meet: the snapshot (`Load`), the UPDATE of the item row
(`DecrementStock`) and the INSERTs with COMMIT (`Insert`); `lock` is the row lock,
held from the UPDATE, or in the pessimistic mode from the SELECT. `Matches` is the
WHERE clause of the UPDATE in each stock mode. A COMMIT may take effect and report
an error, and a call may fail at any statement (`Abort`). `entry` is the way in:
without Redis, through `reserveScript` or as a task of the Stream. Administration
uses the actions of `Activity`, which are the same two steps.

`Diagnosis` reads what `v03check` reads, in its order: MySQL in one statement, then
HGETALL, then HLEN. `LoadTest` is `cmd/loadtest`: preparation with its channel of
users, workers, one sample per request, the polling of queued orders, the report.
A sample has the answer, the order number and the replayed flag. An answer may be
lost, be replaced by "Request Timeout", have a body that cannot be read, or be a
refusal before the handler (`Reject`). The sample is taken when the call has ended;
only then does a worker send its next request, so an order that is committed after
its client has given up is the order of a sample without a clear outcome.
`ResultPollError` and the maps by status and by code are left out.
The result query it sends is the gateway's: the order first, then the projection.

### The public API

A request (`requests[r]`) goes through authenticate, permit and decode to the call
of its handler. A handler that reaches the database in one statement is one step;
the ones whose statements meet others' are split there: the replacement of roles
(checks, DELETE, INSERTs), the creation of a product (one step per SKU), an order
(one step per snapshot, then the transaction). Row and gap locks are guards, and
InnoDB's deadlock detection is an action of its own. Errors go through the
service's `mapError`, `StatusError` and `writeRPCError`, so a status is what the
client really gets. `Breaks` is a call that fails before COMMIT, `GiveUp` the
gateway's 504 while the service goes on, in a single statement or in the last ones
of a transaction. `history` is an auxiliary variable: what
permission was held and which snapshots were on offer since a request arrived.

## What the runs show

| Run | Bounds | Result |
| --- | --- | --- |
| `sale_safety` | 2 users, 3 order numbers, 2 units, 2 consumers, 1 crash or failed script, 2 deliveries | stock is conserved, no oversell, one order per user, no reverse drift, no task lost, QUEUED has work, `SaleContract` is implemented |
| `sale_rebuild` | 2 users, 2 order numbers, 1 unit, 1 consumer with batches of 2, all administrative calls, late publish | what survives a rebuild: types, buyers within stock, no task lost (that QUEUED has work even then is proved) |
| `sale_live` | 2 users, 1 unit, 2 consumers, 1 fault | every task settles while a consumer runs (`TasksSettle`), and no result stays QUEUED (`ResultsSettle`) |
| `late_preheat` | late publish, no fault | violated: a user gets two orders |
| `stranded_task` | 2 consumers, 2 faults | violated: an entry that a consumer had read and not acknowledged stays pending after the activity has ended |
| `disable_race` | preheat and disable | violated: the gate reopens after the disable |
| `policy` | 3 goroutines, 2 attempts, threshold 2 | attempts bounded, one probe, a probe goes out |
| `policy_stuck` | 2 goroutines, threshold 1 | violated: a cancelled probe keeps the breaker open |
| `event_safety` | 2 events, 1 poison, 2 relays, 2 consumers, 3 attempts, 1 fault | published means in the topic, nothing skipped, one notification, exclusive leases; a report of `v05check` without backlog and lag is true |
| `event_live` | 1 event, 2 relays, 2 consumers, 2 attempts, 1 fault | every event settles |
| `purchase_safety` | 3 users, 3 order numbers, 2 units, 2 clients, 2 optimistic attempts, all modes and entries; the load test with 2 requests, atomic, all entries | `StockBacksClaims`, `OneClaimPerUser`, `WinnerIsFound`, `BusyMeansSales`, `GateNeverAhead`, `LockedChecksHold` for the transaction; `ReportAccounts`, `CommittedIsTold`, `SoundDiagnosis` for the tools |
| `gateway_safety` | 2 users, 2 handlers, 2 or 3 requests out of five menus, 2 products, amounts up to 7, pages up to 4 | `AnswersAreTrue`, `ActedWithPermission`, `RolesAsRequested`, `OffersOnly`, `TotalsExact`, `ReadOnce`, `CatalogWhole` |

The four violated runs are findings: behaviour of the code that a comment or a
document of the repository rules out. Each is quoted in `PROJECT.json`.

Bounds. Two users and two order numbers for the last unit is where admission,
reservation and order can disagree. A third order number gives a user that is
wrongly admitted again a number to be admitted with. Two consumers are enough for an entry held twice;
`MaxDeliveries = 2` has a failure that is retried and one that is final. `MaxFaults`
bounds crashes and failed scripts only; unknown answers are unbounded. In the event
runs one fault is one of: a crash, a lease that expires under its relay, a
rebalance, a lost answer; failing publishes and handlers are unbounded. Deadlock is
not checked in the sale and event runs: when the sale is over and everything has
settled, the system stops. Users, order numbers and consumers are symmetric, and so
are relays and consumers of events; runs with liveness use no symmetry.

In `purchase_safety` the real 32 attempts are 2: one lost race that is repeated and
one that is final. `v03check` is followed in the gated atomic mode (`CheckedModes`)
while the product stays on sale, and after its HGETALL only as long as its two reads of
Redis may agree (`Followed`). The load test runs in the atomic mode by all three ways
in (`LoadModes`, `LoadEntries`), and one entry of the Stream is processed at a time
while it does (`OneConsumer`): two requests are enough for a replay, for two buyers,
and for an order whose only trace is a request without an answer; consumers that meet
are part of the behaviours without the tool. The proofs have none of these bounds but
that the product stays on sale. `EventDiagnosis` follows a report
only while it may still turn out clean. In `gateway_safety` a menu is a group of
operations that touch the same tables or rights; operations of different groups
share nothing but the checks before the call. `PageLimit = 4` stands for 2^32,
`MaxInt = 7` for 2^63 - 1, and `MaxQuantity = 3` for the largest quantity a client
sends; times are counted in half milliseconds to show that the gateway cuts them.

Fairness. Sale: a running consumer reads and works, a stopped process is started
again, and events are delivered. Nothing is assumed of users, administrators, the
clock and lost requests. Policy: calls end at their deadline, time passes, and new
calls come. `Allow` is strongly fair: not every context is over when `Do` looks.
Events: relays and consumers run, leases end, the group assigns abandoned
partitions. Publishing is strongly fair: a broker that is asked again and again
accepts in the end. Handlers may fail for ever.

## What is proved

`SeckillSaleProofs`, for any finite sets of users and order numbers, any stock,
any set of consumers and any bounds, assuming only what `SaleBase`, `Activity`
and `SeckillSale` assume of their constants. The inductive invariant `IndInv` adds
to the properties

- `Provenance`: every task anywhere was indexed by the admission script;
- `UniqueOrderNo`: an order number belongs to one user;
- `StagesCommitted`: a consumer about to order has a reservation of its user, one
  about to complete has an order, and so has every late request;
- `EventsMatch`: order and Outbox row are one, and a projected result is not QUEUED;
- `SnapshotFaithful`: nobody is admitted before the start, and without late
  publishing the live snapshot remembers everyone who was admitted and its stock
  leaves room for them.

None of the properties is inductive without them: for instance `NoTaskLost` at
`Complete` needs that the consumer has seen the order committed, and
`OneOrderPerUser` needs that the buyers hash has forgotten nobody. From `IndInv`
follow `TypeOK`, `StockConserved`, `NoTaskLost`, `QueuedHasWork` and
`BuyersWithinStock` without condition, and under `~LatePublish`
`OneOrderPerUser`, `OrdersWithinStock`, `NoReverseDrift` and the refinement of
`SaleContract` (`KeepsContract`).

`RpcPolicyProofs`: type correctness, which includes the bound on attempts, and
`OneProbe` if calls do not outlive the open period, for any number of goroutines.

`EventDeliveryProofs`, for any number of events, relays, consumers, attempts and
faults. The inductive invariant `DeliveryInv` follows an offset to every place it
may be committed from. An event may be forgotten by the group when it is notified,
a dead letter, or in a later record of the retry topic (`Done`); this holds below
the committed offset (`CommittedDone`), below the position of a consumer that owns
the partition (`ReadDone`) and below the record a worker has in hand (`HandDone`).
`NoEventSkipped` alone is not inductive: nothing in it says what a consumer is about
to commit, and an event that was moved to the retry topic is accounted for only by
a chain of records that has an end, which is proved by taking the last of them.
From it follow `TypeOK`, `PublishedReachedTopic`, `OneNotification`,
`NoEventSkipped` and `LeaseIsExclusive`; with `CheckInv`, which says that what
`v05check` has read so far can only have become better, `CleanReport`.
`CheckOnlyReads` shows that the checked system implements the unchecked one.

`PurchaseProofs`, for every stock mode, every way in and any number of users, units
and clients. `PurchaseInv` adds to the properties what a transaction knows while it
holds the row lock (`LockKnows`), how far the version an optimistic attempt has read
may be behind the sales (`Overtaken`), that an order number has one user wherever it
is (`NumberInv`), that nothing is sold before the start (`TimeInv`), and that the
gate counts and knows whoever is inside (`GateInv`, `KnownToGate`). From it follow
`TypeOK`, `StockBacksClaims`, `OneClaimPerUser`, `WinnerIsFound`, `BusyMeansSales`,
`GateNeverAhead` and `LockedChecksHold`.

`LoadTestProofs` shows first that load test and `v03check` are clients
(`ToolImplementsClients`: `LoadSpec` implements `Spec` of `Purchase`), so that all of
the above holds under them. `LoadInv` then says whose order numbers the samples have
and which numbers of a comparison were read together; from it follow `LoadTypeOK`,
`CommittedIsTold` and, under `~LatePublish`, `SoundDiagnosis`.

`LoadReportProofs` proves `ReportAccounts`: the cases of the report add up to the
requests; accepted requests without the replays are as many as the different order
numbers they were told, plus the answers whose body was not read; and the order
numbers agree with the tables in both directions. Neither samples nor claims say
enough for it: between the commit of an order and the sample of its request the order
is explained by the worker that still has the job, and under the Stream by the sample
that was taken before the order was made. `ReportInv` says both (`ExplainedInv`), and
that no two requests were told of the same order as new, the one that is about to be
told included (`ToldInv`).

`GatewayProofs`, for any number of users, roles and requests at a time, and for any
arguments: `Inputs` is a constant of which only the JSON types are assumed, and that
roles are replaced for one of `Users`, who may have no account (`InputsAssumption`);
`Roles` has at least the two roles of the migration. The
inductive invariant `ShopInv` says what the handler of a request knows at its next
statement, whatever others do in between (`KnowsOK`): the codes it has inserted are
those of the first SKUs it was given, the snapshots it has fetched those of the
first lines. `PendingInv` keeps the codes that open transactions hold apart from the
catalog's and from each other's; `RolesInv` says that the rows a replacement has
deleted are still all there are; `HeldInv` that whoever is past the middleware was
permitted. `CatalogWhole` is not inductive without the codes under way,
`RolesAsRequested` not without the locked rows, `OffersOnly` and `AnswersAreTrue` not
without what a handler knows. Every step of a handler is first shown to end the
request truthfully or to let it go on (`Serving`); each part of `ShopInv` follows
from that. That totals are exact for orders of every length (`FittingIsExact`) is an
induction over the lines, done with a set of numbers that is closed under successor
(`SetInduction`). TLC has checked the parts of `ShopInv` on the instance of
`GatewaySafety`.

Only model-checked: all liveness, that is `TasksSettle`, `ResultsSettle`,
`ProbeGoesOut` and `EventsSettle` (TLAPS does not reach fairness and ENABLED).

## Observations without a run of their own

These were met while modelling; the models contain them.

- `buildReport` counts a replay that was queued under Queued and under Replayed
  (`cmd/loadtest/main.go:863`), so the counters below the status add up to more than
  the requests in the asynchronous replay scenario. `ReportAccounts` sums the cases
  of the switch, and takes Replayed off the accepted requests. A status whose body
  cannot be read counts as Created or Queued all the same.
- `v03check` may report DANGEROUS_DRIFT when an admission falls between its HGETALL
  and its HLEN. `SoundDiagnosis` excludes exactly this window.
- Marking a notification read a second time answers 404 to its owner, where the
  comment at `notification/mysqlrepo/repository.go:110` knows only the cases "does
  not exist" and "belongs to somebody else". The same shape answers 404 to a
  product update or status that changes nothing. `AnswersAreTrue` says that such a
  request has written nothing; it does not say that the reason given is right.
- Ordering, or putting into a sale, a SKU that is off sale is answered 500:
  product-rpc's NotFound is not named by the error mapping of its callers.
- A request while the snapshot is not ready gets 503 from `handler/seckill_order.go`
  and 409 from the gateway, whose comment at `gateway_rpc.go:73` promises the v0.4.2
  contract.
- A disabled account keeps its permissions as long as its token lives; only
  `GET /users/me` looks at the account.
- Page 2^32 arrives as 0: the product list answers with page 1, the notification
  list with 400.

## Plan

1. Done: the sale, its contract and its proofs; the policy and its proofs; event
   delivery and its diagnosis; the purchase of v0.2 to v0.4 with its tools; the
   public API and the services behind it.
2. Done: proofs about event delivery and its diagnosis, about the purchase, its load
   test and its comparison, and about the public API.
3. Possibly: a refinement from event delivery to "every event at least once, every
   effect once", several items in one preheat, and the labs.

## Not modelled

- Expiry of Stream and results after the retention period, and the loss of Redis
  data; the Stream's semaphore, group creation and malformed entries, which no
  writer of the Stream produces.
- More than one administrative call of a kind at a time, and several items in one
  preheat.
- The projector's own retry and dead letter topic: it uses the consumer modelled
  in `EventConsumer`, and in the sale it is any delivery at or after the commit.
- NOSCRIPT reloading: a script is sent again only when Redis says it did not run it.
- Field validation beyond one good and one bad value, payload formats, logging.
- The handlers of the monolith that no command registers any more, except where
  the purchase of v0.2 to v0.4 goes through them.
- `v042check`, which counts the entries of the Stream, `v05check`'s counts of the
  other stores, the load test's latencies and files. Error codes for a partition in
  the broker's replies, which `kafkaGroupLag` (`cmd/v05check/main.go:209`) does not
  look at: with one of them the lag it reports may be too small.
- Start-up, configuration, migrations and connections (I/O and validation), the
  labs (stand-alone programs), generated code.
