# TLA+ models of the payment webhook service

The service receives payment webhooks of two senders, GOV.UK Pay
(`POST /callback/payment`) and BACS (`POST /webhooks/bacs/payments`), checks
them, stores each once in the table `payment_webhooks` and answers. Lambdas in
other repositories pick the rows up. This directory models the path of a
webhook from the socket to the committed row and from there to the relay's
queue, the connection pool with its password rotation below it, and what a
process that starts at all has checked.

Paths are relative to the repository; `WebhookIngest` and the like are modules here.

## The system

| Component | State it keeps | Operations | What is hard | What makes it correct |
|---|---|---|---|---|
| Request pipeline (`app.ts`, `config/middlewareSetup.ts`, `config/errorHandler.ts`, `routes/`) | none of its own | limit, parse, limit, validate, serve | the order of the checks, what an error skips | a service sees only what every check accepted |
| Rate limiters (`config/rateLimiting.ts`) | hits and reset time per address | increment, reset | fixed windows, the halved limit, health checks that share the global one | a bound in any span of a window's length; nobody is kept out for good |
| Validation (`middlewares/validate*Signature.ts`, `validators/`) | none | signature, timestamp, payload, controller checks | rules that overlap and differ, defaults put in before the payload check | all checks agree with one table of fields; a signed message ages |
| Intake (`controllers/`, `services/`, `repositories/`, `database/db.ts`, the SQL) | the handler of each delivery, a checked-out client, an open transaction, the table | BEGIN, INSERT ... ON CONFLICT, COMMIT or ROLLBACK, answer | two deliveries of a webhook at once, statements that time out in the client and go on in the server, lost connections, crashes, several instances | an answer is true of the table; clients and transactions are never mixed up |
| Pool manager (`database/dbPoolManager.ts`, the secret cache of `config/config.ts`) | current pool, its credentials, `isRefreshing`, the wrappers on each pool | getPool, connect, refresh, recreate, close | everything that happens during an `await`: first callers, end() of the pool in use, calls in the queue of a full pool, retries through wrappers | one refresh at a time, no stale pool taken for a fresh one, every call ends |
| Shutdown (`server.ts`) | whether a signal came | close the server, close the pool, exit | handlers that outlive their sockets, a refresh in progress, a second signal, the 30 s timer | exit 0 cuts off nobody who still waits, and no transaction of the pool it closed; a closed server comes to its exit |
| Health checks | none | `SELECT 1` | they count for the global limiter, and go through the pool's wrappers | hits in the pipeline, callers of the pool manager |
| Configuration and startup checks (`config/config.ts`, `validators/signingKeyValidator.ts`) | the environment, what was loaded from it | load, validate, listen, choose the secret | a check that is skipped or counts other things than the code that uses the value | what listens can verify signatures and read its credentials, again after a rotation |
| Outbox (`constants/sql.constants.ts`, the table; relay and Lambda are external) | the rows with `status` and `enqueued_at` | poll, mark, set the status | commits out of order, relays without locks, a crash between sending and marking | every row is sent, and sent again only for a reason |
| Logging, CORS, headers, response wording | none | | | not modelled |

Interaction: the pipeline calls a controller, which calls its service, which
calls `createWebhook`, which runs in `withTransaction` on a client of
`poolManager.getPool()`. The only state shared between requests is the limiter
stores, the pool manager's fields, the pools, and the table; between instances
it is the table alone, and the table is also all that service, relay and
Lambda share.

## Modules

| Module | Models | Extends or uses |
|---|---|---|
| `WebhookIntake` | what the intake promises: a delivery is about a webhook, a webhook is stored once, a positive answer is about a stored webhook | |
| `WebhookIngest` | services, `createWebhook`, `withTransaction`, pg's clients and pool, PostgreSQL's sessions | refines `WebhookIntake` |
| `WebhookIngestProofs` | theorems about `WebhookIngest` | `WebhookIngest` |
| `WebhookIntakeProofs` | duplicates, rollbacks, and that it implements `WebhookIntake` | `WebhookIngestProofs` |
| `PoolTurnover` | what the manager promises: nobody enters a pool that ends, and it is replaced, or given up, only when its last client is gone | |
| `DbPoolManager` | pool manager, pg's Pool, health checks' queries, password rotation, shutdown | refines `PoolTurnover` |
| `DbPoolManagerProofs` | theorems about `DbPoolManager`, and that it implements `PoolTurnover` | `DbPoolManager` |
| `WebhookValidation` | the checks of both endpoints as operators on a request | |
| `RequestPipeline` | limiters, parsing, validation and the service call of requests over time | `WebhookValidation` |
| `RateLimitProofs` | theorems about the limiters of `RequestPipeline` | `RequestPipeline` |
| `RequestPipelineProofs` | theorems about `RequestPipeline` and the answer to a message | `RequestPipeline`, `WebhookValidation` |
| `WebhookService` | controllers, lost answers and restarts around the pipeline and the intake | extends `RequestPipeline`, composes it with `WebhookIntake` |
| `WebhookServiceProofs` | theorems about `WebhookService` | `WebhookService`, `RequestPipelineProofs` |
| `Outbox` | what the table promises its readers: rows are added, sent, and marked only when sent, for good | |
| `RelayOutbox` | the table as an outbox: transactions, relays, the Lambda | refines `Outbox` |
| `RelayOutboxProofs` | theorems about `RelayOutbox`, and that it implements `Outbox` | `RelayOutbox` |
| `Startup` | loading and validating the configuration, the source of the credentials | |
| `StartupProofs` | theorems about `Startup` | `Startup` |
| `MC...` | instances of the module named after them | |

### WebhookIngest

A step is what the node process does between two awaits together with the
answer that ended the await. `pc[d]` is the statement the handler of delivery
`d` awaits; `user[c]` the delivery that checked out client `c`; `active[c]` the
statement on the wire, which the server executes whether or not anybody still
listens; `queued[c]` the statement pg's client holds back behind it. `txn`,
`dirty` and `seen` belong to the PostgreSQL session: its transaction, the rows
it has inserted and not committed, and the snapshot of the INSERT under way.
`row` is the table, with its unique index on `webhook_id`.

The INSERT takes two steps, because its two halves look at two states:
`TakeSnapshot` fixes what the `SELECT ... is_duplicate true` will see, and
`DbInsert` inserts, or finds the conflict, after waiting for a session that holds the
same key (`Locked`). A statement that times out (`QueryTimeout`) makes the
handler send ROLLBACK behind it; when ROLLBACK itself times out the client is
released as it is (`RollbackTimeout`), so a later handler's BEGIN may queue
behind somebody else's statement or meet a doomed transaction. `ConnectionLost`,
`IdleTimeout`, `SessionEnds` and `Crash` end connections from either side.
`created` and `undone` record what the callback returned and what was logged.
Deliveries here have passed the checks of `RequestPipeline`.

### DbPoolManager

A call of `getClient` is a nest of connects: each `getPool()` wraps the *same*
Pool object once more, an authentication error passes through all wrappers
from the inside, each may refresh and connect again through the wrappers of
what is then the current pool. `stack[c]` holds a frame for each of those
connects, with the wrappers the error has not reached yet. Rotation has two
steps, the password in the database (`Rotate`) and the secret (`Publish`), so a
refresh may read a secret that is already refused. `recreatePool` is two
actions, `EndOldPool` (in `Fetch`) and `RecreatePool`, with an await between.
The health checks' `pool.query` passes through wrappers of the same shape, so a
caller of the model is either.

Below the wrappers is pg's Pool. It has `PoolMax` clients: those of `Users` (held
by a call, or being connected for one), `idle` ones, and `strays`, the
connections still made for calls that timed out meanwhile. A call that finds no
room is `queued`; `Serve` hands it an idle client, or the room for one. `end()`
drops the idle clients and resolves when users and strays are gone (`PoolEnds`).
It neither waits for the queue nor serves it any more: what stands there ends
with `connectionTimeoutMillis` (`ConnectFails`).

`server.close` waits for sockets and not for handlers. `connections` are the
requests whose socket is open, `HangUp` closes one at any time of the
shutdown, its handler notices nothing, and `Drained` is that none is
left. `GetPool` asks for no connection and no phase: a request that was read before
the signal, or that comes on a live keep-alive connection, goes on. So calls may
queue, retry and refresh while `ClosePool` ends the pool, and after. A second signal
calls `closePool` again and meets the same `end()`, which rejects. A pool that a
second initialisation displaced has no owner: `closePool` does not know of it, and
its connections end with their idle timeout (`IdleConnectionsExpire`).

### WebhookValidation and RequestPipeline

A request is a function from each header and body field to the *kind* of value
in it (`good` as documented, absent, null, empty, blank, a string of another
form, a number, a number in a string, ...), which is all the checks look at.
`Answer` is the first answer of signature middleware, payload middleware and
controller. A `looseDate` is what `isValidISODate` takes beside ISO 8601, for it asks
`Date` (`validators/webhookPayloadValidator.ts:268-275`); the properties count it as
well-formed. Only the fields that deviate from `Documented` are given values one
by one. `RequestPipeline` lets each message be sent again, byte for byte,
while the clock moves, through both limiters.

### WebhookService

`HandOver` turns a validated request into the next delivery of `WebhookIntake`
and names its webhook as the controllers do: by the id in the message, or by a
made-up one that no other delivery shares. `Process` is the intake's own step,
`Respond` the controllers' status. `GiveUp` and `Restart` take the answer away
at any point, while the intake may go on; the message then comes again. What
`WebhookIngest` does in detail is behind the abstract intake here, which
`ingest_instances` and the theorem `Implements` show it to implement.

### RelayOutbox

Transactions of `createWebhook` fix `created_at` when they begin (`NOW()`) and
commit in any order; `Inserted` is `ON CONFLICT DO NOTHING`. `Poll` reads at
most `Limit` pending rows, oldest first, ties in any order, and locks nothing.
A relay then sends and marks row by row, `UPDATE_ENQUEUED_AT` looking at no
more than the id. A `Fault` between any two calls makes it forget its batch.
`UpdateStatus` is the Lambda, late, twice or out of order. Relay and Lambda are
external: the queries, their comments and the columns are this repository's, the
order send-then-mark is the assumption. `created_at` is taken to be distinct between
transactions, as microseconds are all but always (`NobodyCutsIn` speaks of an order). The relay
polls rows of status `pending`, as `GET_PENDING_RELAY` and its index do;
`tests/integration/webhook.integration.test.ts:240-247`, which "simulates the query used by
pay-callback-relay", asks for `processing` instead.

### Startup

A signing key is its trimmed length, its number of different characters,
whether it is, as a whole and trimmed, one of the well-known words (`secret`,
`password`, ...), and whether it is padded. `LoadConfig` is what
throws while `config.ts` is required, `ValidateConfig` what `NODE_ENV=test`
skips. `LoadInitialCredentials` and `RefreshCredentials` choose the secret;
`HasSecretArn` is what the wrappers ask before they refresh, `RefreshSource`
what `refreshCredentials` then reads.

## Runs

| Run | Instance | Shows |
|---|---|---|
| `ingest_safety` | 3 deliveries of a GOV.UK Pay and a BACS webhook, 1 instance, 2 clients, `poolMax` 2 | `PositiveMeansStored`, `BacsAckMeansStored`, `DuplicateMeansAnother`, `NoClientLeak`, `RollbackIsFinal`, `RowsAreFinal`, the type invariant, and `IngestInv` and `HistoryInv` before they are proved inductive |
| `ingest_instances` | 2 deliveries, 2 instances with 1 client each, no symmetry | the refinement of `WebhookIntake` (`IntakeSpec`) across instances that crash, `EveryDeliverySettles`, `LocksAreReleased` |
| `pool_rotation` | 2 callers and the error event, pools of 1 client, 4 pools, 1 rotation, 2 nested retries before publication, no symmetry | `CredentialsMatchPool`, `OneRefreshAtATime`, `CleanExit`, `RotationAddsNoPool`, the refinement of `PoolTurnover` (`TurnoverSpec`), `EveryCallSettles`, `RefreshEnds`, `ShutdownCompletes`, and `PoolInv`, types included, before it is proved inductive |
| `service_messages` | each message of both endpoints that deviates in up to two values, and each kind of body, sent twice, with lost answers and restarts | `AcceptedIffWellFormed`, `EventIsTheBody`, `NoSilentRefusal`, `BacsAcceptedIsStored`, `ResendsAreOneWebhook`, and `ServiceInv`, types included, before it is proved inductive |
| `pipeline_resends` | 2 messages, 4 requests, 3 ticks, windows of 1 and 2 ticks, limit 2 | `ReplayHorizon`, `AdmissionBound`, `NeverLockedOut` |
| `outbox` | 3 transactions of 2 webhooks, 2 relays, `Limit` 2, 1 fault, no symmetry | `ResendsHaveACause`, `NobodyCutsIn`, the refinement of `Outbox` (`OutboxSpec`), `EveryRowIsSent`, and `OutboxInv`, types included, before it is proved inductive |
| `startup` | every environment with ten signing keys at the limits of the checks | `ListeningIsConfigured`, `KeysInUseAreStrong`, `RotationSurvivable`, `CredentialsLoad`, and `StartupInv`, types included, before it is proved inductive |

Why the bounds are enough. Intake: the hazards need a delivery whose statement
outlives it on a client, a second that gets that client, and a third that
conflicts with either; two sessions are needed for a conflict to wait, and two
webhooks for a transaction to be committed by a delivery of another. Pool: two
callers give the double initialisation, a retry inside a retry, and a connect
that finds the other's refresh in progress; a third would repeat one of these. Pools
of one client make the second call queue, behind a client, a connection or a stray.
Four pools are two initialised ones and the ones refreshes make; `MaxDepth` only delays
publication, and two leave room for a refresh that reads the old secret and for the
retry after it. Outbox: three transactions give a resend of one webhook and one that commits behind a younger; with two relays and a fault, a row is sent by
both and once more, and a batch of two dies with one row dealt with. Startup:
the checks compare with 32, 64, 8 and 16, and there is a key on either side of
each; padding is tried where it could lift a key over a limit. Service: two sends
are enough for a resend to meet every state of the first. Pipeline: all checks but the two substitutes of
`parseWebhookEvent` look at one field, so pairs of deviations show every
disagreement, and four requests in two windows reach every boundary of a limit
of two, which halves to one.

`CHECK_DEADLOCK FALSE` is set because the systems stop: every delivery or
message has been answered, or the process has exited.

Five runs show where the code differs from what it says; each checks one
property that a comment, a log line or a test states, and TLC finds a behaviour
that violates it:

- `ingest_new_once`: two deliveries of a webhook at once are both answered as
  new. The second INSERT waits for the first, does nothing, and its SELECT does
  not see the row that was committed after its snapshot, so no row comes back
  and `is_duplicate` of nothing is false. The row is stored once.
- `ingest_govpay_ack`: a GOV.UK Pay delivery that failed is answered 202.
- `ingest_rollback_log`: a COMMIT that times out in the client is committed, and
  logged as rolled back.
- `pool_retry_once`: "Retry once" retries through the wrappers of the current
  pool, which retry in turn: the recursion goes on until the rotation is
  published or something else fails.
- `shutdown_waits`: `closePool`, which "waits for active queries to complete",
  knows of one pool. Two first callers make two; when both hang up, the process
  exits with 0 while the one whose pool was displaced is in its transaction.

## Fairness

`ingest_instances` assumes that the timers of pg fire (`query_timeout`,
`connectionTimeoutMillis`, `idleTimeoutMillis` are all configured), that the
server executes a statement it can execute and ends a session whose client is
gone, and that a waiting handler gets a client that stays free. Nothing makes
a delivery arrive, an INSERT succeed, a connection break or a process crash.
`pool_rotation` assumes that a call in the queue, a connect and a call of Secrets
Manager end (all have timeouts: `DB_CONN_MS` is 15 s unless it is set, and only 0
would turn it off), that clients are released (`NoClientLeak` of `WebhookIngest`, for every use
goes through `withTransaction` or `pool.query`, whether the sender still waits or
not), that `end()` of a pool without clients resolves, that the rotation publishes
the password it has set, and that the shutdown calls `closePool` once its server
has closed. No request need come, no client hang up, no idle client expire, no
signal be sent, and nothing depends on the forced exit.
`outbox` assumes of the external relays that they go on polling, sending and
marking; no transaction has to commit and the Lambda need not run.
`startup` assumes that a process that was started goes on, that Secrets Manager
answers in the end, and that some request uses the database.

## Proofs

`WebhookIngestProofs` proves for every set of deliveries, webhooks, instances and
clients, and every `PoolMax`, from the assumptions `DistinctIds` and `NoneIsNothing`:

- `TypeCorrect`: `TypeOK`.
- `Inductive`: `TypeOK /\ IngestInv`.
- `PositiveStored`, `BacsAckStored`, `NoLeak`: the safety invariants
  `PositiveMeansStored`, `BacsAckMeansStored` and `NoClientLeak`, which follow from
  `Inductive`; and `InsertsTransactional`, which no run checks beside `IngestInv`.
- `RowsFinal`: the action property `RowsAreFinal`.

`PositiveMeansStored` is not inductive: that a COMMIT acknowledged to its
sender stored the sender's webhook needs that the COMMIT found an open
transaction with its row or a committed one (`Transactional`), which needs that
no other statement slipped between the INSERT and the COMMIT. That is
`Holding`: whatever a checked-out client has on the wire or held back, only one
statement is awaited, and the shapes in which somebody else's statement can
come first are a BEGIN or a ROLLBACK held back. `UniqueIndex` says that an
uncommitted row excludes a committed one and any other uncommitted one, so that
commits never overwrite; `OnlyArrived`, `WaitersSentNothing` and `AwaitersHold`
tie handlers, clients and statements together. Each conjunct has a lemma for the
initial states and one for the steps (`HoldingInit`, `HoldingNext`, and so on), with a
case for every action; what `Reply` does to statements, clients and types is
proved once (`ReplyTypes`, `ReplyHolding`, `ReplySends`, ...) and cited by the
actions of the session.

`RelayOutboxProofs` proves, for all finite sets of deliveries and relays, every
positive `Limit` and every bound of faults:

- `OutboxInductive`: `OutboxInv`.
- `NothingDropsOut`: `MarkedIsSent`, a part of `OutboxInv`.
- `ResendsBounded`: `ResendsHaveACause`.
- `QueueOnlyShrinks`: the action property `NobodyCutsIn`.
- `OutboxImplements`: `OutboxSpec`, the refinement of `Outbox`.

The bound on resends is not inductive: it must say where each send went.
`SendsAreAccounted` does. While a row is not marked, each send of it is in the
hand of a relay or was lost to a fault; once it is marked, no poll returns it,
so the relays that read it before are all that may still send it, and sends and
these relays together stay within the bound. The step that
needs care is the mark: the relay that marks leaves `Sending` and is not in
`Waiting`, so what was bounded by `Sending` is bounded by the rest
(`RelaySets`, `MarkAccount`). It needs that a batch holds a row once
(`BatchesAreRows`). The argument does not use the status, which is why a Lambda that
sets any status at any time does no harm.

`NobodyCutsIn` needs to know where each `created_at` comes from. `TimesAreOver` says
that the times of rows and of open transactions are all in the past, so a transaction
that begins takes a place behind every row; `TimesAreDistinct`, that a time
belongs to one transaction, so a row that is committed takes over its transaction's time
and no other (`RowsKeepTheirTime`, `TransactionsKeepTheirTime`, `TimesNext`). With
`ON CONFLICT DO UPDATE` in place of `DO NOTHING` it is false: a resend
would carry its row to the end of the queue.

In the refinement of `Outbox` a COMMIT that stores a row maps to `Insert`, each call
of SQS to `Send`, `UPDATE_ENQUEUED_AT` to `Mark` or, when it comes late, to nothing new; polls,
faults, the Lambda and a COMMIT that stores nothing are stutters. The step
that uses the invariant is the mark: what a relay has in hand is a row of the table
that was sent.

`WebhookIntakeProofs` goes on from `IngestInv`, with the same assumptions:

- `HistoryInductive`: `HistoryInv`.
- `DuplicateIsAnothers`, `RollbackFinal`: `DuplicateMeansAnother` and `RollbackIsFinal`.
- `Implements`: `IntakeSpec`, the refinement of `WebhookIntake`.

What `IngestInv` lacks is history. `HistoryInv` says that each delivery sends
one INSERT and leaves no row anywhere before it; that while the handler still
holds its client, its row is in the session of that client or in no session;
and that what was rolled back before its COMMIT was sent is gone. In the refinement a
COMMIT that the server executes maps to `Store`, for all the rows of its
transaction together, the arrival to `Deliver`, an answer to `Settle`, and everything else
to a stutter.

`DbPoolManagerProofs` proves for any tasks, pools and rotations, whatever the size of the pools, from
`BoundsAreNumbers`, `NoneIsNeither` and `PoolErrorIsNoCaller`:

- `PoolInductive`: `PoolInv`.
- `CredentialsCorrect`, `OneRefresh`, `ExitIsClean`: `CredentialsMatchPool`,
  `OneRefreshAtATime` and `CleanExit`.
- `NoPoolIsLeftOpen`: the action property `RotationAddsNoPool`.
- `TurnoverImplemented`: `TurnoverSpec`, the refinement of `PoolTurnover`.

The invariant follows a call from the outside to the inside. Each call put one
wrapper on each pool it was given, so a call whose pool is not current holds wrappers that
somebody counts; a nest of frames has a frame that connects at the end; whoever
set `isRefreshing` is inside of the refresh, and only that task ends a pool to replace it. A
pool that is ending gives no clients, to its queue neither, and one that has ended has none
(`EndedIsIdle`). The clean exit follows from this and from `ClosedIsDrained`: closePool
begins when no connection is left, and none is added.

In the refinement the users of a pool are the calls that hold a client of it, or that one is
being connected for (`Users`). That is what `end()` waits for, and a call in the queue is none of
them. A step that begins a connect, hands over an idle client, or takes a call out of the
queue is a `Join` and needs an open pool (`JoinIsTurnover`): `Connect` and `Retry` look at the pool
first, and `Serve` does. One after which the call neither connects nor holds a client is `Leave`
(`LeaveIsTurnover`). `EndedIsIdle` is itself a consequence of a turnover step, for nobody joins
an ended pool. That whoever awaits an end() uses no pool comes from `HoldersUse`: a task is at one
place, and the refresh it is in was entered from a connect that had failed (`NotInUse`). That a
task names a pool exactly while it awaits the end of it is `EndingIsAPool`, a part of `PoolInv`.

`RotationAddsNoPool` counts open pools, first callers about to create one and refreshes about to
replace one: a step that opens a pool takes its caller or refresh out of the other two sets
(`NewPoolOpens`, `OpensForOne`), and one that ends a pool puts its refresh in (`EndsOne`).
First callers are in the count because two of them do leave a pool behind; the
theorem says that nothing else does.

`RateLimitProofs` proves for every limit, window, clock and number of senders, from
`PositiveLimits` and `ContentsAreMessages`:

- `LimiterCorrect`: `LimiterInv`.
- `AdmissionBounded`: `AdmissionBound`.
- `LetInAgain`: `NeverLockedOut`.

The store keeps a count and an end, and the properties speak of a log. The
invariant supplies what links them: each decision has a window (`start`), windows have the same
length and do not overlap, each begins with a decision to pass, no more than `WebhookMax` pass
in it, and the last is the one the store counts. A span of a
window's length meets two windows at most (`NoThirdWindow`), so twice the halved limit
bounds it; and a refusal a window after another one is in a later
window, whose first request passed.

`RequestPipelineProofs` proves for every set of messages, whatever the kinds of all
their values, and every clock, from the same assumptions:

- `ChecksInductive`: `ChecksInv`, and `PipelineTypes`: `TypeOK`.
- `ChecksAgree`: `AcceptedIffWellFormed`; `EventsAreBodies`: `EventIsTheBody`.
- `RefusalsAreSeen`: `NoSilentRefusal`.
- `ReplaysEnd`: `ReplayHorizon`.

The runs try deviations in two values; the proofs need no such bound, because they go
field by field. A chain of checks gives the answer of the first that fails
(`FirstFailureIsFirst`). What a parsed value may be depends on its field and on
the parser (`ParsedIsOfItsKind`), and over these kinds the middlewares'
conditions come to the same sets as the table (`GovPayFields`, `BacsFields`). One case needs both
parsers: in a form, a null object becomes an empty string that
the payload check would skip, but a form has no number for `api_version`. `ChecksInv`
then says that each answer has its reason and each hand-over passed all checks at
its time.

`WebhookServiceProofs` proves for every set of messages, slots and senders, from the same
assumptions and `NoneIsNothing`:

- `ServiceInductive`: `ServiceInv`.
- `AcceptedIsStored`, `OneWebhook`: `BacsAcceptedIsStored` and `ResendsAreOneWebhook`.
- `ChecksSurvive`: `AcceptedIffWellFormed`, `EventIsTheBody`, `NoSilentRefusal` and
  `ReplayHorizon` with the service's restarts and lost answers.
- `UsesPipeline`: the service's steps are steps of `RequestPipeline`, a restart that
  empties the limiters, a sender that gives up, or stutter.
- `UsesIntake`: the service's steps are steps of `WebhookIntake`, or stutter.

`ChecksInv` is the first half of the argument: a restart or a lost answer only takes
requests back to `unsent`, where it asks nothing. `ServiceInv` is the other
half. It leads from an answer back to the webhook of the message answered: a served
request waits for a delivery of its own message (`ServedIsDelivered`), a message that
passed the checks has its id (`IdFound`), so the delivery is about that id and never a
made-up one (`NoMadeUpIds`), and a positive result is about a stored webhook
(`ResultsAreStored`). That a delivery is new when it is handed over takes
counting: deliveries and requests still under way are together no more than the requests
that arrived (`DeliveriesInOrder`).

`StartupProofs` proves for all sets of keys, from `NoneIsNothing` and `KeysAreKeys`:

- `StartupInductive`: `StartupInv`.
- `KeysArePresent`, `KeysAreStrong`, `RotationSurvives`: `ListeningIsConfigured`,
  `KeysInUseAreStrong` and `RotationSurvivable`.

The invariant says, for each stage, that what was checked before it still holds of what
is used after it: the environment does not change, what was loaded is the
environment's, and what was validated is what was loaded.

Every safety property the passing runs check is thus proved. Only model-checked is
liveness (`EveryDeliverySettles`, `LocksAreReleased`, `EveryCallSettles`, `RefreshEnds`,
`ShutdownCompletes`, `EveryRowIsSent`, `CredentialsLoad`), for fairness and ENABLED are out
of the proof system's reach. `AdmissionBound` and `NeverLockedOut` are proved of
`RequestPipeline`; in `WebhookService` a restart empties the limiters, so that they hold
between restarts only.

## Abstractions

- Payloads and payment ids are left out of the intake: rows are told apart by
  `webhook_id` and by the delivery that inserted them. The formats of the two
  senders' ids are disjoint, which is the assumption `DistinctIds`.
- HMAC is ideal: a signature is by the right key over these bytes, or not.
- Branches no input reaches are left out: missing signing keys in the
  middlewares (`ListeningIsConfigured` of `Startup`), an empty BACS body (express
  makes it `{}`), a secret without host (`dbConfig` has defaults),
  `result.retryable` (no service sets it).
- Settings that only set a limit or a timeout are constants and timers of the
  modules that use them; `Startup` keeps those that can stop the process.
- PostgreSQL, pg, express, express-rate-limit and Joi are modelled from how the
  code uses them, at the versions of the lock file.
- pg serves its queue in order and at once; the model lets any queued call be next,
  and others run first, which only adds behaviours. A socket that closes before
  the shutdown counts as closing when it begins, for nobody asks earlier. Other
  connections, idle ones and probes, only delay `server.close`, as a late `HangUp` does.
- A client of pg that loses its connection while it is checked out has no `error`
  listener, so that the process may die of it. `ConnectionLost` of `WebhookIngest` lets
  the handler go on with an error, `Crash` is the other outcome.
- Time is a few ticks in `RequestPipeline`, and nondeterminism elsewhere: a
  timeout may fire at any moment. That a shutdown's 30 s are shorter than a
  statement's 40 s is covered by the forced exit being possible at any time.

## Not modelled

- `utils/loggerHelper.ts`, `utils/ecsMetadata.ts`, `utils/errorSanitizer.ts`, the
  logging middlewares and the request context: output only.
- `config/corsConfig.ts`, `middlewares/securityHeaders.ts`, the wording of
  answers (`utils/bacsResponseBuilder.ts`, `constants/error.constants.ts`): no
  state, and no property is about the text.
- Functions and queries no code calls: `withTransactionIsolation`,
  `findByWebhookId`, `GET_WEBHOOK_HISTORY`, `CREATE_WEBHOOK`,
  `middlewares/rateLimiter.ts`, `healthCheckRateLimiter`.
- How the relay and the Lambda treat a message that is refused each time: they
  are not in this repository.

## Plan

The modules, the abstract specifications and the theorems planned are there. What is left is
outside of the repository or of the tools: the relay and the Lambda, should their code be
added to this repository, would replace what `RelayOutbox` takes from the comments on
the queries; and the liveness properties stay with TLC.
