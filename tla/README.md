# TLA+ models of ns-tracking-go

ns-tracking-go receives tracking pushes of parcels (an OMS webhook and a TIS
push), stores one formatted detail per waybill number in PostgreSQL, keeps a
copy of it in Redis, writes parcel status and times back to the
`tracking_logs` rows of the Ruby system it shares the database with, and
answers queries.  A worker process retries upserts that failed.  This
directory holds formal models of both: what they say, what TLC checks on small
instances, what TLAPS proves for every instance, and what is left out.

Line references are to `src/`.

## 1. The system

### Parts, state, operations

| Part | State | Operations | Where | Module |
|---|---|---|---|---|
| Tracking repository | `tracking_details` rows: `detail`, `last_detail`, `status`, `auto_delivered_at` | `Save` (one upsert, then Redis), `FindByTrackingNumber`, `SyncTrackingLog` | `infrastructure/database/tracking_repo_impl.go` | TrackingStore |
| Tracking cache | one Redis string per number, 4 h time to live | `Get`, `Set` | `infrastructure/cache/tracking_cache.go` | TrackingStore |
| OMS webhook | none | parse, check signature, format, `Save` | `app/internal/{handler,logic}/webhook` | TrackingStore, TrackFormat |
| TIS push | none | parse, convert, format, `Save`, `MapTrackStatus`, `SyncTrackingLog` | `app/internal/{handler,logic}/webhook/tis_push*` | TrackingStore, TrackFormat, PushFeed |
| Query endpoints | none | public and admin query (Redis, then database, then fill), uncached query | `app/internal/logic/{public,admin,tracking}` | TrackingStore, TrackFormat |
| Formatter, status mapping | tables | push -> stored item, node code -> status -> text / package state / letter | `domain/tracking/service` | TrackFormat, StatusMapping |
| Tracking log service | none; asks the database about overseas packages | `MapTrackStatus` | `domain/tracking/service/tracking_log_service.go` | StatusMapping, TrackingStore |
| Retry queue | tasks of asynq, with the body of the upsert that failed | `ProcessTask`; delivery, retries and archive are asynq's | `app/internal/queue`, `domain/tracking/queue` | RetryQueue |
| Worker process | the asynq server, a cancelled context, three goroutines | start, handle a signal, shut down | `app/cmd/worker/main.go` | WorkerProcess |
| Middleware | one `ResponseWriter` shared by two goroutines | `TimeoutMiddleware`, `RecoveryMiddleware` | `app/internal/middleware` | TimeoutMiddleware |
| Event pipeline | rules | map fields, fix, filter, sort, mark | `domain/tracking/service/event_*.go`, `field_mapper.go` | EventPipeline |
| Gray scale switch | configuration | `ShouldProcessByGo` | `app/internal/config/gray_scale.go` | GrayScale |
| Decryption | none | `DecryptPayload` | `infrastructure/crypto/aes_decrypt.go` | Decryption |
| Batch queries | none | limit, slice, number the results | `app/internal/logic/{public,admin}/*batch*` | BatchQuery |
| Event dispatcher | listeners by event, RWMutex | `Register`, `Dispatch` | `domain/tracking/event/dispatcher` | - |
| Webhook request log, tracking log repository | rows | single statements | `infrastructure/database` | - |
| Configuration, wiring, health, scripts | none that changes | | | - |

### How they interact

Every request runs in a goroutine of its own; nothing in the service locks
anything across requests.  Requests meet only in PostgreSQL, where one
statement is atomic, and in Redis, where one command is.  `Save` is two such
calls, a TIS push up to four, a cached query up to three.  The worker is a second
process that runs the same `Save` on the same rows and the same Redis.  Outside the
two, Ruby's `auto_sign` sets `auto_delivered_at` of a row, Ruby creates
`tracking_logs` rows and overseas package rows, Redis drops entries, and asynq
delivers tasks at least once.

### What is hard

- **Interleavings.** Two pushes can write the row in one order and Redis (or
  `tracking_logs`) in the other.  A reader that missed the cache fills it with
  a row that was replaced in the meantime.  `auto_sign` comes between the calls
  of a push.  A retry replays a body that newer pushes have replaced.  After a
  timeout two goroutines write one response.
- **Failures.** A Redis error is only logged; a failed `tracking_logs` update is
  logged and the push answered 200; a statement may take effect and the
  request still be answered 500; a killed service or worker leaves the calls it
  had not made unmade; a handler may panic or hang under the timeout.
- **Ordering.** Nothing orders pushes; events may be reported late; the status of
  a parcel comes from the last event and its times from the first that match.
  A signal may come while the worker is still starting.
- **Vocabularies.** A status passes through a string, an int32 column, a
  package state, a letter, two texts and a `track_status`, by six tables.
- **Boundaries.** Padding of 0, 16 or 17 bytes, a share of 0 or 100 percent, a
  batch shorter than its limit, a status that is a numeral in another spelling or beyond int32.

The full list is under `hazards` in `PROJECT.json`, each at its line.

### What makes each part correct

- Store: only what an upsert ran with for a number is ever cached or served for
  it; until the row is signed, only what the row has held; a signed row never
  changes; a push is told 200 only when its upsert was executed; caches converge once pushes
  cease; requests end.
- `tracking_logs`: a synced row is the image of one push, never a mixture.
- Retry queue: all of that with retries between the calls of the requests; a task leaves
  the queue for good only when its body was executed; every task ends.
- Formatter and mapping: the detail, the status column and the two query answers
  tell the same story of every status the tables know; a delivered parcel has the time of a delivery event.
- Event pipeline: the latest event by time decides, however the events came.
- Timeout: every request is answered once and for good; an answer that is not a timeout is
  the handler's, whole and alone; what is left behind belongs to a request that timed out.
- Worker: it ends when told to, and never with a task in hand.
- Switch, decryption, batches: a wider rollout takes nothing back; a share is the share
  it promises; what was padded opens and nothing else does; batches keep their order and heed the
  caller's limit.

## 2. Modules

```
TrackingRegister        what the store promises (abstract)
      ^ implements          ^ implements
TrackingStore <----------- RetryQueue        (the worker beside the service)
   |  ^ extends                ^ extends
   |  TrackingStoreProofs <- RetryQueueProofs, AtRestProofs
   v extends
StatusMapping <- TrackFormat <- PushFeed <- PushFeedProofs
MCTrackingStore = TrackingStore + TrackFormat: bodies are formatted pushes

EventPipeline     <- EventPipelineProofs       (nothing calls it at this commit)
OneAnswer               what a client may rely on (abstract)
      ^ implements
TimeoutMiddleware <- TimeoutMiddlewareProofs
WorkerProcess     <- WorkerProcessProofs
GrayScale, Decryption, BatchQuery <- InputCalls <- InputCallsProofs
```

Each specification has an `MC` module that names the values of its constants, and
one `.cfg` for each run.

### StatusMapping
The tables of `status_mapper.go` and `node_code_mapper.go`, `Atoi`/`Itoa` between
the string and the int32 column, `MapTrackStatus`, and the two renderings of the
query endpoints.  The node table is cut to one node code for each group of
rows that share a status; codes outside it get the default, as in the code.
`StatusString` is every code of the tables, two numerals outside them (`"55"`, `"-1"`), numerals
in another spelling (`OtherNumber`: leading zeros, a sign, one that int32 truncates to a code, one
out of `Atoi`'s range) and two strings `Atoi` rejects.  `Atoi` is the whole conversion to the column: what
`strconv.Atoi` returns, its error dropped, as an int32.

### TrackFormat
Pure operators: `convertTisToWebhook`, `extractTimestamps`,
`convertWebhookRequestToMap`, `Format`, and the answers of the public and the admin
query.  Fields that are copied unread (addresses, carrier, weights, URLs) are left
out; times are numbers, 0 an empty or unparsable `process_time`.

### PushFeed
The carrier's side: a list of events that grows at its end or by late events
filed among earlier ones, and an OMS status code.  (`package_status` is one value:
`mapPackageState` converts it and `Format` then computes the package state from the
status, so it has no effect.)  Every state
is one TIS push and one OMS webhook; the properties look at what the formatter
makes of them and at how that changes from one version of the feed to the next.

### EventPipeline
The stages of `event_*.go`, `field_mapper.go` and the batch form of the customs fixer, on events
that are functions from field names to values, with both spellings of a field, nulls,
blank, padded and unreadable values.  Nothing calls the stages at this commit: the actions `Map`, `Fix`,
`Filter`, `Sort`, `Mark` apply them in the order of the Ruby formatter they are ported from,
and `Sort` picks any ascending list, as `sort.Slice` is not stable.  `EventsTraced` says of every
stage which events of the push are left and what each has become.

### TrackingStore
A process is a request.  `pc` names its next call, so that each call to the
database or to Redis is one step:

| `pc` | call | code |
|---|---|---|
| `idle` | none: `Webhook`, `TisPush`, `PublicQuery`, `AdminGetTracking`, `GetTracking` or a rejection starts a request | handlers, logic |
| `upsert` | `INSERT ... ON CONFLICT DO UPDATE ... WHERE auto_delivered_at IS NULL` | `tracking_repo_impl.go:34-61` |
| `cache` | `TrackingCache.Set` in `Save`, whatever the statement did with the row | `:69-76` |
| `map` | `MapTrackStatus`, with the overseas query when the status asks for it | `tracking_log_service.go` |
| `sync` | `UPDATE tracking_logs` | `tracking_repo_impl.go`, `SyncTrackingLog` |
| `find` | `FindByTrackingNumber` after a cache miss | logic/public, logic/admin |
| `fill` | `TrackingCache.Set` and the answer | logic/public, logic/admin |

The first call of a query (`ReadCache`) is the step that starts it, and
`GetTracking` makes only one call, so it is one step.

| Variable | Stands for |
|---|---|
| `detail`, `last_detail`, `auto_delivered` | the row of each number; `auto_delivered` is `auto_delivered_at IS NOT NULL` |
| `cache` | the Redis entry |
| `log`, `overseas` | the `tracking_logs` row, the overseas package row |
| `pc`, `kind`, `num`, `held`, `ts` | program counter, route and locals of a request |
| `answer` | the code the last step answered with, 0 if it answered none |
| `executed`, `accepted`, `served` | history: bodies an upsert ran with, bodies the row held, bodies readers were given |

Faults are steps that may always happen when `Faults` names them: `UpsertError` (with or
without effect on the row), a failed query or update (`db`), a failed Redis
command (`redis`), `Crash` of the whole service (`crash`).  The environment is `AutoSign`,
`CreateLog`, `RegisterOverseas`, `Expire`.

A body is a record `[detail, status, times]`.  The module looks only at `status` and
`times`; `MCTrackingStore` makes the bodies with `FormatTis` and `FormatWebhook`.

Two details that are easy to overlook are kept.  The empty waybill number is a number
like any other for `Save` (`webhook_logic.go:69` does not check it), is refused by
`SyncTrackingLog` and by the cached queries, and cannot be asked for by the path
parameter of the uncached one.  And `FindByTrackingNumber` returns gorm's
`ErrRecordNotFound` for a missing row, so the uncached query answers 50003 for it.

### TrackingRegister
Per number: a current detail, a backup, whether it is sealed, what was
published, what readers were told.  Five lines of actions, no requests, no
Redis, no faults.  `ImplementsRegister` maps the store's row and history to it, and the
store with the worker beside it implements it by the same mapping.

### RetryQueue
Extends TrackingStore by the worker: every step of the service, or one of a task.

| `queue[t]` | the task |
|---|---|
| `none` | is not in the queue; `Enqueue` puts it there |
| `pending` | waits for its first or next attempt; `ProcessTask` takes it |
| `upsert`, `cache` | is at one of `Save`'s two calls: `RetryUpsert` or `RetryUpsertError`, `RetryCacheSet` |
| `ack` | the handler returned nil; `Complete` takes it off the queue |
| `archived` | used up its retries |

`tnum`, `tbody` are its payload (`NoBody` one that cannot be unmarshalled), `retried` the
retries used up.  What asynq does with a task is external: an error or a dead
worker (`KillWorker`) costs a retry, a graceful shutdown (`ShutdownWorker`) does not.
Nothing under `src/` enqueues a task yet, so any number and any body may be enqueued; the delays
of `retry_task.go` are not passed to asynq and are not modelled.

### TimeoutMiddleware
For each request the place of its own goroutine (`waiter`), of the one the handler runs in
(`handler`), whether the context `expired`, whether the handler `panicked`, and the
response: `head`, who wrote the status line, and `body`, whose texts are in it.  `down` is
the Go runtime's end of the service on a concurrent map write, one of the outcomes
of two goroutines that use the header map (`ConcurrentMapWrites`).  `Guarded` requests have
`RecoveryMiddleware` inside the timeout; the panics of others are swallowed by `GoSafe`
and the waiter is not told.  The wrapped handler is any: it writes, then panics,
hangs or returns.

### OneAnswer
For each request the answer its client has: nobody's yet, or for good one of those that the
handler (with `RecoveryMiddleware` below it, where it is guarded) makes alone, or one with the text
of the timeout in it.  No goroutines, no contexts.  `ImplementsOneAnswer` maps a response to it: nothing until the waiter
returned, then `head` and `body`.

### WorkerProcess
`run`, `stop` and `sig` are the goroutine of `asynqServer.Run`, the one that shuts the
server down when the context is cancelled, and the one that cancels it on a signal.
`Run` registers for the signals by itself; `notified` and `pending` say which of the two is
registered and has one waiting.  A signal sent before anybody is registered kills the process.
The library's part (`Run`, `Shutdown`, the processor) is external and is cut
to the order of its steps.  `main.go:47` registers a handler that is not in the tree; the
model has nothing of it.

### GrayScale, Decryption, BatchQuery, InputCalls
Functions of a request alone, as operators: the switch and its hash over the code
points of a number, the checks and the PKCS7 padding of `DecryptPayload` (AES itself
is external: a payload carries what CBC makes of it), and the two batch limits with
Go's reslicing into spare capacity.  `InputCalls` makes one call after the other.

### Proof modules
TrackingStoreProofs, AtRestProofs, RetryQueueProofs, PushFeedProofs, EventPipelineProofs,
TimeoutMiddlewareProofs, InputCallsProofs and WorkerProcessProofs hold the theorems of section 6.

### Operators named as wrong versions
Next to a definition there may be one commented "wrong version": the definition with
a mistake somebody could make (no `WHERE` clause, a dropped error, the
last event for the first).  No specification uses them.  Put in place of
the definition, each makes one property fail under its run, which shows
that the run would notice; `PROJECT.json` pairs them under `mutants`.

## 3. Runs

| Run | Instance | Shows |
|---|---|---|
| `store_faults` | 2 requests, 1 number, an OMS and two TIS pushes, all faults | the safety properties, `IInv` (with `TypeOK`), `SignedRowFrozen`, `AckedPushExecuted`, that only writers part Redis from the row (`CoherenceLasts`), and that the store implements the register |
| `store_atrest` | 1 request, no faults, one OMS and two TIS bodies | between requests Redis and `tracking_logs` follow the unsigned row |
| `store_empty` | 2 requests on the empty number, all faults | nothing of it reaches a reader or a log row |
| `store_liveness` | 2 requests, Redis faults and crashes, under `FairSpec` | requests end; Redis converges after the last push (database faults only shorten requests and are left to `store_faults`) |
| `retry` | 1 request, 1 task, 1 number, 2 bodies, 1 retry, all faults, under `RFairSpec` | `RInv`, and the store implements the register with old bodies replayed; no task is lost or circulates forever, each step brings one nearer to its end; Redis converges |
| `feed` | event lists of up to 3 of 6 node codes and 3 times, all of `StatusString` | the formatter's properties |
| `pipeline` | lists of up to 3 of 10 raw events, every order of equal times | no stage loses, invents, doubles or mixes up events; the latest time and status are those of the latest complete event; filter and sort agree on times; deliveries are marked |
| `timeout` | 2 requests, one of them guarded, under `FairSpec` | `MInv`, who may be left behind, that each request is answered once and for good (`ImplementsOneAnswer`), and that it is answered at all |
| `inputs` | 72 configurations, payloads with every right and wrong padding that differs, batches of up to 4 with limit 3 | rollout, padding and batch limits |
| `refused_served`, `batch`, `worker_hang` | see section 4 | where the code does not do what it says |

Why the bounds are enough.  Every hazard of the store is between two
requests, or a request and one environment step, on one number: numbers share
nothing, and a third request adds no step that a second cannot make, as the
second may start anew any number of times.  The theorems of section 6 remove
the bound for the safety properties anyway.  Two bodies suffice to tell the body a row holds
from another.  In `store_faults` they are those of two TIS pushes that differ in status and in times, so
that a `tracking_logs` row could mix them; the OMS push, a customs inspection, brings the same body as the
first of them, which keeps the run within minutes.  In `store_atrest` the OMS body is a third.  Nothing
in the store counts, so no counter is capped.  A feed of three events has room for
a late event between two others and for an equal node on both sides of it; the
node codes are one of each status plus the two short ones, and three times include the
unusable one.  In `store_liveness` and `retry` bodies are labels: no step looks into a detail.

In `retry` one task and one request already replay an old body after a newer one, before
and after `auto_sign`; a task may be enqueued anew any number of times.  `MaxRetry = 1`
has a first attempt, a retry and the archive.  A webhook's steps are the ones a retry can meet
in the row and in Redis; a retry never touches `tracking_logs`.

In `timeout` requests meet only in `down`, so two of them, one of each kind, are every kind of
meeting.  In `worker_hang` one signal suffices; the theorem on the worker has any number.

In `inputs` `AdminMax` and `PublicMax` are 3, so that batches below, at and above the limit are
short; padded texts have 0, 1, 2, 14 to 17, 31 and 32 bytes, and one of their last 16 bytes is changed
to values around the block size; the numbers are pairs of code points, and percentages are the
steps of the rollout, the values around its ends and two no configuration should have (-1 and 150).

In `pipeline` one raw event stands for each way a field can be present: three of them give
every pair of equal times a third event before or after.

`AtRestCoherent` and `AtRestLogFollowsRow` hold only without concurrency and faults: with
either, the code may show an older body until the entry expires.  They say that the
sequential code is right; `UnsignedShownWasStored` and `EventuallyCoherent` say
what is left of it otherwise.

`AtRestLogFollowsRow` speaks of rows whose body only TIS pushes produce,
since the OMS webhook does not write `tracking_logs` at all.

`ViewsAgree` leaves out numerals that are no status code (`"55"`): the public query
reads them as NotFound and the admin query as InTransit, and no document says
which is meant.  It leaves out codes in another spelling for the same reason, and
`ColumnMatchesDetail` says of these that only an OMS push can bring them and what the detail
then says (section 4).

`CHECK_DEADLOCK FALSE` stands where the system really stops: every request of `timeout` has
been answered, or the worker has ended.

## 4. Where the code does not do what it says

Each of these runs checks one sentence of a comment or document as a property and TLC shows
an execution of the code that violates it; `findings` quotes the sentences.

| Run | Said | Done |
|---|---|---|
| `refused_served` | a signed record is not overwritten; Redis is written after a successful upsert | a push the `WHERE` clause refused raises no error and is cached and served |
| `batch` | `limit` bounds how many numbers are returned, 100 by default | a batch shorter than its limit panics, or is answered with blank numbers where the slice has spare capacity |
| `worker_hang` | a signal cancels the group and shuts the worker down | a signal during the start reaches only one of the two goroutines that wait for it; the other waits for good |

Divergences without a run of their own, each to be read off the lines:

- **A refused push overwrites `tracking_logs`.** `TisPush` syncs after `Save` whatever the row did
  with the body (`tis_push_logic.go:92`); `README.md:245` and
  `tracking_repo_impl.go:36` say that a signed record is not overwritten.
- **The OMS webhook never writes back.** `webhook_logic.go:75` ends after `Save`;
  `COMPATIBILITY_TEST.md:215,221` expects `tracking_logs` to follow it.
- **A missing row is a database error.** `FindByTrackingNumber` returns gorm's
  `ErrRecordNotFound`, so `get_tracking_logic.go` answers 50003 and its branch for
  a nil row (`:41-42`) is dead.
- **Other spellings of a status.**  The webhook does not check `TrackingStatus`.  The tables know a code by
  its spelling, the column by the number `strconv.Atoi` makes of it and `int32(...)` truncates
  (`webhook_logic.go:63,71`): of `"050"`, `"+50"` or `"4294967346"` the detail and the public query say
  NotFound, the column says 50 and the admin query Delivered; `"080"` is not taken for the customs
  inspection it is.  The column may hold any int32, -1 included, though `database.sql:61` and
  `app/app.api:55` say 0 to 1001.
- **Short node codes.** The table of `node_code_mapper.go:41` has neither `MD/TT` nor `XD/ZC`, so
  both become 20, though `extractTimestamps` knows them and
  `docs/REFACTOR_PLAN.md:1088,1090` gives them 50 and 10.
- **Order of the stored list.** It is the push's own (`formatter.go:76`); `README.md:288` says newest
  first.
- **A push stored by a retry never syncs `tracking_logs`.** The handler ends with `Save`
  (`retry_handler.go:73`); the sync of the attempt that failed was never reached.
- **Three limits of retries.** `retry_task.go:21` says 5 (with four delays), the comment at
  `retry_handler.go:69` says 3, and neither is passed to asynq (`queue_config.go:34-50`), whose own
  default applies.  `MaxRetry` is therefore a parameter.
- **`package_status` is converted and then ignored** (`tis_push_logic.go:289`): `Format` computes the package
  state from the status of the last event.

## 5. Fairness

`FairSpec` of the store assumes only

- `WF(Serving(p))`: a goroutine with a request is scheduled, and each call it makes
  returns, with an error at the latest when the request's context ends.  Every handler
  passes that context to gorm and to Redis;
- `WF(Expire(n))`: Redis drops an entry when its time to live is over.  `Set` gives
  every entry one and `Get` never renews it.

No fairness is assumed of arrivals, of faults or of crashes.  `EventuallyCoherent` has the
assumption that pushes cease as its premise; readers may go on forever.

`RFairSpec` adds `WF(Working(t))`, a worker that is up takes a pending task when its delay is over
and its calls return, and that the worker is not shut down gracefully over and over for ever, as
such a shutdown puts a task back for free.  Killing it is bounded by nothing: each time costs the
task a retry.

`FairSpec` of the middleware: a goroutine that can run does (`Handler`, `Waiter`), and the timer of a
context fires (`Expire`).  Nothing is assumed of the handler's own ending: it may hang, which
disables its other steps, or panic.

`FairSpec` of the worker: its three goroutines and `main` are scheduled.  No fairness of signals or
tasks; `worker_hang` has its counterexample under this.

## 6. What is proved

| Module | Theorem | Says |
|---|---|---|
| TrackingStoreProofs | `Invariant`, `TypeCorrect` | `Spec => []IInv`, `Spec => []TypeOK` |
| | `ShownWasExecutedCorrect` | what Redis holds and readers were given, an upsert ran with |
| | `UnsignedShownWasStoredCorrect` | until the row is signed, the row has held it |
| | `LogIsOnePushCorrect` | a synced `tracking_logs` row is the image of one push |
| | `EmptyNumberStaysInsideCorrect` | nothing of the empty number is read or synced |
| | `SignedRowFrozenCorrect` | no step changes a signed row |
| | `AckedPushExecutedCorrect` | a push is answered 200 only with its body run through an upsert |
| | `CoherenceLastsCorrect` | only a step that stores a body for a number parts Redis from its row |
| | `RequestAdvancesCorrect` | every call brings its request nearer to its end, four calls at most |
| | `Refinement` | `Spec => ImplementsRegister` |
| AtRestProofs | `AtRestCoherentCorrect`, `AtRestLogFollowsRowCorrect` | with one request at a time and no faults, Redis and `tracking_logs` follow the unsigned row |
| RetryQueueProofs | `RetryInvariant` | service and worker together keep `IInv`, and the invariant of the tasks |
| | `TaskLeavesExecutedCorrect` | no task leaves the queue for good unexecuted |
| | `RetryKeepsPromises` | every safety invariant of the store, with the worker beside the service |
| | `RetrySignedRowFrozen`, `RetryAckedPushExecuted`, `RetryRefinement` | the same of the frozen row, of the answer 200 and of the register |
| | `CoherenceLastsForAllCorrect` | the worker parts Redis from the row only by storing a body |
| | `TaskAdvancesCorrect` | a task has at most 4 (`MaxRetry` + 1) steps, failures and killed workers included, graceful shutdowns apart |
| TimeoutMiddlewareProofs | `MiddlewareInvariant` | `Spec => []MInv` |
| | `NormalAnswerIsHandlersCorrect`, `LostPanicTimesOutCorrect`, `StrayHandlerOnlyAfterExpiryCorrect`, `TimeoutIsToldCorrect` | the four safety properties of the responses |
| | `OneAnswerRefinement` | `Spec => ImplementsOneAnswer` |
| PushFeedProofs | `FeedTypeCorrect`, `ColumnMatchesDetailCorrect`, `ViewsAgreeCorrect`, `PublicShowsFeedCorrect`, `DeliveredHasItsTimeCorrect`, `TimesAreStableCorrect` | every property of `feed`, for any node codes and feeds of any length |
| EventPipelineProofs | `EventsTracedCorrect` | after every stage the list is the events sent, each once, changed by its own fields alone |
| | `PipelineTypeCorrect`, `PlacedByItsTimeCorrect`, `LatestOfThePushCorrect`, `DeliveriesMarkedCorrect` | the other properties of `pipeline`, for pushes of any length, any words and any clock |
| InputCallsProofs | `OpensWhatWasPaddedCorrect` | decryption opens what was padded and nothing else, for payloads of any length |
| | `RolloutIsMonotoneCorrect`, `RolloutShareCorrect` | a wider rollout takes nothing back; the share of the numbers with a common beginning is the percentage, for numbers of any length |
| | `BatchInOrderCorrect` | batches keep their order; the admin one answers as many numbers as the caller's limit and `AdminMax` allow |
| WorkerProcessProofs | `DrainedBeforeExitCorrect` | the worker never ends by itself with a task in hand, for any number of signals |
| | `EndsOnlyWhenToldCorrect` | nor without a signal, nor before its context is cancelled and its server closed |

Assumptions, all named where their constants are declared: there is a number; `NoBody` is not a body;
`Faults` names known faults; `MaxRetry`, `MaxTime` and `MaxEvents` are natural numbers; `Guarded` are requests;
a payload's plaintext is bytes, as long as its blocks; code points are natural numbers and percentages
integers; limits of batches are natural numbers; times of the event pipeline come after Go's zero time, and a
value that is no string is neither a time nor one of the statuses (`WordAssumption`).  Nothing is assumed of
bodies but that they are values, nor of node codes.

**The store's inductive invariant.**  None of the properties is inductive by itself.
`ShownWasExecuted` says nothing of a request that is about to write Redis: from an
unreachable state with a request at `cache` holding an arbitrary body, one step
violates it.  `RequestInv` adds that, saying what a request may rely on between two of its
calls: at `cache`, `map`, `sync` and `fill` its body was run through an upsert of
its number or read from its row.  For the read, `RowInv` is needed: a row holds
only executed bodies; and, for `UnsignedShownWasStored`, an unsigned row has accepted
all that was executed.  `LogIsOnePush` needs that the `track_status` computed at `map` is
still possible at `sync`, though the number may become an overseas package in between: statuses
only gain possibilities, as `overseas` only grows.  `EmptyNumberStaysInside` needs that a
request at `find` or `fill` does not ask for the empty number.

A request is changed by its own steps only; `RequestKept` carries the invariant
of every other request over a step because `executed` and `overseas` only
grow.  There is one lemma per action (or per group of actions that write the same
variables), a lemma that combines them into the step, and PTL for the
temporal conclusion.  The store's steps are classified once (`RowSteps`): a step changes no row,
or is one upsert, or is one `AutoSign`; the refinement and the frozen row follow from it.

**Coherence.**  `EventuallyCoherent` has a half that needs no fairness: what agrees stays so.  `Settled` says of a
number that Redis has the row's detail or nothing and that every body on its way to Redis is the row's; any step
but one that stores a body for the number leaves the entry, drops it or brings the row's detail (`Undisturbed`).
It holds for a late fill because `FindRow` took what it holds from the row, and the row has not changed since, or
the number would not be settled.  With the worker, `SettledForAll` adds the bodies of the tasks.

**Progress.**  `CallsLeft` and `StepsLeft` are natural numbers that the steps of a request and of a task decrease and
nobody else increases, so that `RequestsEnd` and `TasksEnd` lack only fairness.  A failed attempt goes back to
`pending` with one retry less, which weighs as much as the four places of an attempt.

**At rest** (`AtRestInv`, under the hypothesis `Sequential`: one process, no faults).  Between its calls the one
request carries the body of the unsigned row (`Current`), so that Redis and the log row follow the row or the request
is still on its way to them (`Cached`, `Logged`).  A webhook that ends at Redis leaves a row that is not a
TIS push's.

**The queue** (`RInv`) keeps `IInv` and adds for each task that an attempt has a body, that past `Save`'s
statement this body was executed for its number, and that only a task without retries left is archived.  The
lemmas on the store's upsert and cache write are cited again: a worker's `Save` is the same
statement, made by no request.

**The middleware** (`MInv`) needs `Alone`: while the waiter has not given up, the response holds exactly
what the handler has written so far, and nobody gives up before the context ended.  It is stated for each
request, so that one step's lemma is about the request that moves (`StepOfOne`).  The refinement needs `Authors`
besides: a status line comes before any text of the same writer, and `RecoveryMiddleware` writes only after a
panic it guards against.  A step then is a return of one waiter, which answers its request with what `Alone` and
`Authors` say it holds (`DoneAnswers`, `ErrorAnswers`), or `Quiet`: what a client has received stays, because
nothing written after the return reaches it.

**The feed.**  `FeedInv` is only the type of feed and status; the work is in lemmas on the operators: each
node has a status of the table, a status spelt as `strconv.Itoa` does survives its way into the column and
back (`ItoaAtoi`), one that is no numeral keeps its package state (`ColumnKeepsState`), another spelling has
none (`OtherIsNotFound`), what
`extractTimestamps` finds is the time of the first event at a node.  The first of finitely many indices
exists because sets of indices are well-founded by strict inclusion (`LeastIndex`): a cited fact of the
library, where an induction theorem would have to be instantiated.

**The event pipeline.**  The invariant `EventsTraced` (with bounds, `PInv`) is stronger than the other properties and inductive: it is
a bijection from the places of the list to the events of the push that remain, and each event is what the
stages so far make of it alone (`Carried`).  Mapping, fixing and marking keep the bijection; sorting composes it with a
permutation; the filter composes it with the one that numbers the valid events by their rank (`RankBijects`).
The hard part is that `isValidEvent` on the mapped and fixed event agrees with `Complete` on the raw one: the
two look at different names of the fields (`MappedEvent`, `Readers`, `FixedFacts`).  The other theorems then are about one
event at a time; `DeliveriesMarked` counts by restricting the bijection (`BijectionOfSubset`).

**The switch.**  The hash is a function recursive over the places of the number, so that there is something to prove:
such a function exists (`HashesExist`) and is the only one (`HashesAgree`), both by the least length that would fail, a
set being well-founded (`LengthInduction`).  Appending a code point shifts the remainder, and shifting permutes the
hundred remainders (`HashOfLonger`, `EndingsShare`): hence exactly the percentage, for whatever number comes before.

**Padding.**  `pkcs7Pad` has one preimage of each length and the last byte gives the length, so that the two directions of
`OpensWhatWasPadded` are separate lemmas (`PaddedOpens`, `OpenedWasPadded`).

**The worker** (`WInv`): a busy processor has a server that is up, or a goroutine that is waiting for it to
drain; one that lost the race returns at once, but `main` waits for both.

## 7. What is only model-checked, and what is not modelled

Every invariant, action property and refinement of the passing runs is a theorem.  Some theorems state
what no run lists: another property of the run contains it (`TypeOK` in `IInv`; `NormalAnswerIsHandlers` and
`TimeoutIsTold` in `MInv`), or the theorem alone is kept (`RequestAdvances`, `CoherenceLastsForAll`, the worker's
versions of `SignedRowFrozen` and `AckedPushExecuted`).  Only checked by TLC: liveness under
fairness, which is out of the prover's reach (`RequestsEnd`, `EventuallyCoherent`, `TasksEnd`,
`CoherentAfterRetries`, `RequestsReturn`, `HandlersEnd`; for the first four section 6 has the part that needs no
fairness), and the three runs of section 4, each of which shows one execution.

Abstractions:

- One statement or Redis command is atomic; PostgreSQL runs single statements, so
  no isolation level matters.  One command to Redis may fail or take effect; a `Set`
  that takes effect and reports failure is covered, as the outcome is ignored.
- A signature or a parse is an outcome (`RejectWebhook`, `RejectTisPush`), not computed; the
  same holds of AES.
- The 500 for a stored detail that cannot be read is left out: the column is JSONB, and
  only `Save` and Ruby write it.
- `id`, `created_at` and other columns no operation reads are left out.
- The history variables are not part of the program; no guard reads them.
- The middleware's handler writes once; a handler that streams would add only more of its own text.

Not modelled:

- Ruby's own fetching: `Pull` and `sync!` (`COMPATIBILITY_TEST.md:183-202`, `docs/ruby_cache_rules.md`) also
  write `detail`, `last_detail` and the status of unsigned rows and their `tracking_logs` rows.  Of Ruby the
  model has `AutoSign`, `CreateLog` and `RegisterOverseas` only, so everything it says of an unsigned row
  is said of a parcel that only Go and `auto_sign` write.
- The error return of `asynqServer.Run` (`app/cmd/worker/main.go:65`, then `os.Exit(1)` at `:90` without a signal):
  `Start` fails for a nil handler or a server started before, and this one is fresh.
- `SaveWithTrackingLogId`, `Delete`, `BatchGet`, `BatchSet` and `Stats` have no caller at this commit.
- The tracking log repository and the webhook request log: single statements, and no
  handler calls them.  The second repeats no logic of the first; a two-phase log would be a model of
  a caller that does not exist.
- The event dispatcher: nothing creates one, and the only listener logs.  `Register` appends under the
  lock and `Dispatch` calls a snapshot of the list.
- CORS, logging and request ids of the middleware set headers and keep no state.
- The extraction of a push's own fields and the receive patterns of the event pipeline, `MapPackageStatus`
  and the node labels have no caller.
- Configuration, wiring, health, contracts and the scripts keep no state that changes or
  have no logic a model would add to.

## 8. Plan

Done: all modules of section 2, and theorems for all of their safety properties.

Left, in this order, should the code come to need it:

1. **WebhookRequestLog**, once a handler calls it: the two phases, the idempotency key, a crash between them;
   abstract specification: at most one outcome per request.
2. **EventDispatcher**, once something dispatches: `Register` against `Dispatch` under the RWMutex,
   recovered panics, a listener that registers another.
3. **Enqueue** of a retry by the service, once it does: a guard for `Enqueue` instead of any task, and
   the answer the failed push gets.
4. **Progress of the middleware's goroutines**: the counterpart of `RequestAdvances` for `RequestsReturn` and `HandlersEnd`.
