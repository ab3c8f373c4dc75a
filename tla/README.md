# A verification development of disaster-alert

disaster-alert receives earthquake reports over a websocket, merges them into
incidents, matches them against subscriptions and pushes alerts to Bark
devices. It is a tokio program over a Fjall key-value store: every hand-over
between its parts is a durable keyspace, and the queues in memory are hints.
This directory holds TLA+ models of that pipeline, TLC runs of small instances,
and proofs for all instances. Line numbers in `PROJECT.json` point into `src/src`.

## 1. Inventory

### The pipeline

```
Wolfx websocket -> inbox -> event coordinator -> incidents, events, match_jobs
   -> match engine -> delivery_batches, delivery_by_destination
   -> delivery engine -> Bark -> ledger | retries | dead_letters
                                  ^---- retry engine ----'
   countdown engine: a push per second until the S wave arrives
   confirmation service: a subscription becomes active once Bark accepted its test
   lifecycle: phased shutdown;   start: open -> prune -> recover -> run
```

| Component | State | Operations | Talks to |
| --- | --- | --- | --- |
| Provider (`providers/`) | connection, back-off delay | connect, read, pong, submit, back off | submits to the inbox, awaits its commit |
| Event coordinator (`events/`, `models/incident.rs`) | `inbox`, `incidents`, `incident_aliases`, `incident_correlation`, `events`, `match_jobs`, `rejected_inbox` | process one inbox item: resolve, reduce, store, discard, quarantine or make a match job | `match_lock`; hints to the match engine |
| Match engine (`pipeline.rs`, `matching/`) | the job in hand | match, commit batches | reads postings or the ledger; `match_lock` at its commit |
| Delivery engine | active batches, lanes, a lock per destination | lane: lock, head check, push, commit | shares the locks, `delivery_by_destination` and `retries` with the retry engine |
| Retry engine | scan position, active tasks | scan, spawn, reload, push, reschedule, complete, dead-letter | as above |
| Countdown engine | command channel, one task per (incident, destination, target) | schedule, cancel, tick | the destination locks |
| Confirmation service | leases in `meta` | begin, lease, renew, activate, reschedule, abandon | `subscription_lock`, Bark permits |
| Subscription store | records, postings, generation | upsert, deactivate; import, in benchmark builds | `subscription_lock`; read by matching and delivery without a lock |
| Lifecycle (`lifecycle.rs`, `application.rs`) | four join handles, phase, deadlines, signals | drain ingress, close, drain the runtime, abort and reap, flush | everything above |
| HTTP routes (`routes/`) | four semaphores | admit, run a blocking operation, answer, be dropped | the store, the confirmation service |
| Reverse geocoder | a cache, a lock per coordinate, the Nominatim slot | lock, look up, ask two providers, store | Amap, Nominatim |
| Event list | none: the cursor is the client's | one page after a cursor | `incidents` |
| Notification contexts (`delivery/context.rs`) | `contexts` | prepare, store and sync, verify, prune | delivery, retry, simulation; the detail page |
| Bark client (`delivery/bark.rs`) | permits | fit a payload, post, classify the answer | delivery, retry, countdown, confirmation |
| Simulation tool | none | resolve keys, dispatch one push after the other | contexts, Bark |
| Configuration, source tables, formulas, status counters | static | read, compute | all |

### What is hard, and what correctness means

* **Delivery and retry** are two engines over the same keyspaces, with one lock
  per destination. Correct: one push at a time and in order per destination, no
  row lost, retired twice or retried for ever, and the five keyspaces agree after
  every commit, also across a crash between Bark's answer and the commit.
* **Incidents** outlive the reports that made them and are removed by three
  actors (coordinator, match engine, startup prune). Correct: no dangling alias,
  correlation entry or job, and nothing in progress loses its snapshot.
* **Watermarks** decide on late and repeated reports. Correct: a cancellation
  holds, and repetition does not alert twice.
* **Confirmation** waits for Bark under a lease that may lapse, while newer
  requests, deletions and the background worker change the same record. Correct:
  one attempt decides a request, the request stored last wins, an unsubscribed
  one never comes back, pushes are bounded, and every request is decided.
* **Countdowns** run beside the deliveries that start and stop them through a
  bounded channel. Correct: the engine knows each one that runs, a newer alert
  calls it off, it ticks at most once after it was called off, and neither the
  full channel nor the lock holds a delivery or a countdown up for ever.
* **Postings and matching**: a match job reads the posting bitmaps, then the
  compiled subscriptions, without a lock, while subscriptions change in batches
  that read the bitmaps they also write. Correct: the index is exact after every
  batch, every subscription that was left alone gets the row the reference matcher
  gives it, and a row of one that changed is found out by its generation.
* **Lifecycle**: tasks end, fail or hang in any phase, a signal may come twice, each
  drain has its own deadline, and every engine decides to stop from two reads.
  Correct: no handle is polled after it gave its result, a clean exit leaves nothing
  in flight or unsynced, a shutdown ends, and each accepted report is handled by
  this process or the next.
* **Routes**: a client may hang up at any await, which drops the handler but not its
  blocking operation. Correct: permits cover the work that runs and come back.
* **Geocoder, links, event list**: cancelled lookups, a link that is pushed before a
  crash, pages of a list that moves. Correct: one lookup per coordinate, a link that
  reached a device opens, a page shows nothing twice.
* **Provider and Bark**: a biased `select!` that prefers the feed to the shutdown; a
  payload that is cut by bisection, where lengths are bytes of escaped JSON. Correct:
  the provider ends, a payload fits and is cut no more than needed.

`PROJECT.json` lists every component with its status and every hazard at its line.

## 2. Plan

1. `Delivery`, its abstract `DeliveryOutbox`, and their proofs. **Done.**
2. `Watermark` and `IncidentStream`. **Done.**
3. `Incidents` (inbox to match output, and the prune), on `Watermark`, and its
   proofs. **Done.**
4. `Confirmation`, its abstract `SubscriptionRegistry`, and their proofs. **Done.**
5. `Countdown`: commands in a bounded channel, tasks, the alert that precedes
   them; a countdown never outlives its cancellation by more than a tick. **Done**,
   with its proofs.
6. `Matching` (validation, compiler, posting keys, matcher and reference matcher as
   operators) and `Subscriptions` (the store and its postings under a running
   match). **Done.**
7. `Lifecycle`: the stop of the engines one after the other, with deadlines. **Done.**
8. The edges: `Requests`, `Geocoder`, `Links`, `Provider`, `Listing`, `Bark`. **Done.**
9. `Delivery` composed with `Incidents`, for cancellations of undelivered alerts.
10. Proofs for 2 and 7. **Done.**
11. Proofs for 6 (`StoreConsistent`, `PostingsExact`, `GenerationNamesContent`) and for
    `Requests`, `Geocoder`, `Links`, `Listing` and `Bark` of 8. **Done.**
12. Proofs about a match (`CriticalWins`, `MatchedExactly`), which need the matcher's
    fold over the targets as a recursive function first.

## 3. Modules

### Delivery (`src/runtime/pipeline.rs`, `src/storage/fjall.rs`)

The durable variables are the keyspaces: `pending` and `retained` are the two
halves of `delivery_batches`, `progress` is `delivery_progress`, `index` is
`delivery_by_destination`, `retries` stands for `retries` with its two indexes,
and `ledger` has the revision last delivered per destination. Volatile are the
lane phases, the locks, the snapshot and result of the retry scan, and the retry
tasks; `Restart` resets exactly those.

An action is what runs between two awaits that another task can observe: a lane
acquires the lock and checks its head, checks ledger and generation, pushes, and
commits; a retry task likewise; the scan takes its index snapshot, reads the
retries one by one, and spawns. A storage commit is one Fjall batch and one
action. `ReadRetryFails` is the scan's own error, which ends the process.

`KeyspacesAgree` joins what a commit must keep true of the five keyspaces: the
index, the batch records, the rows of a batch and the retries.

A row that is not skipped ends in one of five ways. Three are answers to a request:
sent, refused for now, refused for good (`LanePush`, `PushRetry`). Two leave Bark
unasked (`LaneFails`, `RetryFails`): `failed`, where the store, the timing, the link or the
push slot fails and the row is retried, and `refused`, where a target or a rule is missing,
the URL is not allowed or the payload cannot fit, and the row goes to `dead_letters` at
once. `pushes` counts requests only. A row may thus be dead without a request, at once or
after failed retries.

Abstractions: a lane has one row, as a job has one row per destination (a
destination has one subscription, `StoreConsistent`, and one ledger entry per
incident), so that the rows of a batch that end differently are those of different
lanes; all batches belong to one incident, where ledger entries can collide; whether
a retry is due, or too old, is a choice, and so is how a row ends; rows of a
category retired since they were matched, which are dropped, are left out.

`DeliveryOutbox` is the promise: per destination a queue of row numbers, of
which only the first may be taken out: as delivered only after it was pushed, as skipped
or dead with or without. `ImplementsOutbox` maps `delivery_by_destination` onto it.

### Watermark, IncidentStream (`src/models/incident.rs`)

`Watermark` has the judgement and update of a watermark as operators.
`IncidentStream` drives one watermark with any reports in any order and records
the ones applied. The content of a report is its identity. `OrderKept` joins what
holds of every report applied: a late one is the first terminal one
(`LateOnlyWhenTerminal`), the level does not fall within a number (`LevelRises`),
and the watermark itself never goes back (`NeverGoesBack`).

### Incidents (`src/events`, `src/storage/fjall.rs`)

One action per branch of `EventCoordinator::process` and its storage commit:
`CompleteReport`, `QuarantineReport`, `MatchReport`, `StoreReport`,
`DiscardReport`; `BeginMatch` and `CommitMatch` for the match engine; delivery as
two actions that only touch the ledger and the batch; `Restart` with the prune.
An incident's id is the stream of its first report, as the code derives it. Age,
and so what the prune takes and whether an origin is stale, is a choice.
Retired categories, whose reports are only completed, are left out.
`RecordsConsistent` joins the parts that tie the keyspaces to each other: references
resolve, jobs are counted, and work in progress keeps its snapshot.

Two disagreements seen here are told, and not run. A cancellation that comes again
after a cancelled final report is applied a second time and clears the updates seen
(`incident.rs:291`). `UPDATE_MIN_REPORT_GAP` counts from the last report, where
`src/README.md:232` has it count from the last push (`coordinator.rs:132`).

### Matching, Subscriptions (`src/models/subscription.rs`, `src/matching`, `src/subscriptions`, `src/storage/fjall.rs`)

`Matching` has no state: `Valid` is the validation of a request, `Compile` the
compiler, `KeysOf` the posting keys of a compiled subscription, `Lookups` the plan of
an event, `MatchCompiled` the matcher, and `Expected` the reference matcher of the
tests, which looks at the request itself. A place stands for coordinates and
`Distance` for kilometres; `Intensity` is the estimate, rounded, as a table. Retired
categories are in old records only: reading strips their rules.

`Subscriptions` has the four keyspaces `subscriptions`, `byDestination` (the
index by destination), `compiled` and `postings`. `StoreNew`, `StoreAgain`,
`Deactivate` and `Import` are batches under `subscription_lock`, each with its
posting changes; `ReadForDelete` is the read before the lock. `Import` is compiled with
the feature `benchmarks` alone (`fjall.rs:825`); the shipped server has no such step,
and is the instance with `Batches = {}`, which the theorems include. A match job is
`BeginMatch`, one `ScanPostings` per prefix, one `LoadCompiled` per id and
`MatchBlocks`; everything else may happen between them.

### Lifecycle (`src/lifecycle.rs`, `src/application.rs`, `src/runtime/pipeline.rs`)

`phase`, `task`, `completed` and `errors` are `run_until_shutdown`: `Signal` and
`NoticeEnd` leave `select!`, `Collect` joins a task in a drain, `DrainedIngress`
closes the runtime, `Expire` and `SignalAgain` cut a drain, `Reap` is
`abort_and_reap`, `Flush` and `CutFlush` the end. The engines are stages an event
passes, `inbox`, `job`, `batch`, `retry`, each with a look for work and a later look
at whether to stop (`StopsWith`). `hints` is the match queue, which may refuse a hint
and is empty after a restart, except for what `recover` pushes. `Crash` keeps
`stage` only. `ShutdownOrderly` joins `JoinedOnce` and `CleanExit`.

Abstractions: which work an event makes is a choice; a deadline may expire at any
time; a task of the ingress is the server, the confirmations or the provider; before
a shutdown the look at `closing`, which only leads back, is left out.

### Requests, Geocoder, Links, Provider, Listing, Bark (`src/routes`, `src/delivery`, `src/providers`, `src/simulate`)

`Requests` has a table of the handlers: what each may answer before it takes a permit,
the permits in their order, and what a result is answered with. `Acquire` takes
one permit or answers 503, `Start` moves permits into the closure, `HangUp` drops
what the future holds.
`Geocoder` follows `resolve`: the lock per coordinate and its weak registry (`Ask`,
`Lock`), the second look into the cache, Amap, the slot, Nominatim, the cache.
`LookupsRestrained` also says that the cache holds what its order lists.
`Links` stores and syncs a context before its push; `Detail` is the page; `Crash`
may lose what was not synced; `Startup` prunes. `Simulate` dispatches the
notices of the simulation tool, which a hang-up cuts: what is left is not sent, but the
blocking task that stores a context runs on, as one of the `orphans`.
`Provider` is the connection loop. `Connect`, `Pong` and `Sleep` prefer the shutdown,
the read of the loop prefers the feed, as the `biased` selects list them.
`Listing` is the cursor and the pages; it assumes that the clock does not go back.
A page is cut from `NewestFirst`, the one enumeration of the incidents in the order
of the code's comparison.
`Bark` cuts body, subtitle and title in turn (`Fitted` is the bisection, `Tried` one turn
of its loop; a character is a pair of its bytes and its bytes in JSON), posts, and
classifies the answer.

The six share no variable. `MCRoutes` composes them as a sum: one runs and the
others rest in their initial states, and nothing that is fair is enabled in one that
rests (`Provider` needs `Spawn` first), so that a property of one means what it would
mean in a run of its own.

### Confirmation (`src/subscriptions`, `src/storage/fjall.rs`, `src/routes/subscribe.rs`)

Durable are `operation` (the records under `confirmation:<id>`), `index` (the
pending id per destination) and `active` (the request the destination's
subscription is from). `attempt` and `copy` are the attempts, one per lease
generation: an attempt reads the record (`ReadForSwap`, `RenewRead`), and replaces
it later under the lock if it is still the one read (`Renew`, `Activate`,
`Reschedule`, `Abandon`). Lease 1 belongs to the request's handler, which may be
dropped (`Disconnect`); the later ones to the background worker, whose scan takes
a snapshot and swaps record by record. `delete_subscription` reads
(`BeginDelete`) and then changes the store (`DeleteActive`, `DeleteInactive`).
`Restart` drops all attempts, scans and deletions; a graceful stop is a time
without new requests and scans, followed by the same.

Abstractions: a request stands for its subscription; ids are numbered in the
order of storing; a lease token is its generation (the code hashes id and
generation); a lapse, a due retry and the age limit are choices; the scan takes
its records in any order; the kinds of outcome that only the client sees
(pending, superseded) are one. Among the latter, a 409 tells the client of a newer
request also when the lease was only taken over, or the request was deleted.

`SubscriptionRegistry` is the promise per destination: a pending and an active
request, replaced by newer ones, activated, dropped, unsubscribed.

### Countdown (`src/runtime/pipeline.rs`)

A countdown has the number of the delivery that scheduled it, so `key[n]`,
`issued[n]`, `task[n]` and `cancelled[n]` are the fields of `EarthquakeCountdown`,
its task and its watch. A delivery takes the lock (`BeginDelivery`), queues the
`Cancel` of its key, pushes, and queues the `Schedule` (`QueueCancel`,
`PushSucceeds`, `QueueSchedule`), waiting for room in the channel each time. The
engine's `select!` is one action per branch: `HandleSchedule`, `HandleCancel`,
`Join`, and `StopEngine`; after the last only joins remain, and `EndEngine` drops
the receiver, after which commands are lost. A countdown waits (`Elapse`), looks at
the subscription and the watches (`Check`), takes the lock (`BeginTick`), pushes
and goes round (`EndTick`); `Stop` is the other branch of its three `select!`s, which
may lose against the first when both are ready.

Abstractions: an S wave is a moment, `arrived[n]`, and seconds are not counted;
of a delivery only what touches countdowns is kept, the rest is in `Delivery`; a
failed tick is as good as a sent one, as in the code; the key of each delivery is
chosen at the start. `late` counts ticks begun after the countdown was called off,
`pushed` is the last delivery pushed for a key.

## 4. Runs

| Run | Instance | Shows |
| --- | --- | --- |
| `delivery_store` | 2 destinations, 2 batches, 2 retries, 1 generation, 1 crash | the keyspaces agree; rows are neither lost nor retired twice; destinations are served serially |
| `delivery_order` | 1 destination, 2 batches, 2 retries, 2 generations, 1 crash | order, bound on pushes, reason of a skip, refinement, and that every row is retired |
| `delivery_scan_race` | as above | **violated**: the retry scan's assertion (`fjall.rs:1545`) |
| `incident_stream` | all reports of 2 numbers, 2 levels and the flags that matter, 6 applied | terminal states hold, late reports, levels, repetition |
| `incidents` | 3 streams, 5 reports, 4 ingested, 1 restart | references, job counts, snapshots, retention, catalogue, and that the inbox empties |
| `incidents_catalogue` | `PUSH_UPDATES=false` | **violated**: "every report received leaves an incident" |
| `confirmation` | 1 destination, 2 requests of 2 attempts and 3 leases, 1 deletion, 1 crash | decisions, index, bound on pushes, refinement, and that every request is decided |
| `confirmation_not_found` | 1 request | **violated**: 404 means that there is no subscription |
| `countdown` | 1 destination, 2 targets, 2 deliveries, a channel of 1, 1 subscription change, a shutdown | the map of countdowns, the calling off of outdated ones, late ticks, and that deliveries and countdowns end |
| `subscriptions` | 2 destinations, blocks of 2 ids, 3 sources, 3 places, 2 imports, old records with a retired rule, 1 deletion | the postings are exact, one record per destination, generations, the rows of a match, critical bands |
| `lifecycle` | 2 ingress tasks and the runtime, 1 report, 2 signals, 1 fault | joins, clean exits, refusals, the end of a shutdown, and that a report is handled |
| `routes` | see below | permits, lookups, links, pages, payloads; permits come back, queries and the provider end |

Bounds. Two destinations show that one destination's lock, head and scan
position do not leak into another's; two batches are the least with an order, and
with two retries they reach every path of the retained record. Two rows of a batch
end differently there, in either order, with a crash in between. `delivery_store`
compares states by all variables but `pushes` and `aborts` (`VIEW`): no guard and none of its
properties reads them. `delivery_order`
gives up a destination for generation changes and the counts of pushes. Four
reports make an incident with two streams, fill it and overflow it (capacities
are 1 or 2 there), with the update, cancellation or replay between them. A second
restart would only repeat the prune. In `confirmation`, two requests supersede
each other; three leases are the least in which one lapses and a retry follows;
destinations do not interact except for the worker's permits. In `countdown`,
two deliveries are the least that outdate a countdown, and a channel of one command
is full at once; the proofs cover the rest. In `subscriptions`, two ids to a block give
a destination a neighbour in its bitmap and another in the next block, and the imports
include one that names a destination twice. In `lifecycle`, two signals are the most
the code tells apart, and one fault is a task, a submission or the process. In
`routes`: two requests on one storage permit; three queries on two coordinates with a
cache of one; links kept for 2 of 3 days, with two rows that share a snapshot; a
feed with each kind of message; three incidents at two times in pages of 1 and 2;
texts of up to three characters of 1 and 3 bytes, where a payload holds 10.

Symmetry is used for destinations, in the run without liveness only.
`CHECK_DEADLOCK FALSE`: an instance stops once its bounded input is used up.

Fairness. The engines are tokio tasks that loop while the process runs, and a
waiting lock or permit is granted in order, so each lane, task and engine step is
weakly fair. The one strong assumption is on `ReadRetry(d, TRUE)`: the clock
moves on, so a retry that is looked at again and again is due at some reading.
In `Confirmation` it is on `LeaseDue`: an operation that is due stays due, so one
of the scans leases it; the worker's own step assumes that a Bark permit is free at
some of its polls, since pushes end. That a request grows too old is not assumed.
In `Countdown` it is on `BeginTick`: tokio's mutex queues its waiters, so a countdown
that waits while deliveries and ticks take turns gets the lock. Pushes end (the HTTP
client has a timeout), and waves arrive.
In `Lifecycle` the engines scan at intervals, deadlines expire, attempts end, and the
process is restarted (`compose.yaml`); the strong assumption is that a retry which is
tried again and again is given up once, as attempts and age bound it. No task
has to end when it is asked to: the deadlines are there for that. In `routes`, store
and client calls answer or time out (`Handle`, `Resolve`, `SourceStep`), and an
interval passes (`IntervalEnds`).
Users, providers, Bark's answers and crashes are not fair. Liveness holds with
crashes because they are bounded, and with the scan's failures because each one
restarts the same work.

## 5. Proofs

`DeliveryProofs` proves the invariants of `Delivery` for every value of the
constants, from `ConstantsAssumption` alone (destinations may even be infinitely
many). The invariants are not inductive by themselves, as they say nothing of the
workers between two of their steps. `IInv` adds: ids above `lastBatch` are unused
(`FreshIds`); progress marks only rows of its batch, and every row with a retry
(`ProgressExact`); a lock is held by exactly the worker past its acquisition
(`LockExact`); a lane's row is still pending and, past its check, the head
(`LaneExact`); a head that the scan found stays one until it is spawned, unless a
task of its destination is at work (`HeadsExact`). Theorem `Invariant` has one lemma
per action and part; the invariants of the runs, and with them `KeyspacesCorrect`,
follow from it.

The rest of the module uses it for the order of pushes (the row in hand is the head
of `index`, and every older row has left `index` with a result), the bound on
pushes (attempts bound the pushes a row has had, plus its aborts), and the reason
of a skip: a row that left without a delivery and without a dead letter had its
subscription changed. It does not say that a row of an unchanged subscription is
pushed: its dead letter may come from an error before any request. It ends with the
refinement: initial states and steps of `Delivery` map to those of `DeliveryOutbox`. There
a delivered row was pushed, which the proof takes from `OutcomePushed`: an outcome of a
request that a worker holds was counted when the request was made.

`ConfirmationProofs` does the same for `Confirmation`. Its `IInv` adds to the
invariants of the run: a request not yet made has left no trace (`Unborn`); an
attempt that holds its lease knows the attempts of the record, and one about to
reschedule has another left (`AttemptsKnown`); a pending request is not active
(`NotYetActive`); the lease generation is the attempts plus the takeovers, plus one
while leased, and bounds the pushes made and still to be made (`SendCount`), from
which `SendsBounded` follows even after the record is gone. The refinement maps
`index` to what is pending.

`CountdownProofs` covers the four invariants of `Countdown`. Its `IInv` adds: a
delivery in progress has no countdown yet, and nothing later was pushed to its
destination, which the lock ensures (`CurrentExact`); the channel schedules each
countdown once, after its delivery (`ChannelExact`); a countdown that made its late
tick has ended, is in it, or is about to be refused by `Check` (`LateExact`); and for
every countdown outdated by a push made or about to be made, the cancellation is
made or is in the channel, behind its `Schedule` if that is there as well
(`OutdatedExact`). The last part is where the order of the commands matters: the
`Cancel` is queued before the push, and by the holder of the lock.

`IncidentStreamProofs` covers the three properties of a stream. `IInv` adds that the
watermark sums up the reports applied (`MarkExact`), and that each of them with
the current number is in the list of updates, or is weaker than the watermark, or was
followed by the first final report or the first cancellation (`SeenExact`): whatever
empties the list leaves one of these traces, which is why a short list is enough.

`LifecycleProofs` covers the two invariants of `Lifecycle`. `IInv` adds: a marked task
gave its result and, without errors, ended well (`JoinsExact`, `CompletedExact`); the
provider does not end in a submission (`SubmittingExact`); an attempt is under way for
a batch or a retry only, and not once its engine has stopped (`BusyExact`), so that a
runtime that ended well has none; what is down without errors has synced (`Synced`);
and whatever closed the runtime came after the provider or was forced
(`ClosingExact`). Its assumptions name the provider among the tasks of the ingress and
keep the names of events apart from the loops' positions.

`IncidentsProofs` covers `RecordsConsistent` and `ReportsStayListed`, from the named
assumptions alone. `IInv` has the parts of `RecordsConsistent`, and adds: an incident owns the
stream it is named after (`RecordTyped`), so that a report which resolves to no
incident cannot take the id of a stored one; a job's batch is written when the
job goes, and what was delivered was matched (`MatchedBeforeDelivered`), which the
prune relies on when it keeps incidents for their ledger; and a catalogued report is
an alias of a report's incident (`ListedByReport`). `JobsCounted` equates a counter with
the cardinality of a set, so each action has to say which jobs an incident gains
or loses.

`SubscriptionsProofs` covers the index, the records and the generations. `IInv` says of
the records that no two share a numeric destination id and that each is what its
destination leads to (`DestinationsOwned`); of `compiled` that it has the active records,
compiled as they are now (`CompiledCurrent`); and of the postings that every id up to
the last possible one is posted under exactly the keys of its compiled
subscription (`PostedExactly`). The ids not given out yet are included, as a new
record must find its bits clear. Posting and unposting are proved for one key and one
id (a bit is an offset in a block, and `OffsetsTellIdsApart`), then for a batch of
an import, whose ids are consecutive. `ContentAssumption` says that rules and
batches are sequences and old databases finite; an old record may hold rules that
today's validation would refuse. `Kept`, the filter by which reading
strips retired rules, is a recursive function, about which induction proves what it
returns.

`RoutesProofs` takes five components of `routes`, each under its own specification
(`RequestsSpec`, `GeocoderSpec`, `LinksSpec`, `ListingSpec`, `BarkSpec`), whose variables the
others do not touch; the run checks the same properties of the sum.
* `Requests`: at each step the permits of a request are in its future, in its blocking
  operation, or partly in both, as a function of route and step (`PermitsPlaced`). From
  this `StorageFollowsWork` follows, and `PermitsBounded`: semaphores are never
  overdrawn. Pools may have any size, and requests any finite number.
* `Geocoder`: whoever refers to a lock refers to the registered one, and one query is
  inside (`LocksSound`). So no other query can have filled the cache since the second
  look (`LookupsNeeded`), and the cache holds what its order lists, once each
  (`CacheSound`); `Without`, the code's `retain`, needs induction.
* `Links`: a context of a pushed link is on disk, with a day no earlier than the push,
  until retention is over (`Backed`), as is that of a send under way which has passed
  its check (`Underway`). An orphan goes on as its request would have
  (`OrphansSound`). The prune at startup and a crash that loses what was not synced
  are the steps that matter.
* `Listing`: what was shown is behind the cursor, at its own time and at the present
  one, so that a change cannot bring it back; what did not change and was not shown is
  still ahead of it (`ReadingSound`). That the order has an enumeration is proved by
  induction over the incidents.
* `Bark`: a longer cut is no shorter in bytes, nor in JSON (`CutsGrow`), though the whole
  text follows cuts that end with an ellipsis: no character has fewer bytes in JSON than
  in UTF-8, or more than four, and the ellipsis replaces more bytes than its own. So what
  fits is an initial part of the lengths, and at each turn of the bisection its best is
  the longest cut below `low` while nothing above `high` fits (`LoopSound`); it ends, as
  each turn leaves fewer lengths. `CutSound` carries this from field to field. The
  assumption is that texts are sequences of such characters.

The induction in the last two modules is over sets of numbers, `S \subseteq Nat`, and not
over predicates: the library's theorems take an operator as a parameter, but
well-founded induction on sets does not, and a set can be named wherever a
predicate would be passed.

Type correctness is a theorem, `TypeCorrect`, or a part of `IInv`; the runs of these
components do not repeat it.

Only model-checked: all liveness properties, which are out of the proof system's
reach (`EveryRowRetired`, `EverythingSettles`, `EveryRequestResolved`, `EverythingEnds`,
`ShutdownEnds`, `EveryEventHandled`, `PermitsComeBack`, `QueriesEnd`, `ProviderEnds`); and
the rows of a match (`MatchedExactly`, `CriticalWins`), where the matcher folds over the
targets of a subscription: what a fold of the library computes cannot be proved, as its
step is an operator.
The three violated properties are disagreements with a doc, a response or an
assertion of the code; `PROJECT.json` quotes each.

## 6. Not modelled

* Configuration, source tables and status counters: static or for display.
* Distance and intensity formulas and the composition of a simulated event: floating
  point. `Matching` takes distances and intensities as tables.
* The wording of messages, the fields of the five report formats and the bodies of
  answers: text, about which no property here speaks.
* The outbound log and the timeline of an incident: written, and read for display.
* Cancellations of alerts that are still queued: see the plan, 9.
