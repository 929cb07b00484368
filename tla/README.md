# A formal model of hookly

hookly accepts events over HTTP, turns each into delivery jobs, and delivers them
as signed webhooks. These modules model the parts of it where processes, queues
and databases meet; TLC checks them on small instances, and TLAPS proves the most
important properties for instances of every size.

## The system

| Part | Source | Model |
|---|---|---|
| Delivery queue: one Redis stream per tier or enterprise organization, consumer group `workers` | `src/queue/mod.rs` | `RedisStream` |
| Delivery jobs and attempts in PostgreSQL | `src/features/delivery/` | `DeliveryJob` |
| Publishers: event API, manual retry, scheduler fires, outbox poller | `src/features/events/service.rs`, `src/features/delivery/handlers.rs`, `src/scheduler/fire.rs`, `src/worker/outbox.rs` | `Delivery` |
| Worker: consumers, reclaim loop, trim loop, start-up, shutdown | `src/worker/` | `Delivery` (what becomes of a job), `Dispatch` (who serves which stream, and which endpoint is called) |
| Scheduling set of streams, `hookly:q:streams` | `src/queue/mod.rs` | `StreamSet`, `Dispatch` |
| Circuit breaker, 429 block and rate limit of an endpoint | `src/worker/circuitbreaker.rs`, `ratelimit.rs` | `EndpointGuards`, `Dispatch` |
| Event creation, idempotency keys, fan-out | `src/features/events/`, `src/common/idempotency.rs` | `Publishing` |
| Applications, event types, subscriptions | `src/features/{applications,event_types,subscriptions}/` | `Catalog` |
| Endpoints and their secrets | `src/features/endpoints/` | `Endpoints` |
| Schedules in PostgreSQL | `src/features/schedules/repository.rs` | `Schedule` |
| Scheduler: shards, locks, fire, reconciliation; schedules API | `src/scheduler/`, `src/features/schedules/service.rs` | `Scheduler` |
| Organizations, tenants, environments | `src/features/{organizations,tenants,environments,platform}/` | `Accounts` |
| API keys; authentication with them | `src/features/api_keys/` | `ApiKeys`, `ApiKeyAuth` |
| JWT keys, their rotation; authentication with JWTs | `src/features/jwt_keys/`, `src/features/api_keys/auth.rs` | `JwtKeys` |
| Invites | `src/features/invites/` | `Invites` |
| Platform webhooks and subscriptions | `src/features/platform_{webhooks,subscriptions}/` | `Platform` |

A job is a row of `delivery_jobs`. A publisher inserts it, adds its id to a stream
with XADD and sets `enqueued_at`. A worker reads the entry with XREADGROUP, which
puts it into the group's pending list (PEL), fetches the row, delivers, writes the
outcome and acknowledges the entry. What fails on the way is picked up again by
the outbox poller (rows with `enqueued_at IS NULL`) or by the reclaim loop (idle
entries of the PEL). None of these steps is atomic with the next.

A schedule is a row with a `next_run_at`. Redis holds its score in `sched:pending`,
the shards worth looking at in `sched:shards`, the number of schedules of each
shard in `sched:routing` and one lock per shard. The schedules API writes the row
and then, best effort, the sorted sets. A scheduler worker picks a shard, locks
it, polls what is due, and for each due schedule commits a transaction (execution,
event, jobs, next `next_run_at`) and then re-scores it. A reconcile task puts rows
back into the sorted sets. The database and the sorted sets are never changed
together.

## Modules

**`RedisStream`**: a stream as a value `[log, trimmed, group, last, pel]` and the
Redis commands as operators on it. Ids are positions in `log`.

**`DeliveryJob`**: a row as `[status, attempt, enqueued, due]`; one operator per
UPDATE of the repository and one predicate per WHERE clause. Time appears only as
`due` (`retry_after <= NOW()`).

**`Delivery`**: one action per call on PostgreSQL, Redis or the endpoint.

| Variable | Stands for |
|---|---|
| `jobs`, `rows` | `delivery_jobs`, and the number of `delivery_attempts` by outcome |
| `stream` | the Redis stream |
| `listed` | the stream is in the scheduling set `hookly:q:streams` |
| `active` | the joins of `get_job_for_delivery` on endpoint and secret succeed |
| `pub`, `todo` | where each publisher is; what an outbox poller has listed |
| `task` | where each `process_one` is, the entry it holds, the attempt it fetched |
| `trimmer` | where `xtrim_safe` is, and its cutoff |
| `spent` | faults so far, bounded by `Budget` |
| `cause` | history: what separated a job from its entry since `enqueued_at` was last cleared |
| `forgotten` | history: the stream is not in the set and a registration of it was lost since it was |

A crash, a failed call, a lost Redis, a slow task, a deferral, a manual retry and
a trim run happen at any step, as often as `Budget` allows (for each kind and in all). A failed XADD may or
may not have added its entry. `cause` names the six events after which a live job
with `enqueued_at` set may have no entry: a `mark_enqueued` that came after the
entry was settled, a failed write followed by XACK, an undeliverable endpoint, a
trimmed pending entry, loss of Redis data, and a group created at `$`; the last two
befall the jobs that had a readable entry. A seventh concerns the stream: workers
only visit streams in the set, the event API marks a job before it registers the
stream (the outbox and the manual retry register first), and a crash or a failed
ZADD in between leaves a marked job in a stream nobody visits (`forgotten`) until
another publisher or a starting worker registers it.

A fire of the scheduler appears in `Delivery` as the rows and the XADD it makes once
its transaction is accepted by the database; `Scheduler` asks whether it is.

**`Schedule`**: a row of `schedules` as `[status, deleted, next, updated, shard]`, one
operator per UPDATE and one predicate per WHERE clause. Of a cron expression only
the distances `Gaps` to its next occurrence remain.

**`Scheduler`**: one action per call on PostgreSQL or Redis.

| Variable | Stands for |
|---|---|
| `now` | the clock |
| `row` | `schedules` |
| `pending`, `shards` | scores in `sched:pending:{shard}` and `sched:shards`; 0 is "not a member" |
| `routing` | `sched:routing`; its domain is its members |
| `lock` | the owner of each shard's lock; `Orphan` is a process that is gone |
| `caller` | where each API request is: `pc` is its next call, `count` what it will add to `sched:routing` |
| `worker`, `rec` | where each `process_one` and each `reconcile` is, and what they have read |
| `spent` | calls and faults so far, bounded by `Budget` |
| `stale`, `missing` | history: why a score may be earlier than `next_run_at`; why an active schedule may have no score |

A worker is identified by its task and releases by its instance, as in the code
(`RELEASE_LOCK_LUA` compares `instance_id`). A lock expires at any time; when its
owner is still at work that is a fault (`"slow"`).

**`StreamSet`**, **`EndpointGuards`**, **`Dispatch`**: a worker claims the stream with
the lowest score, reads a batch and starts `process_one` for each entry once a
permit is free; `process_one` asks the block, the circuit and the rate limit, calls
the endpoint and records what came of it. A Redis key with a TTL is the time at
which it expires. A task reads the clock (`now_ms`, the minute of the counter) in a
step before the call that uses it. The reclaim loop is a runner of `process_one`
that holds no permit. What `process_one` writes to the job's row is in `Delivery`.
History variables: `passed` (claims of another stream while one waits), `rejoined`
(registrations of another stream that was not in the set while one waits), `leaked`
(requests sent to an endpoint that was shut off after its guard had been passed),
`failures` and `granted` (what really happened in the window and in the minute).

**`Endpoints`**, **`Catalog`**, **`Publishing`**: each extends the one before. Clients
edit endpoints with the version they read; a rotation of a secret is a READ COMMITTED
transaction whose UPDATE sees the rows committed when it began. `Publishing` goes
through `POST /events` call by call: lock, lookup of the key, INSERT, jobs.

**`Accounts`**, **`ApiKeys`**, **`ApiKeyAuth`**, **`JwtKeys`**: `Accounts` has the rows whose
status decides whether a credential counts; `ApiKeys` the handlers, one step per
statement; `ApiKeyAuth` the authentication through the cache in Redis; `JwtKeys` the
same for JWTs, with rotation and the hourly task.

**`BoundedStaleness`**: what a caching authenticator promises, and nothing else: yes only
if the credential held at some time in the last `Window`, no only if it did not hold
or was changed in it. `ApiKeyAuth` and `JwtKeys` implement it with `Window` = TTL + `Hold`
(`Hold`: the longest time between a request's SELECT and its SETEX). In `JwtKeys` it also
bounds a rotation, from its first statement to its last; the grace period of the old key
counts from a clock read somewhere in between.

**`Invites`**: only `resend` is a transaction; `revoke`, `verify` and `accept` read, check
and then write by id. **`Platform`**: creates that count and then insert; `replace` as a
READ COMMITTED transaction.

**`Delivery_proofs`**, **`Scheduler_proofs`**, **`Publishing_proofs`** (with `Endpoints`),
**`Dispatch_proofs`** (with `EndpointGuards`), **`ApiKeyAuth_proofs`** (with `ApiKeys` and
`Accounts`), **`JwtKeys_proofs`**, **`Invites_proofs`**, **`Platform_proofs`**: the proofs.

Definitions marked "Broken variant" are not part of the model: each is a
plausible bug in the definition that follows it, kept to show that the property
it is meant for notices it.

## Runs

| Run | Shows |
|---|---|
| `delivery_faults` | any one of the nine environment events, at any step. No job is lost, dead-lettered early or counted ahead of its attempt log; the PEL keeps only what a fault left |
| `delivery_enterprise` | a stream whose group a later worker creates at `0-0`, against any two of a trim, a Redis restart and a paused endpoint. No unread entry is trimmed |
| `delivery_live` | every job is eventually decided unless one of the six events befell it or its stream is left out of the set for good, across any two of a crash, a failed Redis call, a deferral and a manual retry |
| `scheduler_locks` | two workers and the reconcile task on one shard, with any one fault. One worker per shard, no early fire and no forgotten schedule but for the named causes; every lock is freed |
| `scheduler_shards` | two callers, two schedules on two shards, one pinned, a poll limit of one, a cron expression the scheduler cannot parse. `sched:routing` never counts fewer schedules than a shard has, until a ZINCRBY fails |
| `dispatch` | no stream with unread entries drops out of the set; streams take turns, but for those that were emptied and come back at score 0; slots, trips of the breaker and calls past a shut guard are bounded |
| `publishing` | a key is used once unless a lock expired under its request; an event has exactly the jobs of its subscriptions; endpoint updates are never lost; an endpoint can always sign, with the secret its owner is shown unless rotations overlapped |
| `api_key_auth` | the cache implements `BoundedStaleness`; a limit on keys is passed only by racing creations; a deletion is recorded once |
| `jwt_keys` | the same promise for JWTs; how long a key outlives its grace period; the hourly task leaves no key without a successor but for rotations that stopped halfway |
| `invites` | members and accepted invites correspond, an address joins once, a revocation stands unless a request that had read the invite was running |
| `platform_webhooks` | racing creates pass the limit by less than their number; subscriptions are what requests asked for unless rows were inserted under a replace |
| `claim_discovery` | ends in a violation: a shard whose schedules are all in the future leaves `sched:shards` and does not come back when they are due (`findings` in PROJECT.json quotes the comment it contradicts) |

The scheduler runs accept the status `fired`, so that what follows a fire is reached
(see Observations).

Bounds: one job, one caller, one poller, two tasks, `max_attempts` = 2, three XADDs, and one or two environment
events per behaviour (the theorems below lift the bound). Two tasks and two entries are what
duplicates need; three XADDs give original, duplicate and retry; two attempts
give both branches of the outcome. In `delivery_live` nine entries are allowed and
never needed, so the bound does not hide a behaviour. Tasks are symmetric.
CHECK_DEADLOCK is off because a pipeline whose jobs are decided rests.

For the scheduler: one or two schedules, one or two shards and workers, a clock of
a few ticks, and as many requests and faults as each cfg's budget says. A tick
stands for the second of `next_run_at` and the millisecond of a shard's score, and
is shorter than the reconcile interval: a reconcile task runs at most once in a
tick, except in the last one, which never ends. `scheduler_locks` explores early
fires and forgotten schedules with one API request; two requests side by side,
which a late ZREM or a stale ZADD between requests needs, are left to the theorems
`FiresOnTime` and `SchedulesStayPending`, and `scheduler_shards` explores them for
`RoutingCovers`. One reschedule by a fire is what a stale score needs.
CHECK_DEADLOCK is off because the clock is bounded.

The other modules start with a budget for each kind of operation, chosen in `Init`
from a few scenarios: each scenario lets two or three kinds of events race, and the
run covers their sum. In `dispatch`: two streams, two workers, two permits and one
reclaim loop, one endpoint, up to four entries, a threshold and a window of two, a
minute of two ticks and a counter that outlives it, as 90 s outlive 60 s. Two tasks
beside one that fails are what a leak needs, and the bound is reached. In
`publishing`: two endpoints, three subscriptions, two versions of an event type, two
publishers, one key; three overlapping rotations. In `api_key_auth` and `jwt_keys`: TTL
and `Hold` of one tick, up to three keys, two requests of each kind. In `invites`: five
requests, three at a time. In `platform_webhooks`: a limit of two, two creators, two
replacers. CHECK_DEADLOCK is off because requests come to an end. Only requests,
workers, permits, keys and other interchangeable values are symmetric, and the
runs with a liveness property (`delivery_live`, `scheduler_locks`) declare no symmetry.

Fairness (`FairSpec`): publishers and tasks go on once started (tokio runs ready
tasks), the outbox and reclaim loops tick, entries that can be read are read as long
as the stream is in the set, which is all that workers look at, and the clock passes
`retry_after`. Nothing is assumed of start-ups, trims and faults. A
reclaim is only fair for an entry without a task. In `Scheduler`: requests, worker
and reconcile tasks go on, the clock advances, and the TTL of a lock nobody works
under runs out; a lock that expires under its owner is a fault and not fair.

## Proofs

For every set of jobs, callers, pollers and tasks, every `MaxAttempts`, `StartId`,
`MaxEntries` and `Budget` satisfying `DeliveryAssumption`:

| Theorem | Property | Argument |
|---|---|---|
| `TypeCorrect` | `TypeOK` | `TypeInv` adds that a busy task's entry exists and that a publisher about to mark holds the id of an entry of its job |
| `TrimSafety` | `NeverTrimsUnread` | `Cursor`: trimmed <= last <= length, the PEL lies below `last`, a cutoff never passes `last`, without a group nothing is pending |
| `NoLoss` | `NoUnexplainedLoss` | `SetInv`: the stream of a live marked job without a cause is in the set, about to be registered, or a registration was lost; the same as long as the entry of a publisher that has registered and is about to mark is not trimmed, since the Lua script removes only a stream without entries. `Reachable`: a live enqueued job has a cause, or an entry that is readable and that no task is about to acknowledge; readability alone is not inductive, since XACK would remove the last entry of a job decided a step before |
| `NoEarlyDeadLetter` | `DeadLetterAfterMaxAttempts` | `AttemptInv`: a task's fetched attempt never exceeds the column, which never decreases |
| `PelIsForRecovery` | `PelOnlyForRecovery` | inductive with the types |
| `OutcomesHaveRows` | `OutcomesAreLogged` | `LoggedInv`: the outcomes of a job that were written and those its tasks have logged and are about to write are together no more than its rows. The tasks about to write are counted because a duplicate entry gives a job several |

For every set of schedules, shards, callers, workers and instances, every `Gaps`,
`BatchLimit`, `MaxTime` and `Budget` satisfying `SchedulerAssumption`:

| Theorem | Property | Argument |
|---|---|---|
| `SchedulerTypeCorrect` | `TypeOK` | `Refs`: a request, a worker or a score refers to a row that exists, with a shard and a `next_run_at`; a schedule being created is in one request's hands |
| `ShardExclusion` | `OneWorkerPerShard` | `LockInv`: as long as no lock expired under its owner, a worker between lock and release is the lock's owner. This is why a release that compares the instance only is safe |
| `FiresOnTime` | `NoPrematureFire` | for a schedule without a cause: its score is not before `next_run_at` unless a re-score is under way (`ScoreInv`), and what a worker holds is due (`HeldInv`). Each needs the other and `LockInv`: a second worker in the shard could poll between commit and re-score |
| `SchedulesStayPending` | `NoForgottenSchedule` | inductive with `Refs`, which gives that every score written is a time and not 0 |
| `RoutingIsNeverShort` | `RoutingCovers` | `RoutingInv`: the counter of every shard is there, and a request owes nothing before its insert. Each step of a request changes one request and one row; it is shown to add to the counter, or to what is still to be counted, at least what it adds to the schedules of the shard (`Balanced`), and the cardinalities follow (`SurplusMoves`). A restore of a schedule that was not deleted counts it twice, which is why the counter is only bounded from below |

For every set of requests, events, keys, applications, endpoints, subscriptions and
secrets satisfying `PublishingAssumption`, and every catalog to start from in which, as
`StartedAssumption` says, a listed endpoint has a secret without expiry and an endpoint
has one active subscription to a type (what the services establish and the unique
index enforces). `SettledAssumption` adds that the catalog is at rest: the last rotation
of an endpoint did not overlap with another, so the secret it inserted is the newest.

| Theorem | Property | Argument |
|---|---|---|
| `KeysAreUsedOnce` | `KeyUsedOnce` | `KeyInv`: a request between its lookup and its insert whose lock has not expired owns the lock, and every event it would have found was inserted by a request that had lost its own |
| `FanOutIsComplete` | `FanOutIsExact` | `FanInv`: one request at most works on an event; no two subscriptions it still has to do are for one endpoint, and none of them has its job; every subscription the insert saw is still to be done, done or missed |
| `UpdatesAreNotLost` | `NoLostUpdate` | `EditInv`: the version a client holds is not ahead of the row's, and if it is the row's the client holds the row; inductive because every write is a new version |
| `AnswersAreTrue` | `ConflictChangedNothing` | `EditInv` again: an UPDATE that matched finds no row afterwards only if the endpoint was deleted, which is final |
| `EndpointsAlwaysSign` | `AlwaysSigns` | `SignInv`: a rotation adds a secret without expiry in the transaction that retires the others |
| `WorkersSignWithShown` | `SignsWithShown` | `SigningInv`: an endpoint on which rotations did not overlap has one secret without expiry, and it is the newest. A rotation that nobody came between has seen every secret of its endpoint and is later than all of them (`SpanInv`); without that, its UPDATE could leave one of them without expiry |
| `PublishingTypeCorrect` | `TypeOK` | the types in those invariants, with those of the applications, types and subscriptions |

For every set of streams, publishers, workers, permits, reclaim loops and endpoints
satisfying `DispatchAssumption` (tasks are finitely many and at least one, and there is a
rate limit to configure) and every threshold, window, cooldown and minute satisfying
`GuardsAssumption` (a counter's TTL is longer than its minute, as 90 s are):

| Theorem | Property | Argument |
|---|---|---|
| `StreamsAreFound` | `NoStrandedStream` | inductive with the types: the Lua script removes a stream only if nothing in it is unread |
| `StreamsTakeTurns` | `NoOvertaking` | `TurnInv`: a stream that passed a waiting one once more than it came back to the set is not in the set or has a higher score, so it is not the lowest while the other waits |
| `LeaksAreFew` | `LeakIsBounded` | `LeakInv`: while a guard is shut, the calls made past it and the tasks still past it together stay below the number of tasks; the bound alone is not inductive |
| `RateIsHeld` | `RateHeld` | `MeterInv`: the counter of the present minute is the number of slots given out in it and outlives the minute, so INCR never starts again within it; a task that was refused in this minute read a counter at its limit |
| `TripsAreEarned` | `TripIsEarned` | `MeterInv`: a failure counter that has not expired counts at most the failures within `Window` of its expiry, and a task about to open the circuit has seen `Threshold` of them. `failures` is a set of numbered failures, so that those of one tick stay apart |

For every set of keys, users, tenants, calls, requests and cache slots, every `TTL`,
`Hold`, limit and clock satisfying `AuthAssumption` (keys and management calls are
finitely many), and for JWT keys every interval and grace period satisfying
`JwtAssumption`:

| Theorem | Property | Argument |
|---|---|---|
| `AuthTypeCorrect` | `TypeOK` | `TypeInv`: a call or request under way works on a key that exists |
| `AuthImplementsPromise` | `RevocationIsBounded` | the refinement of `BoundedStaleness`, step by step. `StaleInv`: what a request has read or the cache holds still is what the database says, or the key was changed no earlier than the read. This is where the TTL and `Hold` add up |
| `LimitHoldsUnlessRaced` | `LimitUnlessRaced` | `TenantInv`: the tenant of a key in creation exists, so no bootstrap inserts a key beside it |
| `DeletionsRecordedOnce` | `DeletionRecordedOnce` | `RecordedInv`: an audit row still to be written is the only one of its key |
| `JwtTypeCorrect` | `TypeOK` | `Known`: a rotation under way has a key and a grace period of at least `MinGrace` |
| `JwtImplementsPromise` | `JwtRevocationIsBounded` | the refinement again, with expiry, rotation and the hourly task as the ways a key ends |
| `GraceIsBounded` | `GraceOverrun` | `GraceInv`: the next run of the task is at most an interval away and comes in time for every key past its grace period |
| `SweptKeysHaveSuccessors` | `SweptHasSuccessor` | `MarkedInv`: a key with a grace period has a successor, or a rotation still owes it. It rests on `Hold` <= `MinGrace` in `JwtAssumption`, and is false without: a rotation that takes longer than the shortest grace period, an hour, is overtaken by the task. No timeout of the server enforces this; it is an assumption about how long a running request can be held up |

For every set of invites, addresses and requests (`InvitesAssumption`), and of webhooks,
event types, creates and replaces and every limit (`PlatformAssumption`):

| Theorem | Property | Argument |
|---|---|---|
| `AcceptanceMakesMembers` | `MembersAccepted` | `CallInv`: a request about to insert a member holds an accepted invite |
| `AddressJoinsOnce` | `JoinsOnce` | `JoinInv`: an address that joined has its member, so the INSERT fails |
| `RevocationIsFinal` | `RevocationStands` | `StandInv`: nobody holds a revoked invite that is not marked as raced |
| `InviteTypeCorrect` | `TypeOK` | part of `InvitesInv` |
| `LimitOvershoot` | `OvershootIsBounded` | `LimitInv` counts creates that are past the check with the webhooks |
| `ReplaceIsFaithful` | `SubscribedAsAsked` | `RowsInv`: what a replace found is still there and, if nothing was inserted since, is all there is |
| `PlatformTypes` | `TypeOK` | inductive as it stands |

Sets whose cardinality a proof counts (requests, tasks, failures) are not assumed to be
finite where they start empty: that they are finite is part of the invariant, since a
step adds one element.

Only model-checked: the two liveness properties, `EventuallyDecided` and `LockIsFreed`
(fairness and ENABLED are out of the prover's reach), and `claim_discovery`, which ends
in a violation. Every safety property of the other runs has its theorem.

## Observations

Where code and documents differ, seen while modelling. Only `claim_discovery` is
checked by a run of its own; the others are read from the code, and where a model
has them they appear as an exception in a property.

- A `mark_enqueued` that lands after `schedule_retry` hides the retry from the outbox
  (`src/features/events/service.rs:160`; `docs/architecture/worker-lld.md:203`).
- An entry is acknowledged although the UPDATE of its outcome failed
  (`src/worker/consumer.rs:302`; `docs/decisions/delivery/003-at-least-once-delivery.md:25`).
- Answers of 4xx are retried like any other failure
  (`src/worker/consumer.rs:274`), where
  `docs/decisions/delivery/004-retry-policy-dead-letter.md:35` and `:87` and
  `docs/architecture/system-diagram.md:191` and `:248` dead-letter them at once. A manual
  retry keeps the attempt count (`src/features/delivery/repository.rs:231`), where
  `004-retry-policy-dead-letter.md:63` resets it to 0: one more failure dead-letters the
  job again. `DeadLetterAfterMaxAttempts` states what the code does.
- The outcomes of two executions of one job are written without a condition on the
  status (`src/features/delivery/repository.rs:206`): a late failure overwrites a success,
  and the job is delivered again.
- The event API marks a job before it registers its stream
  (`src/features/events/service.rs:160`, `:163`); if the registration is lost and the
  stream is not in the set, nobody reads the entry and the outbox does not list the job.
- XTRIM may delete an entry that is pending: the PEL is looked at before the trim
  (`src/queue/mod.rs:485`; `docs/architecture/worker-lld.md:284`, "Never trims
  unacknowledged messages").
- The jobs of an event are inserted one by one after the event
  (`src/features/events/service.rs:258`), where `docs/architecture/delivery-pipeline.md:47`
  has a single transaction.
- Nothing in the database makes idempotency keys unique since
  `migrations/20260618000001_idempotency_entity_columns.sql` dropped the index that
  `docs/architecture/data-model.md:251` and `:542` describe.
- A delivery carries one signature, with the secret that does not expire
  (`src/features/delivery/repository.rs:95`, `src/worker/deliver.rs:148`): the old secret
  signs nothing in its grace period, where `docs/architecture/delivery-pipeline.md:79` and
  `:126` and `docs/architecture/data-model.md:227` have both secrets valid.
- A deleted or disabled JWT key is accepted from the cache until its entry expires
  (`src/features/api_keys/auth.rs:345`; `docs/features/jwt-keys.md:80`, "Disable
  immediately").
- Concurrent creates of platform webhooks pass the limit
  (`src/features/platform_webhooks/service.rs:33`; `docs/features/platform-webhooks.md:41`,
  "Max 10 webhooks per tenant").
- A stream that was emptied, removed from the set and registered again has score 0 and is
  claimed ahead of every stream that waits (`src/queue/mod.rs:166`, `:196`).
- A new enterprise stream has no consumer group until a worker starts
  (`src/worker/main.rs:61`).
- A fire inserts the status `fired` (`src/scheduler/fire.rs:160`), which
  `migrations/20260528000002_create_schedules.sql:59` does not accept.
- An update of a schedule adds a `next_run_at` again that a fire has moved on since
  (`src/features/schedules/service.rs:232`; `docs/architecture/scheduled-event-flow.md:13`).
- A rotation that overlaps with another leaves two secrets without expiry; replaces of
  platform subscriptions that overlap leave the union of both
  (`src/features/platform_subscriptions/repository.rs:94`, "atomically").
- XTRIM keeps the entry last delivered, so a stream that was used is never empty, is
  never taken out of the set, and workers poll it without a pause
  (`src/worker/consumer.rs:28`, "Workers sleep only when the sorted set is empty").
- The breaker counts from the first failure of a window, so failures on both sides of
  the counter's expiry do not trip it (`docs/decisions/delivery/006-circuit-breaker.md:21`),
  and after the cooldown every waiting task is a probe (line 65, "Exactly one probe").
- The reclaim loop runs `process_one` without a permit (`src/worker/reclaim.rs:52`;
  `src/worker/consumer.rs:34`, "never exceed `max_inflight`").
- A failure before the request is sent (an invalid configuration, a secret that cannot
  be decrypted) counts against the endpoint's circuit (`src/worker/deliver.rs:106`;
  `src/worker/consumer.rs:226`).
- `Retry-After: 0` blocks nothing: SET refuses an expiry of 0.
- `acquire_lock` reports an error when Redis is down, where
  `docs/decisions/api-design/007-idempotency-key.md:119` has requests go on.

## Not modelled

Encryption and signature bytes, JSON-schema validation, HTTP routing, telemetry,
configuration, e-mail: no shared state, or data no property tells apart. Users, teams,
roles, permissions and assignments: most of their operations are one statement with
its conditions in the WHERE clause. Assigning roles and permissions and adding team
members look up ids and then insert, so they can race with deletions; they are left
out for their size, and nothing here says anything about them. Bulk creation of events: a loop over the calls of a single one.
`worker/stream_watcher.rs` and `xreadgroup_multi` have no caller. Back-off lengths
are not modelled: a retry becomes due at some later time. `trigger` of the schedules
API inserts an execution that no process reads. Reads and lists change nothing.
