------------------------------ MODULE Scheduler ------------------------------
(***************************************************************************)
(* The cron scheduler: schedules rows in PostgreSQL, and in Redis the      *)
(* sorted sets sched:pending:{shard} (when each schedule is due),          *)
(* sched:shards (which shards to look at) and sched:routing (how many      *)
(* schedules each shard has), and the locks sched:lock:{shard}.            *)
(*                                                                         *)
(*   callers   requests of the schedules API: a statement, then a list of  *)
(*             best-effort Redis calls                                     *)
(*   workers   process_one: pick a shard, lock it, poll, fire, unlock      *)
(*   instances scheduler processes; each runs workers and a reconcile task *)
(*                                                                         *)
(* One step is one transaction or Redis call.  The clock is a bounded      *)
(* integer; score 0 stands for "not a member".                             *)
(***************************************************************************)
EXTENDS Schedule, FiniteSets

CONSTANTS
    Schedules, Shards, Callers, Workers, Instances,
    InstanceOf,   \* the scheduler process a worker task belongs to
    Nobody,       \* no shard, no schedule, no lock
    Orphan,       \* a lock whose process is gone
    Pinned,       \* shards some tenant is pinned to (tenant_shard_affinity)
    Gaps,         \* distances from now to a next occurrence
    FiveFields,   \* schedules whose stored cron expression has five fields
    Statuses,     \* what the CHECK on schedule_executions.status accepts
    BatchLimit,   \* LIMIT of ZRANGEBYSCORE
    MaxTime,      \* bound on the clock
    Budget        \* bound on calls and faults of each kind, and of all

\* What the environment may do, Budget[k] times each:
\*   call     an API request changes a schedule
\*   redis    a Redis call fails
\*   routing  a ZINCRBY of sched:routing fails
\*   db       a transaction fails; also a create that finds its key used
\*   crash    a process dies or is shut down between two of its steps
\*   slow     a lock expires while its owner still works
\*   loss     Redis restarts without its data
\*   any      all of these but calls, together
Events == {"call", "redis", "routing", "db", "crash", "slow", "loss", "any"}

ASSUME SchedulerAssumption ==
    /\ InstanceOf \in [Workers -> Instances]
    /\ Nobody \notin Shards \cup Schedules \cup Workers \cup {Orphan}
    /\ Orphan \notin Workers
    /\ Pinned \subseteq Shards
    /\ Gaps \subseteq Nat \ {0}
    /\ BatchLimit \in Nat \ {0}
    /\ MaxTime \in Nat
    /\ Budget \in [Events -> Nat]

VARIABLES
    now,      \* the clock, of every process and of the database
    row,      \* the schedules table
    pending,  \* score of each schedule in its shard's sched:pending
    shards,   \* score of each shard in sched:shards
    routing,  \* sched:routing
    lock,     \* owner of each sched:lock
    caller,   \* state of each API request
    worker,   \* state of each worker task
    rec,      \* state of each reconcile task
    spent,    \* environment events so far
    stale,    \* history: why a pending score may be earlier than next_run_at
    missing   \* history: why an active schedule may have no pending score

vars == <<now, row, pending, shards, routing, lock, caller, worker, rec, spent, stale, missing>>
redis == <<pending, shards, routing, lock>>
history == <<stale, missing>>

IdleCaller == [pc |-> "idle", sched |-> Nobody, next |-> 0, shard |-> Nobody, count |-> 0]
IdleWorker == [pc |-> "idle", shard |-> Nobody, score |-> 0, batch |-> {}, cur |-> Nobody, next |-> 0]
IdleRec == [pc |-> "idle", since |-> 0, at |-> 0, rows |-> [s \in Schedules |-> 0], shards |-> {}]

CallerStates ==
    [pc: {"idle", "insert", "read", "zadd", "shards", "zrem", "count"}, sched: Schedules \cup {Nobody},
     next: Nat, shard: Shards \cup {Nobody}, count: {-1, 0, 1}]
WorkerStates ==
    [pc: {"idle", "lock", "poll", "remove", "fire", "commit", "rescore", "release"}, shard: Shards \cup {Nobody},
     score: Nat, batch: SUBSET Schedules, cur: Schedules \cup {Nobody}, next: Nat]
RecStates ==
    [pc: {"idle", "sync"}, since: Nat, at: Nat, rows: [Schedules -> Nat], shards: SUBSET Shards]

StaleCauses == {"expiry", "data_loss", "lost_rescore", "stale_score", "rescheduled"}
MissingCauses == {"lost_zadd", "late_zrem", "data_loss"}

TypeOK ==
    /\ now \in Nat
    /\ row \in [Schedules -> ScheduleRows(Shards, Nobody)]
    /\ pending \in [Schedules -> Nat]
    /\ shards \in [Shards -> Nat]
    /\ DOMAIN routing \subseteq Shards /\ routing \in [DOMAIN routing -> Int]
    /\ lock \in [Shards -> Workers \cup {Orphan, Nobody}]
    /\ caller \in [Callers -> CallerStates]
    /\ worker \in [Workers -> WorkerStates]
    /\ rec \in [Instances -> RecStates]
    /\ spent \in [Events -> Nat]
    /\ stale \in [Schedules -> SUBSET StaleCauses]
    /\ missing \in [Schedules -> SUBSET MissingCauses]

\* An operator has added the shards to sched:routing; nothing else has happened.
Init ==
    /\ now = 1
    /\ row = [s \in Schedules |-> NoSchedule(Nobody)]
    /\ pending = [s \in Schedules |-> 0]
    /\ shards = [h \in Shards |-> 0]
    /\ routing = [h \in Shards |-> 0]
    /\ lock = [h \in Shards |-> Nobody]
    /\ caller = [c \in Callers |-> IdleCaller]
    /\ worker = [w \in Workers |-> IdleWorker]
    /\ rec = [i \in Instances |-> IdleRec]
    /\ spent = [k \in Events |-> 0]
    /\ stale = [s \in Schedules |-> {}]
    /\ missing = [s \in Schedules |-> {}]

SpendAll(K) ==
    LET all == IF K = {"call"} THEN K ELSE K \cup {"any"}
    IN  /\ \A k \in all : spent[k] < Budget[k]
        /\ spent' = [k \in Events |-> IF k \in all THEN spent[k] + 1 ELSE spent[k]]
Spend(k) == SpendAll({k})

SetRow(s, r) == row' = [row EXCEPT ![s] = r]
MarkStale(S, why) == stale' = [s \in Schedules |-> IF s \in S THEN stale[s] \cup {why} ELSE stale[s]]
MarkMissing(S, why) == missing' = [s \in Schedules |-> IF s \in S THEN missing[s] \cup {why} ELSE missing[s]]

\* A ZADD of schedule s with score n: it is a member again, and its score is
\* stale when the row has moved on since n was read.
ZaddMember(s, n) ==
    /\ pending' = [pending EXCEPT ![s] = n]
    /\ missing' = [missing EXCEPT ![s] = {}]
    /\ MarkStale(IF n < row[s].next THEN {s} ELSE {}, "stale_score")

\* ZADD GT sched:shards: adds the shard, or raises its score.
ZaddGt(h, t) == shards' = [shards EXCEPT ![h] = IF t > @ THEN t ELSE @]

\* ZINCRBY sched:routing, which also creates the member.
Zincrby(h, d) ==
    routing' = [g \in DOMAIN routing \cup {h} |->
                  (IF g \in DOMAIN routing THEN routing[g] ELSE 0) + (IF g = h THEN d ELSE 0)]

-----------------------------------------------------------------------------
(* The schedules API                                                       *)

Doing(c, pc) == caller[c].pc = pc
Free(c) == Doing(c, "idle")

\* The statement of a request is done; pc is its first step after it, and d
\* what it adds to sched:routing in the end.
Then(c, s, pc, d) ==
    caller' = [caller EXCEPT ![c] = [pc |-> pc, sched |-> s, next |-> 0, shard |-> row[s].shard, count |-> d]]

\* pick_shard: the tenant's own shard, or one with the fewest schedules.
PickShard(h) ==
    \/ h \in Pinned
    \/ h \in DOMAIN routing /\ \A g \in DOMAIN routing : routing[h] <= routing[g]

\* Broken variant: PICK_SHARD_LUA without its ZINCRBY.
CreateWithoutCount(c, s, h) ==
    /\ Free(c)
    /\ row[s].status = "none" /\ \A d \in Callers : caller[d].sched # s
    /\ PickShard(h)
    /\ Spend("call")
    /\ \E n \in NextRuns(now, Gaps) :
          caller' = [caller EXCEPT ![c] = [pc |-> "insert", sched |-> s, next |-> n, shard |-> h, count |-> 0]]
    /\ UNCHANGED <<now, row, redis, worker, rec, history>>

\* create, up to the choice of the shard, which is counted at once.
CreateSchedule(c, s, h) ==
    /\ Free(c)
    /\ row[s].status = "none" /\ \A d \in Callers : caller[d].sched # s
    /\ PickShard(h)
    /\ Spend("call")
    /\ Zincrby(h, 1)
    /\ \E n \in NextRuns(now, Gaps) :
          caller' = [caller EXCEPT ![c] = [pc |-> "insert", sched |-> s, next |-> n, shard |-> h, count |-> 0]]
    /\ UNCHANGED <<now, row, pending, shards, lock, worker, rec, history>>

\* The same for a pinned tenant when the ZINCRBY fails, which is ignored.
CreateUncounted(c, s, h) ==
    /\ Free(c)
    /\ row[s].status = "none" /\ \A d \in Callers : caller[d].sched # s
    /\ h \in Pinned
    /\ SpendAll({"call", "routing"})
    /\ \E n \in NextRuns(now, Gaps) :
          caller' = [caller EXCEPT ![c] = [pc |-> "insert", sched |-> s, next |-> n, shard |-> h, count |-> 0]]
    /\ UNCHANGED <<now, row, redis, worker, rec, history>>

\* Broken variant: the new schedule is left to the reconcile task.
InsertWithoutZadd(c) ==
    /\ Doing(c, "insert")
    /\ SetRow(caller[c].sched, CreatedSchedule(caller[c].shard, caller[c].next, now))
    /\ caller' = [caller EXCEPT ![c].pc = "shards"]
    /\ UNCHANGED <<now, redis, worker, rec, spent, history>>

\* create: the INSERT.
InsertSchedule(c) ==
    /\ Doing(c, "insert")
    /\ SetRow(caller[c].sched, CreatedSchedule(caller[c].shard, caller[c].next, now))
    /\ caller' = [caller EXCEPT ![c].pc = "zadd"]
    /\ UNCHANGED <<now, redis, worker, rec, spent, history>>

\* create: an idempotent replay, a conflict or an error; the count stays.
InsertFails(c) ==
    /\ Doing(c, "insert")
    /\ Spend("db")
    /\ caller' = [caller EXCEPT ![c] = IdleCaller]
    /\ UNCHANGED <<now, row, redis, worker, rec, history>>

\* update, which re-adds the schedule whatever its status and whether or not
\* the cron expression changed.
UpdateSchedule(c, s) ==
    /\ Free(c) /\ Exists(row[s])
    /\ Spend("call")
    /\ \E n \in NextRuns(now, Gaps) \cup {row[s].next} :
          /\ SetRow(s, UpdatedSchedule(row[s], n, now))
          /\ Then(c, s, "read", 0)
          /\ MarkStale(IF n # row[s].next THEN {s} ELSE {}, "rescheduled")
    /\ UNCHANGED <<now, redis, worker, rec, missing>>

DeleteSchedule(c, s) ==
    /\ Free(c) /\ Exists(row[s])
    /\ Spend("call")
    /\ SetRow(s, DeletedSchedule(row[s], now))
    /\ Then(c, s, "zrem", -1)
    /\ UNCHANGED <<now, redis, worker, rec, history>>

\* restore, of any row that was ever created.
RestoreSchedule(c, s) ==
    /\ Free(c) /\ row[s].status # "none"
    /\ Spend("call")
    /\ SetRow(s, RestoredSchedule(row[s], now))
    /\ Then(c, s, "read", 1)
    /\ UNCHANGED <<now, redis, worker, rec, history>>

PauseSchedule(c, s) ==
    /\ Free(c) /\ Exists(row[s])
    /\ Spend("call")
    /\ SetRow(s, WithStatus(row[s], "paused", now))
    /\ Then(c, s, "zrem", 0)
    /\ UNCHANGED <<now, redis, worker, rec, history>>

ResumeSchedule(c, s) ==
    /\ Free(c) /\ Exists(row[s])
    /\ Spend("call")
    /\ SetRow(s, WithStatus(row[s], "active", now))
    /\ Then(c, s, "read", 0)
    /\ UNCHANGED <<now, redis, worker, rec, history>>

\* The request goes on to its next Redis call, or is done.
Advance(c) ==
    caller' = [caller EXCEPT ![c] =
                 IF @.pc = "zadd" THEN [@ EXCEPT !.pc = "shards"]
                 ELSE IF @.pc # "count" /\ @.count # 0 THEN [@ EXCEPT !.pc = "count"]
                 ELSE IdleCaller]

\* get_full_by_id: the row is read again after the UPDATE, in a statement of
\* its own, and next_run_at is taken from there.
ReadBack(c) ==
    /\ Doing(c, "read")
    /\ caller' = [caller EXCEPT ![c] = [@ EXCEPT !.pc = "zadd", !.next = row[caller[c].sched].next]]
    /\ UNCHANGED <<now, row, redis, worker, rec, spent, history>>

ZaddPending(c) ==
    /\ Doing(c, "zadd")
    /\ ZaddMember(caller[c].sched, caller[c].next)
    /\ Advance(c)
    /\ UNCHANGED <<now, row, shards, routing, lock, worker, rec, spent>>

ZaddShards(c) ==
    /\ Doing(c, "shards")
    /\ ZaddGt(caller[c].shard, now)
    /\ Advance(c)
    /\ UNCHANGED <<now, row, pending, routing, lock, worker, rec, spent, history>>

\* The schedule may have been resumed or restored meanwhile.
ZremPending(c) ==
    /\ Doing(c, "zrem")
    /\ pending' = [pending EXCEPT ![caller[c].sched] = 0]
    /\ MarkMissing(IF Active(row[caller[c].sched]) THEN {caller[c].sched} ELSE {}, "late_zrem")
    /\ Advance(c)
    /\ UNCHANGED <<now, row, shards, routing, lock, worker, rec, spent, stale>>

ZincrbyRouting(c) ==
    /\ Doing(c, "count")
    /\ Zincrby(caller[c].shard, caller[c].count)
    /\ Advance(c)
    /\ UNCHANGED <<now, row, pending, shards, lock, worker, rec, spent, history>>

\* A Redis call of the request fails: logged, and the next one is made.
RedisCallFails(c) ==
    /\ caller[c].pc \in {"zadd", "shards", "zrem"}
    /\ Spend("redis")
    /\ MarkMissing(IF Doing(c, "zadd") THEN {caller[c].sched} ELSE {}, "lost_zadd")
    /\ Advance(c)
    /\ UNCHANGED <<now, row, redis, worker, rec, stale>>

CountFails(c) ==
    /\ Doing(c, "count")
    /\ Spend("routing")
    /\ Advance(c)
    /\ UNCHANGED <<now, row, redis, worker, rec, history>>

\* The API process dies, or the read after the write fails.
RequestStops(c) ==
    /\ ~Free(c)
    /\ Spend("crash")
    /\ MarkMissing(IF Doing(c, "read") \/ Doing(c, "zadd") THEN {caller[c].sched} ELSE {}, "lost_zadd")
    /\ caller' = [caller EXCEPT ![c] = IdleCaller]
    /\ UNCHANGED <<now, row, redis, worker, rec, stale>>

-----------------------------------------------------------------------------
(* Workers: process_one and fire_inner                                     *)

At(w, pc) == worker[w].pc = pc
Go(w, pc) == worker' = [worker EXCEPT ![w].pc = pc]
Quit(w) == worker' = [worker EXCEPT ![w] = IdleWorker]

\* ZRANDMEMBER and ZSCORE.
PickFromShards(w, h) ==
    /\ At(w, "idle") /\ shards[h] # 0
    /\ worker' = [worker EXCEPT ![w] = [IdleWorker EXCEPT !.pc = "lock", !.shard = h, !.score = shards[h]]]
    /\ UNCHANGED <<now, row, redis, caller, rec, spent, history>>

\* Broken variant: SET without NX.
AcquireAlways(w) ==
    /\ At(w, "lock")
    /\ lock' = [lock EXCEPT ![worker[w].shard] = w]
    /\ Go(w, "poll")
    /\ UNCHANGED <<now, row, pending, shards, routing, caller, rec, spent, history>>

\* SET NX EX: acquired, or held by another worker.
AcquireLock(w) ==
    /\ At(w, "lock")
    /\ IF lock[worker[w].shard] = Nobody
       THEN lock' = [lock EXCEPT ![worker[w].shard] = w] /\ Go(w, "poll")
       ELSE Quit(w) /\ UNCHANGED lock
    /\ UNCHANGED <<now, row, pending, shards, routing, caller, rec, spent, history>>

\* The SET fails, or it is applied and the answer is lost.
AcquireFails(w) ==
    /\ At(w, "lock")
    /\ Spend("redis")
    /\ \/ UNCHANGED lock
       \/ lock[worker[w].shard] = Nobody /\ lock' = [lock EXCEPT ![worker[w].shard] = w]
    /\ Quit(w)
    /\ UNCHANGED <<now, row, pending, shards, routing, caller, rec, history>>

Due(h) == {s \in Schedules : row[s].shard = h /\ pending[s] # 0 /\ pending[s] <= now}

\* The first BatchLimit members of S by score; members with equal scores in
\* some order.
IsBatch(B, S) ==
    /\ B \subseteq S
    /\ Cardinality(B) = IF Cardinality(S) < BatchLimit THEN Cardinality(S) ELSE BatchLimit
    /\ \A b \in B, s \in S \ B : pending[b] <= pending[s]

\* ZRANGEBYSCORE 0 now LIMIT 50.
PollDue(w) ==
    /\ At(w, "poll")
    /\ IF Due(worker[w].shard) = {} THEN Go(w, "remove")
       ELSE \E B \in SUBSET Due(worker[w].shard) :
               /\ IsBatch(B, Due(worker[w].shard))
               /\ worker' = [worker EXCEPT ![w].pc = "fire", ![w].batch = B]
    /\ UNCHANGED <<now, row, redis, caller, rec, spent, history>>

\* The poll failed, which unwrap_or_default takes for "nothing due".
PollFails(w) ==
    /\ At(w, "poll")
    /\ Spend("redis")
    /\ Go(w, "remove")
    /\ UNCHANGED <<now, row, redis, caller, rec, history>>

\* REMOVE_IF_SCORE_MATCHES.
RemoveShard(w) ==
    /\ At(w, "remove")
    /\ shards' = [shards EXCEPT ![worker[w].shard] = IF @ = worker[w].score THEN 0 ELSE @]
    /\ Go(w, "release")
    /\ UNCHANGED <<now, row, pending, routing, lock, caller, rec, spent, history>>

RemoveFails(w) ==
    /\ At(w, "remove")
    /\ Spend("redis")
    /\ Go(w, "release")
    /\ UNCHANGED <<now, row, redis, caller, rec, history>>

\* fire_inner for a schedule of the batch: it is active and next_run_at can be
\* computed, so that the transaction is next.
FireFetch(w, s) ==
    /\ At(w, "fire") /\ s \in worker[w].batch
    /\ Active(row[s]) /\ s \notin FiveFields
    /\ \E n \in NextRuns(now, Gaps) :
          worker' = [worker EXCEPT ![w] = [@ EXCEPT !.pc = "commit", !.batch = worker[w].batch \ {s}, !.cur = s, !.next = n]]
    /\ UNCHANGED <<now, row, redis, caller, rec, spent, history>>

\* It is gone or paused, has no active endpoint, or its cron expression, stored
\* as it was sent, does not parse without normalize_cron, or the query fails:
\* nothing is written.
FireSkip(w, s) ==
    /\ At(w, "fire") /\ s \in worker[w].batch
    /\ worker' = [worker EXCEPT ![w].batch = @ \ {s}]
    /\ IF Active(row[s]) /\ s \notin FiveFields THEN Spend("db") ELSE UNCHANGED spent
    /\ UNCHANGED <<now, row, redis, caller, rec, history>>

\* The transaction, whose execution row the CHECK must accept.
FireCommit(w) ==
    /\ At(w, "commit")
    /\ "fired" \in Statuses
    /\ SetRow(worker[w].cur, FiredSchedule(row[worker[w].cur], worker[w].next, now))
    /\ Go(w, "rescore")
    /\ UNCHANGED <<now, redis, caller, rec, spent, history>>

FireRollback(w) ==
    /\ At(w, "commit")
    /\ IF "fired" \in Statuses THEN Spend("db") ELSE UNCHANGED spent
    /\ Go(w, "fire")
    /\ UNCHANGED <<now, row, redis, caller, rec, history>>

\* Broken variant: the ZADD is forgotten.
RescoreForgotten(w) ==
    /\ At(w, "rescore")
    /\ Go(w, "fire")
    /\ UNCHANGED <<now, row, redis, caller, rec, spent, history>>

\* ZADD sched:pending with the next occurrence.
Rescore(w) ==
    /\ At(w, "rescore")
    /\ ZaddMember(worker[w].cur, worker[w].next)
    /\ Go(w, "fire")
    /\ UNCHANGED <<now, row, shards, routing, lock, caller, rec, spent>>

RescoreFails(w) ==
    /\ At(w, "rescore")
    /\ Spend("redis")
    /\ MarkStale({worker[w].cur}, "lost_rescore")
    /\ Go(w, "fire")
    /\ UNCHANGED <<now, row, redis, caller, rec, missing>>

BatchDone(w) ==
    /\ At(w, "fire") /\ worker[w].batch = {}
    /\ Go(w, "release")
    /\ UNCHANGED <<now, row, redis, caller, rec, spent, history>>

\* RELEASE_LOCK_LUA compares the instance, not the worker.
ReleaseLock(w) ==
    /\ At(w, "release")
    /\ lock' = [lock EXCEPT ![worker[w].shard] =
                  IF @ \in Workers /\ InstanceOf[@] = InstanceOf[w] THEN Nobody ELSE @]
    /\ Quit(w)
    /\ UNCHANGED <<now, row, pending, shards, routing, caller, rec, spent, history>>

ReleaseFails(w) ==
    /\ At(w, "release")
    /\ Spend("redis")
    /\ Quit(w)
    /\ UNCHANGED <<now, row, redis, caller, rec, history>>

-----------------------------------------------------------------------------
(* Reconciliation                                                          *)

\* The interval between two runs is longer than a tick; when the clock has
\* reached its bound, runs still follow each other.
Elapsed(i) == rec[i].pc = "idle" /\ (rec[i].since # now \/ now = MaxTime)

\* The query, in full after a start and a delta afterwards.
ReconcileQuery(i) ==
    /\ Elapsed(i)
    /\ rec' = [rec EXCEPT ![i] =
                 [@ EXCEPT !.pc = "sync", !.at = now,
                           !.rows = [s \in Schedules |->
                                       IF Reconciled(row[s], rec[i].since) THEN row[s].next ELSE 0]]]
    /\ UNCHANGED <<now, row, redis, caller, worker, spent, history>>

\* The query or the connection failed; the cursor moves on all the same.
ReconcileFails(i) ==
    /\ Elapsed(i)
    /\ Spend("redis")
    /\ rec' = [rec EXCEPT ![i].since = now]
    /\ UNCHANGED <<now, row, redis, caller, worker, history>>

\* ZADD NX of one row; a failure is ignored.
ReconcileAdd(i, s) ==
    /\ rec[i].rows[s] # 0
    /\ \/ pending[s] = 0 /\ ZaddMember(s, rec[i].rows[s]) /\ UNCHANGED spent
       \/ pending[s] # 0 /\ UNCHANGED <<pending, history, spent>>
       \/ Spend("redis") /\ UNCHANGED <<pending, history>>
    /\ rec' = [rec EXCEPT ![i] = [@ EXCEPT !.rows = [rec[i].rows EXCEPT ![s] = 0],
                                         !.shards = rec[i].shards \cup {row[s].shard}]]
    /\ UNCHANGED <<now, row, shards, routing, lock, caller, worker>>

\* ZADD GT of one shard, with the time of the query; a failure is ignored.
ReconcileShard(i, h) ==
    /\ \A s \in Schedules : rec[i].rows[s] = 0
    /\ h \in rec[i].shards
    /\ \/ ZaddGt(h, rec[i].at) /\ UNCHANGED spent
       \/ Spend("redis") /\ UNCHANGED shards
    /\ rec' = [rec EXCEPT ![i].shards = @ \ {h}]
    /\ UNCHANGED <<now, row, pending, routing, lock, caller, worker, history>>

ReconcileEnd(i) ==
    /\ rec[i].pc = "sync"
    /\ \A s \in Schedules : rec[i].rows[s] = 0
    /\ rec[i].shards = {}
    /\ rec' = [rec EXCEPT ![i] = [IdleRec EXCEPT !.since = rec[i].at]]
    /\ UNCHANGED <<now, row, redis, caller, worker, spent, history>>

-----------------------------------------------------------------------------
(* The environment                                                         *)

Tick ==
    /\ now < MaxTime
    /\ now' = now + 1
    /\ UNCHANGED <<row, redis, caller, worker, rec, spent, history>>

\* Between a worker's lock and its release.
InSection(w, h) ==
    /\ worker[w].shard = h
    /\ worker[w].pc \in {"poll", "remove", "fire", "commit", "rescore", "release"}

\* Broken variant: SET NX without EX, so that only a restart of Redis or its
\* owner frees a lock.
LockNeverExpires(h) ==
    /\ lock[h] # Nobody /\ lock[h] \in Workers /\ InSection(lock[h], h)
    /\ Spend("slow") /\ MarkStale(Schedules, "expiry")
    /\ lock' = [lock EXCEPT ![h] = Nobody]
    /\ UNCHANGED <<now, row, pending, shards, routing, caller, worker, rec, missing>>

\* A lock reaches its TTL: its owner is gone, or ("slow") still at work.
LockExpires(h) ==
    /\ lock[h] # Nobody
    /\ IF lock[h] \in Workers /\ InSection(lock[h], h)
       THEN Spend("slow") /\ MarkStale(Schedules, "expiry")
       ELSE UNCHANGED <<spent, stale>>
    /\ lock' = [lock EXCEPT ![h] = Nobody]
    /\ UNCHANGED <<now, row, pending, shards, routing, caller, worker, rec, missing>>

\* A scheduler process stops where it is and starts again under a new id.
Restart(i) ==
    /\ Spend("crash")
    /\ MarkStale({worker[w].cur : w \in {v \in Workers : InstanceOf[v] = i /\ At(v, "rescore")}}, "lost_rescore")
    /\ worker' = [w \in Workers |-> IF InstanceOf[w] = i THEN IdleWorker ELSE worker[w]]
    /\ lock' = [h \in Shards |-> IF lock[h] \in Workers /\ InstanceOf[lock[h]] = i THEN Orphan ELSE lock[h]]
    /\ rec' = [rec EXCEPT ![i] = IdleRec]
    /\ UNCHANGED <<now, row, pending, shards, routing, caller, missing>>

RedisLoss ==
    /\ Spend("loss")
    /\ pending' = [s \in Schedules |-> 0]
    /\ shards' = [h \in Shards |-> 0]
    /\ routing' = [h \in {} |-> 0]
    /\ lock' = [h \in Shards |-> Nobody]
    /\ MarkStale(Schedules, "data_loss")
    /\ MarkMissing(Schedules, "data_loss")
    /\ UNCHANGED <<now, row, caller, worker, rec>>

-----------------------------------------------------------------------------

Request(c) ==
    \E s \in Schedules :
        \/ \E h \in Shards : CreateSchedule(c, s, h) \/ CreateUncounted(c, s, h)
        \/ UpdateSchedule(c, s) \/ DeleteSchedule(c, s) \/ RestoreSchedule(c, s)
        \/ PauseSchedule(c, s) \/ ResumeSchedule(c, s)

CallerStep(c) ==
    \/ InsertSchedule(c) \/ InsertFails(c) \/ ReadBack(c)
    \/ ZaddPending(c) \/ ZaddShards(c) \/ ZremPending(c) \/ ZincrbyRouting(c)
    \/ RedisCallFails(c) \/ CountFails(c) \/ RequestStops(c)

WorkerStep(w) ==
    \/ \E h \in Shards : PickFromShards(w, h)
    \/ AcquireLock(w) \/ AcquireFails(w) \/ PollDue(w) \/ PollFails(w) \/ RemoveShard(w) \/ RemoveFails(w)
    \/ \E s \in Schedules : FireFetch(w, s) \/ FireSkip(w, s)
    \/ FireCommit(w) \/ FireRollback(w) \/ Rescore(w) \/ RescoreFails(w)
    \/ BatchDone(w) \/ ReleaseLock(w) \/ ReleaseFails(w)

ReconcileStep(i) ==
    \/ ReconcileQuery(i) \/ ReconcileFails(i)
    \/ \E s \in Schedules : ReconcileAdd(i, s)
    \/ \E h \in Shards : ReconcileShard(i, h)
    \/ ReconcileEnd(i)

Next ==
    \/ \E c \in Callers : Request(c) \/ CallerStep(c)
    \/ \E w \in Workers : WorkerStep(w)
    \/ \E i \in Instances : ReconcileStep(i) \/ Restart(i)
    \/ \E h \in Shards : LockExpires(h)
    \/ Tick \/ RedisLoss

Spec == Init /\ [][Next]_vars

\* A request, a worker task and a reconcile task that can go on do so, time
\* passes, and a lock nobody works under reaches its TTL.
Abandoned(h) == lock[h] \in Workers => ~InSection(lock[h], h)
Fairness ==
    /\ \A c \in Callers : WF_vars(CallerStep(c))
    /\ \A w \in Workers : WF_vars(WorkerStep(w))
    /\ \A i \in Instances : WF_vars(ReconcileStep(i))
    /\ \A h \in Shards : WF_vars(Abandoned(h) /\ LockExpires(h))
    /\ WF_vars(Tick)

FairSpec == Spec /\ Fairness

-----------------------------------------------------------------------------
(* Properties                                                              *)

\* Two workers are never between the lock and the release of the same shard,
\* unless a lock expired under its owner or Redis lost it.
OneWorkerPerShard ==
    \A h \in Shards : \A v, w \in Workers :
        v # w /\ InSection(v, h) /\ InSection(w, h) => spent["slow"] > 0 \/ spent["loss"] > 0

\* fire_inner does not look at next_run_at before it fires.  Still no schedule
\* is fired before its time, a second time for one occurrence included, unless
\* a lock was lost under a worker, the re-score after an earlier fire did not
\* happen, an API request or a reconcile run wrote a next_run_at it had read
\* before that fire, or the cron expression was changed.
NoPrematureFire ==
    [][\A w \in Workers :
          worker[w].pc = "commit" /\ worker'[w].pc = "rescore"
             => \/ row[worker[w].cur].next <= now
                \/ stale[worker[w].cur] # {}]_vars

\* An active schedule is in sched:pending, or the request that made it active
\* is about to add it, or its ZADD failed, a ZREM of an earlier pause or delete
\* came after its ZADD, or Redis lost it: nothing the workers, the reconcile
\* task or other requests do takes it out.
NoForgottenSchedule ==
    \A s \in Schedules : Active(row[s]) =>
        \/ pending[s] # 0
        \/ \E c \in Callers : caller[c].sched = s /\ (Doing(c, "read") \/ Doing(c, "zadd"))
        \/ missing[s] # {}

\* sched:routing never counts fewer schedules of a shard than exist, changes
\* under way considered, as long as every ZINCRBY is made and Redis keeps its
\* data.
Owing(h, P(_)) == Cardinality({c \in Callers : caller[c].shard = h /\ P(caller[c])})
RoutingCovers ==
    (\A k \in {"routing", "crash", "loss"} : spent[k] = 0) =>
        \A h \in Shards :
            routing[h] + Owing(h, LAMBDA r : r.count = 1) >=
               Cardinality({s \in Schedules : Exists(row[s]) /\ row[s].shard = h})
               + Owing(h, LAMBDA r : r.pc = "insert") + Owing(h, LAMBDA r : r.count = -1)

\* A locked shard is unlocked: by its worker, or when a worker died or could
\* not reach Redis, by the TTL.
LockIsFreed == \A h \in Shards : lock[h] # Nobody ~> lock[h] = Nobody

-----------------------------------------------------------------------------
(* What documents and comments say of the scheduler                        *)

\* "The schedule is still in sched:pending; reconciler re-adds shard within 2
\* min": a due schedule does not stay in a shard no worker looks at.
DueIsDiscovered ==
    \A s \in Schedules :
        Active(row[s]) /\ pending[s] # 0 /\ pending[s] <= now
           ~> \/ ~Active(row[s]) \/ pending[s] = 0 \/ pending[s] > now
              \/ shards[row[s].shard] # 0
=============================================================================
