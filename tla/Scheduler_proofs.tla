--------------------------- MODULE Scheduler_proofs ---------------------------
(***************************************************************************)
(* Proofs about Scheduler, for every number of schedules, shards, workers, *)
(* instances and requests, and every budget of calls and faults.           *)
(*                                                                         *)
(* SafetyInv adds to the type invariant that a worker between lock and     *)
(* release owns the lock (LockInv) and, for a schedule with no cause to be *)
(* stale, that its score is not earlier than next_run_at unless the re-    *)
(* score of a fire is still to come (ScoreInv), and that what a worker     *)
(* took from the sorted set to fire is due in the table (HeldInv).         *)
(*                                                                         *)
(* RoutingCovers compares a count with the cardinality of four sets of     *)
(* which every step of a request changes one element. RoutingInv adds that *)
(* the sets are finite, that the counter of every shard is there, and that *)
(* a request owes nothing before its insert; a step is then shown to add   *)
(* to the count, or to what is still to be counted, at least what it adds  *)
(* to the schedules of the shard (Balanced).                               *)
(***************************************************************************)
EXTENDS Scheduler, TLAPS

Rows == ScheduleRows(Shards, Nobody)

-----------------------------------------------------------------------------
(* Type correctness                                                        *)

\* What a request, a worker or a reconcile task has in hand exists.
CallerRef(c) ==
    caller[c].pc # "idle" =>
        /\ caller[c].sched \in Schedules
        /\ caller[c].shard \in Shards
        /\ caller[c].pc = "insert" => row[caller[c].sched].status = "none" /\ caller[c].next # 0
        /\ caller[c].pc = "zadd" => caller[c].next # 0
        /\ caller[c].pc # "insert" => row[caller[c].sched].status # "none"

WorkerRef(w) ==
    /\ worker[w].pc # "idle" => worker[w].shard \in Shards
    /\ worker[w].pc \in {"commit", "rescore"} =>
          /\ worker[w].cur \in Schedules \ worker[w].batch
          /\ row[worker[w].cur].status # "none"
          /\ row[worker[w].cur].shard = worker[w].shard
          /\ worker[w].next # 0
    /\ \A s \in worker[w].batch : row[s].status # "none" /\ row[s].shard = worker[w].shard

\* A schedule that is being created is in the hands of one request.
OneCreator(c, d) == caller[c].pc = "insert" /\ caller[d].sched = caller[c].sched => d = c

Refs ==
    /\ \A s \in Schedules : row[s].status # "none" => row[s].shard \in Shards /\ row[s].next # 0
    /\ \A s \in Schedules : pending[s] # 0 => row[s].status # "none"
    /\ \A c \in Callers : CallerRef(c)
    /\ \A c, d \in Callers : OneCreator(c, d)
    /\ \A w \in Workers : WorkerRef(w)
    /\ \A i \in Instances : \A s \in Schedules : rec[i].rows[s] # 0 => row[s].status # "none"

TypeInv == TypeOK /\ Refs

LEMMA InitTypeInv == Init => TypeInv
  <1> SUFFICES ASSUME Init PROVE TypeInv
    OBVIOUS
  <1> USE SchedulerAssumption
  <1>1. TypeOK
    BY DEF Init, TypeOK, NoSchedule, ScheduleRows, IdleCaller, IdleWorker, IdleRec,
           CallerStates, WorkerStates, RecStates
  <1>2. Refs
    BY Zenon DEF Init, Refs, CallerRef, WorkerRef, OneCreator, NoSchedule, IdleCaller, IdleWorker, IdleRec
  <1> QED
    BY Zenon, <1>1, <1>2 DEF TypeInv

\* The updates the actions are made of keep the types.
LEMMA SpendType ==
    ASSUME TypeOK, NEW K, SpendAll(K)
    PROVE  spent' \in [Events -> Nat]
  BY DEF TypeOK, SpendAll

LEMMA MarkStaleType ==
    ASSUME TypeOK, NEW S, NEW why \in StaleCauses, MarkStale(S, why)
    PROVE  stale' \in [Schedules -> SUBSET StaleCauses]
  BY Zenon DEF TypeOK, MarkStale

LEMMA MarkMissingType ==
    ASSUME TypeOK, NEW S, NEW why \in MissingCauses, MarkMissing(S, why)
    PROVE  missing' \in [Schedules -> SUBSET MissingCauses]
  BY Zenon DEF TypeOK, MarkMissing

LEMMA ZaddMemberType ==
    ASSUME TypeOK, NEW s \in Schedules, NEW n \in Nat, ZaddMember(s, n)
    PROVE  /\ pending' \in [Schedules -> Nat]
           /\ stale' \in [Schedules -> SUBSET StaleCauses]
           /\ missing' \in [Schedules -> SUBSET MissingCauses]
  <1>1. "stale_score" \in StaleCauses
    BY Zenon DEF StaleCauses
  <1>2. stale' \in [Schedules -> SUBSET StaleCauses]
    BY Zenon, <1>1, MarkStaleType DEF ZaddMember
  <1> QED
    BY Zenon, <1>2 DEF ZaddMember, TypeOK

LEMMA ZaddGtType ==
    ASSUME TypeOK, NEW h \in Shards, NEW t \in Nat, ZaddGt(h, t)
    PROVE  shards' \in [Shards -> Nat]
  BY Zenon DEF TypeOK, ZaddGt

LEMMA ZincrbyType ==
    ASSUME TypeOK, NEW h \in Shards, NEW d \in Int, Zincrby(h, d)
    PROVE  DOMAIN routing' \subseteq Shards /\ routing' \in [DOMAIN routing' -> Int]
  BY DEF TypeOK, Zincrby

LEMMA SetRowType ==
    ASSUME TypeOK, NEW s \in Schedules, NEW r \in Rows, SetRow(s, r)
    PROVE  row' \in [Schedules -> Rows]
  BY Zenon DEF TypeOK, SetRow, Rows

LEMMA NextRunsType ==
    ASSUME NEW t \in Nat, NEW n \in NextRuns(t, Gaps)
    PROVE  n \in Nat /\ n > t
  BY SchedulerAssumption DEF NextRuns

LEMMA RowTypes ==
    ASSUME NEW r \in Rows, NEW t \in Nat, NEW n \in Nat, NEW h \in Shards
    PROVE  /\ CreatedSchedule(h, n, t) \in Rows
           /\ UpdatedSchedule(r, n, t) \in Rows
           /\ DeletedSchedule(r, t) \in Rows
           /\ RestoredSchedule(r, t) \in Rows
           /\ WithStatus(r, "paused", t) \in Rows
           /\ WithStatus(r, "active", t) \in Rows
           /\ FiredSchedule(r, n, t) \in Rows
  BY Zenon DEF Rows, ScheduleRows, CreatedSchedule, UpdatedSchedule, DeletedSchedule, RestoredSchedule,
         WithStatus, FiredSchedule

LEMMA IdleTypes == IdleCaller \in CallerStates /\ IdleWorker \in WorkerStates /\ IdleRec \in RecStates
  BY Zenon DEF IdleCaller, IdleWorker, IdleRec, CallerStates, WorkerStates, RecStates

LEMMA ThenType ==
    ASSUME TypeOK, NEW c \in Callers, NEW s \in Schedules, NEW pc \in {"read", "zrem"}, NEW d \in {-1, 0, 1},
           Then(c, s, pc, d)
    PROVE  caller' \in [Callers -> CallerStates]
  BY Zenon DEF TypeOK, Then, CallerStates, ScheduleRows

LEMMA AdvanceType ==
    ASSUME TypeOK, NEW c \in Callers, Advance(c)
    PROVE  caller' \in [Callers -> CallerStates]
  <1>1. caller[c] \in CallerStates
    BY Zenon DEF TypeOK
  <1>2. [caller[c] EXCEPT !.pc = "shards"] \in CallerStates /\ [caller[c] EXCEPT !.pc = "count"] \in CallerStates
    BY Zenon, <1>1 DEF CallerStates
  <1> QED
    BY Zenon, <1>2, IdleTypes DEF Advance, TypeOK

LEMMA GoType ==
    ASSUME TypeOK, NEW w \in Workers,
           NEW pc \in {"poll", "remove", "fire", "rescore", "release"}, Go(w, pc)
    PROVE  worker' \in [Workers -> WorkerStates]
  <1>1. worker[w] \in WorkerStates
    BY Zenon DEF TypeOK
  <1>2. [worker[w] EXCEPT !.pc = pc] \in WorkerStates
    BY Zenon, <1>1 DEF WorkerStates
  <1>3. worker' = [worker EXCEPT ![w] = [worker[w] EXCEPT !.pc = pc]]
    BY Zenon DEF Go, TypeOK
  <1> QED
    BY Zenon, <1>2, <1>3 DEF TypeOK

LEMMA QuitType ==
    ASSUME TypeOK, NEW w \in Workers, Quit(w)
    PROVE  worker' \in [Workers -> WorkerStates]
  BY Zenon, IdleTypes DEF TypeOK, Quit

LEMMA TypeRequest ==
    ASSUME TypeInv, NEW c \in Callers, Request(c)
    PROVE  TypeOK'
  <1>0. TypeOK /\ now \in Nat /\ row \in [Schedules -> Rows] /\ caller \in [Callers -> CallerStates]
    BY Zenon DEF TypeInv, TypeOK, Rows
  <1> USE SchedulerAssumption
  <1>1. PICK s \in Schedules :
           \/ \E h \in Shards : CreateSchedule(c, s, h) \/ CreateUncounted(c, s, h)
           \/ UpdateSchedule(c, s) \/ DeleteSchedule(c, s) \/ RestoreSchedule(c, s)
           \/ PauseSchedule(c, s) \/ ResumeSchedule(c, s)
    BY Zenon DEF Request
  <1>2. ASSUME NEW h \in Shards, CreateSchedule(c, s, h) \/ CreateUncounted(c, s, h) PROVE TypeOK'
    <2>1. PICK n \in NextRuns(now, Gaps) :
             caller' = [caller EXCEPT ![c] = [pc |-> "insert", sched |-> s, next |-> n, shard |-> h, count |-> 0]]
      BY Zenon, <1>2 DEF CreateSchedule, CreateUncounted
    <2>2. caller' \in [Callers -> CallerStates]
      BY Zenon, <1>0, <2>1, NextRunsType DEF CallerStates
    <2>3. spent' \in [Events -> Nat]
      BY Zenon, <1>0, <1>2, SpendType DEF CreateSchedule, CreateUncounted, Spend
    <2>4. DOMAIN routing' \subseteq Shards /\ routing' \in [DOMAIN routing' -> Int]
      BY <1>0, <1>2, ZincrbyType DEF CreateSchedule, CreateUncounted, redis, TypeOK
    <2> QED
      BY Zenon, <1>0, <1>2, <2>2, <2>3, <2>4 DEF CreateSchedule, CreateUncounted, redis, history, TypeOK
  <1>3. CASE UpdateSchedule(c, s)
    <2>1. PICK n \in NextRuns(now, Gaps) \cup {row[s].next} :
             /\ SetRow(s, UpdatedSchedule(row[s], n, now))
             /\ Then(c, s, "read", 0)
             /\ MarkStale(IF n # row[s].next THEN {s} ELSE {}, "rescheduled")
      BY Zenon, <1>3 DEF UpdateSchedule
    <2>2. row[s] \in Rows /\ n \in Nat
      BY <1>0, <2>1, NextRunsType DEF Rows, ScheduleRows
    <2>3. UpdatedSchedule(row[s], n, now) \in Rows
      BY Zenon, <1>0, <2>2 DEF Rows, ScheduleRows, UpdatedSchedule
    <2>4. row' \in [Schedules -> Rows]
      BY Zenon, <1>0, <2>1, <2>3, SetRowType
    <2>5. caller' \in [Callers -> CallerStates]
      BY Zenon, <1>0, <2>1, ThenType
    <2>6. stale' \in [Schedules -> SUBSET StaleCauses]
      BY Zenon, <1>0, <2>1, MarkStaleType DEF StaleCauses
    <2>7. spent' \in [Events -> Nat]
      BY Zenon, <1>0, <1>3, SpendType DEF UpdateSchedule, Spend
    <2> QED
      BY Zenon, <1>0, <1>3, <2>4, <2>5, <2>6, <2>7 DEF UpdateSchedule, redis, TypeOK, Rows
  <1>4. CASE DeleteSchedule(c, s) \/ RestoreSchedule(c, s) \/ PauseSchedule(c, s) \/ ResumeSchedule(c, s)
    <2>1. row[s] \in Rows
      BY Zenon, <1>0
    <2>2. /\ DeletedSchedule(row[s], now) \in Rows /\ RestoredSchedule(row[s], now) \in Rows
          /\ WithStatus(row[s], "paused", now) \in Rows /\ WithStatus(row[s], "active", now) \in Rows
      BY Zenon, <1>0, <2>1 DEF Rows, ScheduleRows, DeletedSchedule, RestoredSchedule, WithStatus
    <2>3. row' \in [Schedules -> Rows]
      BY Zenon, <1>0, <1>4, <2>2, SetRowType DEF DeleteSchedule, RestoreSchedule, PauseSchedule, ResumeSchedule
    <2>4. caller' \in [Callers -> CallerStates]
      BY Zenon, <1>0, <1>4, ThenType DEF DeleteSchedule, RestoreSchedule, PauseSchedule, ResumeSchedule
    <2>5. spent' \in [Events -> Nat]
      BY Zenon, <1>0, <1>4, SpendType DEF DeleteSchedule, RestoreSchedule, PauseSchedule, ResumeSchedule, Spend
    <2> QED
      BY Zenon, <1>0, <1>4, <2>3, <2>4, <2>5
      DEF DeleteSchedule, RestoreSchedule, PauseSchedule, ResumeSchedule, redis, history, TypeOK, Rows
  <1> QED
    BY Zenon, <1>1, <1>2, <1>3, <1>4

LEMMA TypeCallerStep ==
    ASSUME TypeInv, NEW c \in Callers, CallerStep(c)
    PROVE  TypeOK'
  <1>0. /\ TypeOK /\ now \in Nat /\ row \in [Schedules -> Rows] /\ caller \in [Callers -> CallerStates]
        /\ caller[c] \in CallerStates
    BY Zenon DEF TypeInv, TypeOK, Rows
  <1>r. caller[c].pc # "idle" => caller[c].sched \in Schedules /\ caller[c].shard \in Shards
    BY Zenon DEF TypeInv, Refs, CallerRef
  <1>f. caller[c].next \in Nat /\ caller[c].count \in Int
    BY <1>0 DEF CallerStates
  <1>1. CASE InsertSchedule(c)
    <2>1. CreatedSchedule(caller[c].shard, caller[c].next, now) \in Rows
      BY Zenon, <1>0, <1>1, <1>r, <1>f DEF InsertSchedule, Doing, Rows, ScheduleRows, CreatedSchedule
    <2>2. row' \in [Schedules -> Rows]
      BY Zenon, <1>0, <1>1, <1>r, <2>1, SetRowType DEF InsertSchedule, Doing
    <2>3. caller' \in [Callers -> CallerStates]
      BY Zenon, <1>0, <1>1 DEF InsertSchedule, CallerStates
    <2> QED
      BY Zenon, <1>0, <1>1, <2>2, <2>3 DEF InsertSchedule, redis, history, TypeOK, Rows
  <1>2. CASE InsertFails(c)
    BY Zenon, <1>0, <1>2, SpendType, IdleTypes DEF InsertFails, redis, history, TypeOK, Spend
  <1>3. CASE ReadBack(c)
    <2>1. row[caller[c].sched].next \in Nat
      BY Zenon, <1>0, <1>3, <1>r DEF ReadBack, Doing, Rows, ScheduleRows
    <2>2. [caller[c] EXCEPT !.pc = "zadd", !.next = row[caller[c].sched].next] \in CallerStates
      BY Zenon, <1>0, <2>1 DEF CallerStates
    <2> QED
      BY Zenon, <1>0, <1>3, <2>2 DEF ReadBack, redis, history, TypeOK
  <1>4. CASE ZaddPending(c)
    <2>1. /\ pending' \in [Schedules -> Nat] /\ stale' \in [Schedules -> SUBSET StaleCauses]
          /\ missing' \in [Schedules -> SUBSET MissingCauses]
      BY Zenon, <1>0, <1>4, <1>r, <1>f, ZaddMemberType DEF ZaddPending, Doing
    <2> QED
      BY Zenon, <1>0, <1>4, <2>1, AdvanceType DEF ZaddPending, TypeOK
  <1>5. CASE ZaddShards(c)
    <2>1. shards' \in [Shards -> Nat]
      BY Zenon, <1>0, <1>5, <1>r, ZaddGtType DEF ZaddShards, Doing
    <2> QED
      BY Zenon, <1>0, <1>5, <2>1, AdvanceType DEF ZaddShards, history, TypeOK
  <1>6. CASE ZremPending(c)
    <2>1. missing' \in [Schedules -> SUBSET MissingCauses]
      BY Zenon, <1>0, <1>6, MarkMissingType DEF ZremPending, MissingCauses
    <2>2. pending' \in [Schedules -> Nat]
      BY Zenon, <1>0, <1>6 DEF ZremPending, TypeOK
    <2> QED
      BY Zenon, <1>0, <1>6, <2>1, <2>2, AdvanceType DEF ZremPending, TypeOK
  <1>7. CASE ZincrbyRouting(c)
    <2>1. DOMAIN routing' \subseteq Shards /\ routing' \in [DOMAIN routing' -> Int]
      BY Zenon, <1>0, <1>7, <1>r, <1>f, ZincrbyType DEF ZincrbyRouting, Doing
    <2> QED
      BY Zenon, <1>0, <1>7, <2>1, AdvanceType DEF ZincrbyRouting, history, TypeOK
  <1>8. CASE RedisCallFails(c) \/ RequestStops(c)
    <2>1. missing' \in [Schedules -> SUBSET MissingCauses]
      BY Zenon, <1>0, <1>8, MarkMissingType DEF RedisCallFails, RequestStops, MissingCauses
    <2>2. caller' \in [Callers -> CallerStates]
      BY Zenon, <1>0, <1>8, AdvanceType, IdleTypes DEF RedisCallFails, RequestStops
    <2>3. spent' \in [Events -> Nat]
      BY Zenon, <1>0, <1>8, SpendType DEF RedisCallFails, RequestStops, Spend
    <2> QED
      BY Zenon, <1>0, <1>8, <2>1, <2>2, <2>3 DEF RedisCallFails, RequestStops, redis, TypeOK
  <1>9. CASE CountFails(c)
    BY Zenon, <1>0, <1>9, AdvanceType, SpendType DEF CountFails, redis, history, TypeOK, Spend
  <1> QED
    BY Zenon, <1>1, <1>2, <1>3, <1>4, <1>5, <1>6, <1>7, <1>8, <1>9 DEF CallerStep

LEMMA TypeWorkerStep ==
    ASSUME TypeInv, NEW w \in Workers, WorkerStep(w)
    PROVE  TypeOK'
  <1>0. /\ TypeOK /\ now \in Nat /\ row \in [Schedules -> Rows] /\ worker \in [Workers -> WorkerStates]
        /\ worker[w] \in WorkerStates /\ lock \in [Shards -> Workers \cup {Orphan, Nobody}]
    BY Zenon DEF TypeInv, TypeOK, Rows
  <1>r. /\ worker[w].pc # "idle" => worker[w].shard \in Shards
        /\ worker[w].pc \in {"commit", "rescore"} => worker[w].cur \in Schedules
    BY Zenon DEF TypeInv, Refs, WorkerRef
  <1>f. worker[w].next \in Nat /\ worker[w].batch \subseteq Schedules
    BY Zenon, <1>0 DEF WorkerStates
  <1>1. ASSUME NEW h \in Shards, PickFromShards(w, h) PROVE TypeOK'
    <2>1. [IdleWorker EXCEPT !.pc = "lock", !.shard = h, !.score = shards[h]] \in WorkerStates
      BY Zenon, <1>0 DEF TypeOK, IdleWorker, WorkerStates
    <2> QED
      BY Zenon, <1>0, <1>1, <2>1 DEF PickFromShards, redis, history, TypeOK
  <1>2. CASE AcquireLock(w)
    <2>1. worker' \in [Workers -> WorkerStates]
      BY Zenon, <1>0, <1>2, GoType, QuitType DEF AcquireLock
    <2>2. lock' \in [Shards -> Workers \cup {Orphan, Nobody}]
      BY Zenon, <1>0, <1>2 DEF AcquireLock
    <2> QED
      BY Zenon, <1>0, <1>2, <2>1, <2>2 DEF AcquireLock, history, TypeOK
  <1>3. CASE AcquireFails(w)
    <2>1. lock' \in [Shards -> Workers \cup {Orphan, Nobody}]
      BY Zenon, <1>0, <1>3 DEF AcquireFails
    <2> QED
      BY Zenon, <1>0, <1>3, <2>1, QuitType, SpendType DEF AcquireFails, history, TypeOK, Spend
  <1>4. CASE PollDue(w)
    <2>1. worker' \in [Workers -> WorkerStates]
      <3>1. CASE Due(worker[w].shard) = {}
        BY Zenon, <1>0, <1>4, <3>1, GoType DEF PollDue
      <3>2. CASE Due(worker[w].shard) # {}
        <4>1. PICK B \in SUBSET Due(worker[w].shard) : worker' = [worker EXCEPT ![w].pc = "fire", ![w].batch = B]
          BY Zenon, <1>4, <3>2 DEF PollDue
        <4>2. B \in SUBSET Schedules
          BY Zenon, <4>1 DEF Due
        <4>3. [[worker[w] EXCEPT !.pc = "fire"] EXCEPT !.batch = B] \in WorkerStates
          BY Zenon, <1>0, <4>2 DEF WorkerStates
        <4> QED
          BY Zenon, <1>0, <4>1, <4>2 DEF WorkerStates
      <3> QED
        BY Zenon, <3>1, <3>2
    <2> QED
      BY Zenon, <1>0, <1>4, <2>1 DEF PollDue, redis, history, TypeOK
  <1>5. CASE PollFails(w) \/ RemoveFails(w)
    <2>1. worker' \in [Workers -> WorkerStates]
      BY Zenon, <1>0, <1>5, GoType DEF PollFails, RemoveFails
    <2>2. spent' \in [Events -> Nat]
      BY Zenon, <1>0, <1>5, SpendType DEF PollFails, RemoveFails, Spend
    <2> QED
      BY Zenon, <1>0, <1>5, <2>1, <2>2 DEF PollFails, RemoveFails, redis, history, TypeOK
  <1>6. CASE RemoveShard(w)
    <2>1. shards' \in [Shards -> Nat]
      BY Zenon, <1>0, <1>6 DEF RemoveShard, TypeOK
    <2> QED
      BY Zenon, <1>0, <1>6, <2>1, GoType DEF RemoveShard, history, TypeOK
  <1>7. ASSUME NEW s \in Schedules, FireFetch(w, s) PROVE TypeOK'
    <2>1. PICK n \in NextRuns(now, Gaps) :
             worker' = [worker EXCEPT ![w] = [@ EXCEPT !.pc = "commit", !.batch = worker[w].batch \ {s}, !.cur = s, !.next = n]]
      BY Zenon, <1>7 DEF FireFetch
    <2>2. [worker[w] EXCEPT !.pc = "commit", !.batch = worker[w].batch \ {s}, !.cur = s, !.next = n] \in WorkerStates
      BY Zenon, <1>0, <2>1, NextRunsType DEF WorkerStates
    <2>3. worker' \in [Workers -> WorkerStates]
      BY Zenon, <1>0, <2>1, <2>2
    <2> QED
      BY Zenon, <1>0, <1>7, <2>3 DEF FireFetch, redis, history, TypeOK
  <1>8. ASSUME NEW s \in Schedules, FireSkip(w, s) PROVE TypeOK'
    <2>1. [worker[w] EXCEPT !.batch = @ \ {s}] \in WorkerStates
      BY Zenon, <1>0 DEF WorkerStates
    <2>2. worker' = [worker EXCEPT ![w] = [worker[w] EXCEPT !.batch = @ \ {s}]]
      BY Zenon, <1>0, <1>8 DEF FireSkip
    <2>3. worker' \in [Workers -> WorkerStates]
      BY Zenon, <1>0, <2>1, <2>2
    <2>4. spent' \in [Events -> Nat]
      BY Zenon, <1>0, <1>8, SpendType DEF FireSkip, Spend, TypeOK
    <2> QED
      BY Zenon, <1>0, <1>8, <2>3, <2>4 DEF FireSkip, redis, history, TypeOK
  <1>9. CASE FireCommit(w)
    <2>0. row[worker[w].cur] \in Rows
      BY Zenon, <1>0, <1>9, <1>r DEF FireCommit, At
    <2>1. FiredSchedule(row[worker[w].cur], worker[w].next, now) \in Rows
      BY Zenon, <1>0, <1>f, <2>0 DEF Rows, ScheduleRows, FiredSchedule
    <2>2. row' \in [Schedules -> Rows]
      BY Zenon, <1>0, <1>9, <1>r, <2>1, SetRowType DEF FireCommit, At
    <2> QED
      BY Zenon, <1>0, <1>9, <2>2, GoType DEF FireCommit, redis, history, TypeOK, Rows
  <1>10. CASE FireRollback(w)
    <2>1. spent' \in [Events -> Nat]
      BY Zenon, <1>0, <1>10, SpendType DEF FireRollback, Spend, TypeOK
    <2> QED
      BY Zenon, <1>0, <1>10, <2>1, GoType DEF FireRollback, redis, history, TypeOK
  <1>11. CASE Rescore(w)
    <2>1. /\ pending' \in [Schedules -> Nat] /\ stale' \in [Schedules -> SUBSET StaleCauses]
          /\ missing' \in [Schedules -> SUBSET MissingCauses]
      BY Zenon, <1>0, <1>11, <1>r, <1>f, ZaddMemberType DEF Rescore, At
    <2> QED
      BY Zenon, <1>0, <1>11, <2>1, GoType DEF Rescore, TypeOK
  <1>12. CASE RescoreFails(w)
    <2>1. stale' \in [Schedules -> SUBSET StaleCauses]
      BY Zenon, <1>0, <1>12, MarkStaleType DEF RescoreFails, StaleCauses
    <2> QED
      BY Zenon, <1>0, <1>12, <2>1, GoType, SpendType DEF RescoreFails, redis, TypeOK, Spend
  <1>13. CASE BatchDone(w)
    BY Zenon, <1>0, <1>13, GoType DEF BatchDone, redis, history, TypeOK
  <1>14. CASE ReleaseLock(w)
    <2>1. lock' \in [Shards -> Workers \cup {Orphan, Nobody}]
      BY Zenon, <1>0, <1>14 DEF ReleaseLock
    <2> QED
      BY Zenon, <1>0, <1>14, <2>1, QuitType DEF ReleaseLock, history, TypeOK
  <1>15. CASE ReleaseFails(w)
    BY Zenon, <1>0, <1>15, QuitType, SpendType DEF ReleaseFails, redis, history, TypeOK, Spend
  <1> QED
    BY Zenon, <1>1, <1>2, <1>3, <1>4, <1>5, <1>6, <1>7, <1>8, <1>9, <1>10, <1>11, <1>12, <1>13, <1>14, <1>15
    DEF WorkerStep

LEMMA TypeReconcileStep ==
    ASSUME TypeInv, NEW i \in Instances, ReconcileStep(i)
    PROVE  TypeOK'
  <1>0. /\ TypeOK /\ now \in Nat /\ row \in [Schedules -> Rows] /\ rec \in [Instances -> RecStates]
        /\ rec[i] \in RecStates
    BY Zenon DEF TypeInv, TypeOK, Rows
  <1>1. CASE ReconcileQuery(i)
    <2>1. [s \in Schedules |-> IF Reconciled(row[s], rec[i].since) THEN row[s].next ELSE 0] \in [Schedules -> Nat]
      BY Zenon, <1>0 DEF Rows, ScheduleRows
    <2>2. rec' \in [Instances -> RecStates]
      BY Zenon, <1>0, <1>1, <2>1 DEF ReconcileQuery, RecStates
    <2> QED
      BY Zenon, <1>0, <1>1, <2>2 DEF ReconcileQuery, redis, history, TypeOK
  <1>2. CASE ReconcileFails(i)
    <2>1. rec' \in [Instances -> RecStates]
      BY Zenon, <1>0, <1>2 DEF ReconcileFails, RecStates
    <2> QED
      BY Zenon, <1>0, <1>2, <2>1, SpendType DEF ReconcileFails, redis, history, TypeOK, Spend
  <1>3. ASSUME NEW s \in Schedules, ReconcileAdd(i, s) PROVE TypeOK'
    <2>1. rec[i].rows \in [Schedules -> Nat] /\ row[s].shard \in Shards
      BY Zenon, <1>0, <1>3 DEF ReconcileAdd, RecStates, TypeInv, Refs
    <2>2. [rec[i] EXCEPT !.rows = [rec[i].rows EXCEPT ![s] = 0],
                         !.shards = rec[i].shards \cup {row[s].shard}] \in RecStates
      BY Zenon, <1>0, <2>1 DEF RecStates
    <2>3. rec' \in [Instances -> RecStates]
      BY Zenon, <1>0, <1>3, <2>2 DEF ReconcileAdd
    <2>4. /\ pending' \in [Schedules -> Nat] /\ stale' \in [Schedules -> SUBSET StaleCauses]
          /\ missing' \in [Schedules -> SUBSET MissingCauses]
      BY Zenon, <1>0, <1>3, <2>1, ZaddMemberType DEF ReconcileAdd, history, TypeOK
    <2>5. spent' \in [Events -> Nat]
      BY Zenon, <1>0, <1>3, SpendType DEF ReconcileAdd, Spend, TypeOK
    <2> QED
      BY Zenon, <1>0, <1>3, <2>3, <2>4, <2>5 DEF ReconcileAdd, TypeOK
  <1>4. ASSUME NEW h \in Shards, ReconcileShard(i, h) PROVE TypeOK'
    <2>1. rec[i].at \in Nat
      BY Zenon, <1>0 DEF RecStates
    <2>2. rec' \in [Instances -> RecStates]
      BY Zenon, <1>0, <1>4 DEF ReconcileShard, RecStates
    <2>3. shards' \in [Shards -> Nat]
      BY Zenon, <1>0, <1>4, <2>1, ZaddGtType DEF ReconcileShard, TypeOK
    <2>4. spent' \in [Events -> Nat]
      BY Zenon, <1>0, <1>4, SpendType DEF ReconcileShard, Spend, TypeOK
    <2> QED
      BY Zenon, <1>0, <1>4, <2>2, <2>3, <2>4 DEF ReconcileShard, history, TypeOK
  <1>5. CASE ReconcileEnd(i)
    <2>1. [IdleRec EXCEPT !.since = rec[i].at] \in RecStates
      BY Zenon, <1>0 DEF RecStates, IdleRec
    <2> QED
      BY Zenon, <1>0, <1>5, <2>1 DEF ReconcileEnd, redis, history, TypeOK
  <1> QED
    BY Zenon, <1>1, <1>2, <1>3, <1>4, <1>5 DEF ReconcileStep

LEMMA TypeEnvironment ==
    ASSUME TypeInv,
           \/ \E i \in Instances : Restart(i)
           \/ \E h \in Shards : LockExpires(h)
           \/ Tick \/ RedisLoss
    PROVE  TypeOK'
  <1>0. TypeOK
    BY Zenon DEF TypeInv
  <1>1. ASSUME NEW i \in Instances, Restart(i) PROVE TypeOK'
    <2>1. stale' \in [Schedules -> SUBSET StaleCauses]
      BY Zenon, <1>0, <1>1, MarkStaleType DEF Restart, StaleCauses
    <2>2. worker' \in [Workers -> WorkerStates] /\ rec' \in [Instances -> RecStates]
      BY Zenon, <1>0, <1>1, IdleTypes DEF Restart, TypeOK
    <2>3. lock' \in [Shards -> Workers \cup {Orphan, Nobody}]
      BY Zenon, <1>0, <1>1 DEF Restart, TypeOK
    <2> QED
      BY Zenon, <1>0, <1>1, <2>1, <2>2, <2>3, SpendType DEF Restart, TypeOK, Spend
  <1>2. ASSUME NEW h \in Shards, LockExpires(h) PROVE TypeOK'
    <2>1. stale' \in [Schedules -> SUBSET StaleCauses]
      BY Zenon, <1>0, <1>2, MarkStaleType DEF LockExpires, StaleCauses, TypeOK
    <2>2. lock' \in [Shards -> Workers \cup {Orphan, Nobody}]
      BY Zenon, <1>0, <1>2 DEF LockExpires, TypeOK
    <2>3. spent' \in [Events -> Nat]
      BY Zenon, <1>0, <1>2, SpendType DEF LockExpires, TypeOK, Spend
    <2> QED
      BY Zenon, <1>0, <1>2, <2>1, <2>2, <2>3 DEF LockExpires, TypeOK
  <1>3. CASE Tick
    BY <1>0, <1>3 DEF Tick, redis, history, TypeOK
  <1>4. CASE RedisLoss
    <2>1. stale' \in [Schedules -> SUBSET StaleCauses]
      BY Zenon, <1>0, <1>4, MarkStaleType DEF RedisLoss, StaleCauses
    <2>2. missing' \in [Schedules -> SUBSET MissingCauses]
      BY Zenon, <1>0, <1>4, MarkMissingType DEF RedisLoss, MissingCauses
    <2>3. DOMAIN routing' \subseteq Shards /\ routing' \in [DOMAIN routing' -> Int]
      BY Zenon, <1>4 DEF RedisLoss
    <2> QED
      BY Zenon, <1>0, <1>4, <2>1, <2>2, <2>3, SpendType DEF RedisLoss, TypeOK, Spend
  <1> QED
    BY Zenon, <1>1, <1>2, <1>3, <1>4

LEMMA TypeStep == TypeInv /\ [Next]_vars => TypeOK'
  <1> SUFFICES ASSUME TypeInv, [Next]_vars PROVE TypeOK'
    OBVIOUS
  <1>1. CASE Next
    BY Zenon, <1>1, TypeRequest, TypeCallerStep, TypeWorkerStep, TypeReconcileStep, TypeEnvironment DEF Next
  <1>2. CASE UNCHANGED vars
    BY Zenon, <1>2 DEF vars, TypeInv, TypeOK
  <1> QED
    BY Zenon, <1>1, <1>2

-----------------------------------------------------------------------------
(* What a step may change                                                  *)

LEMMA RowFrame ==
    ASSUME [Next]_vars
    PROVE  \/ row' = row
           \/ \E c \in Callers : InsertSchedule(c)
           \/ \E c \in Callers, s \in Schedules :
                 \/ UpdateSchedule(c, s) \/ DeleteSchedule(c, s) \/ RestoreSchedule(c, s)
                 \/ PauseSchedule(c, s) \/ ResumeSchedule(c, s)
           \/ \E w \in Workers : FireCommit(w)
  <1>1. ASSUME NEW c \in Callers, CallerStep(c) PROVE row' = row \/ InsertSchedule(c)
    BY Zenon, <1>1 DEF CallerStep, InsertFails, ReadBack, ZaddPending, ZaddShards, ZremPending, ZincrbyRouting,
                RedisCallFails, CountFails, RequestStops
  <1>2. ASSUME NEW w \in Workers, WorkerStep(w) PROVE row' = row \/ FireCommit(w)
    BY ZenonT(40), <1>2 DEF WorkerStep, PickFromShards, AcquireLock, AcquireFails, PollDue, PollFails, RemoveShard,
                RemoveFails, FireFetch, FireSkip, FireRollback, Rescore, RescoreFails, BatchDone,
                ReleaseLock, ReleaseFails
  <1>3. ASSUME NEW i \in Instances, ReconcileStep(i) \/ Restart(i) PROVE row' = row
    BY Zenon, <1>3 DEF ReconcileStep, ReconcileQuery, ReconcileFails, ReconcileAdd, ReconcileShard, ReconcileEnd, Restart
  <1> QED
    BY ZenonT(40), <1>1, <1>2, <1>3
    DEF Next, Request, CreateSchedule, CreateUncounted, LockExpires, Tick, RedisLoss, vars

LEMMA CallerFrame ==
    ASSUME [Next]_vars
    PROVE  caller' = caller \/ \E c \in Callers : Request(c) \/ CallerStep(c)
  <1>1. ASSUME NEW w \in Workers, WorkerStep(w) PROVE caller' = caller
    BY ZenonT(40), <1>1 DEF WorkerStep, PickFromShards, AcquireLock, AcquireFails, PollDue, PollFails, RemoveShard,
                RemoveFails, FireFetch, FireSkip, FireCommit, FireRollback, Rescore, RescoreFails, BatchDone,
                ReleaseLock, ReleaseFails
  <1>2. ASSUME NEW i \in Instances, ReconcileStep(i) \/ Restart(i) PROVE caller' = caller
    BY Zenon, <1>2 DEF ReconcileStep, ReconcileQuery, ReconcileFails, ReconcileAdd, ReconcileShard, ReconcileEnd, Restart
  <1> QED
    BY Zenon, <1>1, <1>2 DEF Next, LockExpires, Tick, RedisLoss, vars

LEMMA RequestFrame ==
    ASSUME NEW c \in Callers, Request(c) \/ CallerStep(c)
    PROVE  worker' = worker /\ rec' = rec /\ lock' = lock /\ now' = now
  BY ZenonT(40) DEF Request, CreateSchedule, CreateUncounted, UpdateSchedule, DeleteSchedule, RestoreSchedule,
         PauseSchedule, ResumeSchedule, CallerStep, InsertSchedule, InsertFails, ReadBack, ZaddPending,
         ZaddShards, ZremPending, ZincrbyRouting, RedisCallFails, CountFails, RequestStops, redis

LEMMA ReconcileFrame ==
    ASSUME NEW i \in Instances, ReconcileStep(i)
    PROVE  worker' = worker /\ caller' = caller /\ lock' = lock /\ now' = now /\ row' = row
  BY ZenonT(40) DEF ReconcileStep, ReconcileQuery, ReconcileFails, ReconcileAdd, ReconcileShard, ReconcileEnd, redis

LEMMA WorkerStepFrame ==
    ASSUME NEW w \in Workers, WorkerStep(w)
    PROVE  rec' = rec /\ caller' = caller /\ now' = now
  BY Zenon DEF WorkerStep, PickFromShards, AcquireLock, AcquireFails, PollDue, PollFails, RemoveShard,
         RemoveFails, FireFetch, FireSkip, FireCommit, FireRollback, Rescore, RescoreFails, BatchDone,
         ReleaseLock, ReleaseFails

LEMMA PendingFrame ==
    ASSUME [Next]_vars
    PROVE  \/ pending' = pending
           \/ \E c \in Callers : ZaddPending(c) \/ ZremPending(c)
           \/ \E w \in Workers : Rescore(w)
           \/ \E i \in Instances, s \in Schedules : ReconcileAdd(i, s)
           \/ RedisLoss
  <1>1. ASSUME NEW c \in Callers, Request(c) \/ CallerStep(c)
        PROVE  pending' = pending \/ ZaddPending(c) \/ ZremPending(c)
    BY Zenon, <1>1
    DEF Request, CreateSchedule, CreateUncounted, UpdateSchedule, DeleteSchedule, RestoreSchedule,
        PauseSchedule, ResumeSchedule, CallerStep, InsertSchedule, InsertFails, ReadBack,
        ZaddShards, ZincrbyRouting, RedisCallFails, CountFails, RequestStops, redis
  <1>2. ASSUME NEW w \in Workers, WorkerStep(w) PROVE pending' = pending \/ Rescore(w)
    BY Zenon, <1>2 DEF WorkerStep, PickFromShards, AcquireLock, AcquireFails, PollDue, PollFails, RemoveShard,
                RemoveFails, FireFetch, FireSkip, FireCommit, FireRollback, RescoreFails, BatchDone,
                ReleaseLock, ReleaseFails, redis
  <1>3. ASSUME NEW i \in Instances, ReconcileStep(i) \/ Restart(i)
        PROVE  pending' = pending \/ \E s \in Schedules : ReconcileAdd(i, s)
    BY ZenonT(40), <1>3 DEF ReconcileStep, ReconcileQuery, ReconcileFails, ReconcileShard, ReconcileEnd, Restart, redis
  <1> QED
    BY Zenon, <1>1, <1>2, <1>3 DEF Next, LockExpires, Tick, vars, redis

-----------------------------------------------------------------------------
(* References stay valid                                                   *)

\* A row is never removed and never moves to another shard.
LEMMA RowStep ==
    ASSUME TypeInv, [Next]_vars, NEW s \in Schedules
    PROVE  /\ row[s].status # "none" => row'[s].status # "none" /\ row'[s].shard = row[s].shard
           /\ row'[s].status # "none" => row'[s].shard \in Shards /\ row'[s].next # 0
           /\ row[s].status = "none" /\ row'[s].status # "none" =>
                 \E c \in Callers : InsertSchedule(c) /\ caller[c].sched = s
  <1>0. /\ row \in [Schedules -> Rows] /\ row[s] \in Rows /\ now \in Nat
        /\ row[s].status # "none" => row[s].shard \in Shards /\ row[s].next # 0
    BY Zenon DEF TypeInv, TypeOK, Refs, Rows
  <1>1. CASE row'[s] = row[s]
    BY Zenon, <1>0, <1>1
  <1>2. ASSUME NEW c \in Callers, InsertSchedule(c) PROVE row'[s] = row[s] \/ (caller[c].sched = s /\
                  row[s].status = "none" /\ row'[s].shard \in Shards /\ row'[s].next # 0)
    <2>1. caller[c].sched \in Schedules /\ caller[c].shard \in Shards /\ caller[c].next # 0
          /\ row[caller[c].sched].status = "none"
      BY Zenon, <1>2 DEF InsertSchedule, Doing, TypeInv, Refs, CallerRef
    <2> QED
      BY Zenon, <1>0, <1>2, <2>1 DEF InsertSchedule, SetRow, CreatedSchedule
  <1>3. ASSUME NEW c \in Callers, NEW x \in Schedules, UpdateSchedule(c, x)
        PROVE  row'[s] = row[s] \/ (row[s].status # "none" /\ row'[s].status = row[s].status
                                    /\ row'[s].shard = row[s].shard /\ row'[s].next # 0)
    <2>1. PICK n \in NextRuns(now, Gaps) \cup {row[x].next} : SetRow(x, UpdatedSchedule(row[x], n, now))
      BY Zenon, <1>3 DEF UpdateSchedule
    <2>2. CASE x = s
      <3>1. row'[s] = UpdatedSchedule(row[s], n, now) /\ row[s].status # "none"
        BY Zenon, <1>0, <1>3, <2>1, <2>2 DEF SetRow, UpdateSchedule, Exists
      <3>2. n # 0
        BY <1>0, <2>1, <2>2, <3>1, NextRunsType
      <3> QED
        BY Zenon, <1>0, <3>1, <3>2 DEF UpdatedSchedule, Rows, ScheduleRows
    <2>3. CASE x # s
      BY Zenon, <1>0, <2>1, <2>3 DEF SetRow
    <2> QED
      BY Zenon, <2>2, <2>3
  <1>4. ASSUME NEW c \in Callers, NEW x \in Schedules,
               DeleteSchedule(c, x) \/ RestoreSchedule(c, x) \/ PauseSchedule(c, x) \/ ResumeSchedule(c, x)
        PROVE  row'[s] = row[s] \/ (row[s].status # "none" /\ row'[s].status # "none"
                                    /\ row'[s].shard = row[s].shard /\ row'[s].next = row[s].next)
    <2>1. row[x].status # "none"
      BY Zenon, <1>4 DEF DeleteSchedule, RestoreSchedule, PauseSchedule, ResumeSchedule, Exists
    <2>2. row' = [row EXCEPT ![x] = DeletedSchedule(row[x], now)] \/ row' = [row EXCEPT ![x] = RestoredSchedule(row[x], now)]
          \/ row' = [row EXCEPT ![x] = WithStatus(row[x], "paused", now)]
          \/ row' = [row EXCEPT ![x] = WithStatus(row[x], "active", now)]
      BY Zenon, <1>4 DEF DeleteSchedule, RestoreSchedule, PauseSchedule, ResumeSchedule, SetRow
    <2>3. CASE x # s
      BY Zenon, <1>0, <2>2, <2>3
    <2>4. CASE x = s
      <3>1. \/ row'[s] = DeletedSchedule(row[s], now) \/ row'[s] = RestoredSchedule(row[s], now)
            \/ row'[s] = WithStatus(row[s], "paused", now) \/ row'[s] = WithStatus(row[s], "active", now)
        BY Zenon, <1>0, <2>2, <2>4
      <3> QED
        BY ZenonT(40), <1>0, <2>1, <2>4, <3>1 DEF DeletedSchedule, RestoredSchedule, WithStatus, Rows, ScheduleRows
    <2> QED
      BY Zenon, <2>3, <2>4
  <1>5. ASSUME NEW w \in Workers, FireCommit(w)
        PROVE  row'[s] = row[s] \/ (row[s].status # "none" /\ row'[s].status = row[s].status
                                    /\ row'[s].shard = row[s].shard /\ row'[s].next # 0)
    <2>1. worker[w].cur \in Schedules /\ row[worker[w].cur].status # "none" /\ worker[w].next # 0
      BY Zenon, <1>5 DEF FireCommit, At, TypeInv, Refs, WorkerRef
    <2>2. row' = [row EXCEPT ![worker[w].cur] = FiredSchedule(row[worker[w].cur], worker[w].next, now)]
      BY Zenon, <1>5 DEF FireCommit, SetRow
    <2>3. CASE worker[w].cur # s
      BY Zenon, <1>0, <2>2, <2>3
    <2>4. CASE worker[w].cur = s
      <3>1. row'[s] = FiredSchedule(row[s], worker[w].next, now)
        BY Zenon, <1>0, <2>2, <2>4
      <3> QED
        BY Zenon, <1>0, <2>1, <2>4, <3>1 DEF FiredSchedule, Rows, ScheduleRows
    <2> QED
      BY Zenon, <2>3, <2>4
  <1> QED
    BY Zenon, <1>0, <1>1, <1>2, <1>3, <1>4, <1>5, RowFrame

\* What a request's step makes of its own state; the others keep theirs.
LEMMA CallerEffect ==
    ASSUME TypeInv, NEW c \in Callers, Request(c) \/ CallerStep(c)
    PROVE  /\ \A d \in Callers : d # c => caller'[d] = caller[d]
           /\ \/ caller'[c] = IdleCaller
              \/ \E s \in Schedules :
                    /\ caller'[c].pc = "insert" /\ caller'[c].sched = s /\ caller'[c].shard \in Shards
                    /\ caller'[c].next # 0 /\ row[s].status = "none" /\ row' = row
                    /\ \A d \in Callers : caller[d].sched # s
              \/ \E s \in Schedules :
                    /\ caller'[c].pc \in {"read", "zrem"} /\ caller'[c].sched = s
                    /\ caller'[c].shard = row[s].shard /\ row[s].status # "none"
              \/ /\ caller[c].pc # "idle" /\ caller'[c].pc \in {"zadd", "shards", "count"}
                 /\ caller'[c].sched = caller[c].sched /\ caller'[c].shard = caller[c].shard
                 /\ caller'[c].pc = "zadd" => caller'[c].next # 0
                 /\ caller[c].pc = "insert" => InsertSchedule(c)
  <1>0. /\ caller \in [Callers -> CallerStates] /\ caller[c] \in CallerStates /\ now \in Nat
        /\ row \in [Schedules -> Rows]
    BY Zenon DEF TypeInv, TypeOK, Rows
  <1>1. ASSUME NEW s \in Schedules, NEW h \in Shards, CreateSchedule(c, s, h) \/ CreateUncounted(c, s, h)
        PROVE  /\ \A d \in Callers : d # c => caller'[d] = caller[d]
               /\ caller'[c].pc = "insert" /\ caller'[c].sched = s /\ caller'[c].shard \in Shards
               /\ caller'[c].next # 0 /\ row[s].status = "none" /\ row' = row
               /\ \A d \in Callers : caller[d].sched # s
    <2>1. PICK n \in NextRuns(now, Gaps) :
             caller' = [caller EXCEPT ![c] = [pc |-> "insert", sched |-> s, next |-> n, shard |-> h, count |-> 0]]
      BY Zenon, <1>1 DEF CreateSchedule, CreateUncounted
    <2>2. n # 0
      BY <1>0, <2>1, NextRunsType
    <2> QED
      BY ZenonT(40), <1>0, <1>1, <2>1, <2>2 DEF CreateSchedule, CreateUncounted
  <1>2. ASSUME NEW s \in Schedules, UpdateSchedule(c, s) \/ DeleteSchedule(c, s) \/ RestoreSchedule(c, s)
                  \/ PauseSchedule(c, s) \/ ResumeSchedule(c, s)
        PROVE  /\ \A d \in Callers : d # c => caller'[d] = caller[d]
               /\ caller'[c].pc \in {"read", "zrem"} /\ caller'[c].sched = s
               /\ caller'[c].shard = row[s].shard /\ row[s].status # "none"
    <2>1. row[s].status # "none"
      BY Zenon, <1>2 DEF UpdateSchedule, DeleteSchedule, RestoreSchedule, PauseSchedule, ResumeSchedule, Exists
    <2>2. Then(c, s, "read", 0) \/ Then(c, s, "read", 1) \/ Then(c, s, "zrem", 0) \/ Then(c, s, "zrem", -1)
      BY ZenonT(40), <1>2 DEF UpdateSchedule, DeleteSchedule, RestoreSchedule, PauseSchedule, ResumeSchedule
    <2> QED
      <3>1. \E pc \in {"read", "zrem"}, e \in {-1, 0, 1} :
               caller' = [caller EXCEPT ![c] = [pc |-> pc, sched |-> s, next |-> 0, shard |-> row[s].shard, count |-> e]]
        BY Zenon, <2>2 DEF Then
      <3> QED
        BY <1>0, <2>1, <3>1
  <1>3. CASE InsertFails(c) \/ RequestStops(c)
    BY Zenon, <1>0, <1>3 DEF InsertFails, RequestStops
  <1>4. CASE InsertSchedule(c)
    <2>1. caller[c].next # 0 /\ caller[c].pc = "insert"
      BY Zenon, <1>4 DEF InsertSchedule, Doing, TypeInv, Refs, CallerRef
    <2> QED
      BY Zenon, <1>0, <1>4, <2>1 DEF InsertSchedule, CallerStates
  <1>5. CASE ReadBack(c)
    <2>1. caller[c].pc = "read" /\ row[caller[c].sched].next # 0
      BY Zenon, <1>5 DEF ReadBack, Doing, TypeInv, Refs, CallerRef
    <2> QED
      BY Zenon, <1>0, <1>5, <2>1 DEF ReadBack, CallerStates
  <1>6. ASSUME Advance(c), caller[c].pc \in {"zadd", "shards", "zrem", "count"}
        PROVE  /\ \A d \in Callers : d # c => caller'[d] = caller[d]
               /\ \/ caller'[c] = IdleCaller
                  \/ /\ caller'[c].pc \in {"shards", "count"}
                     /\ caller'[c].sched = caller[c].sched /\ caller'[c].shard = caller[c].shard
    BY Zenon, <1>0, <1>6 DEF Advance, CallerStates
  <1>7. CASE ZaddPending(c) \/ ZaddShards(c) \/ ZremPending(c) \/ ZincrbyRouting(c)
             \/ RedisCallFails(c) \/ CountFails(c)
    <2>1. Advance(c) /\ caller[c].pc \in {"zadd", "shards", "zrem", "count"}
      BY Zenon, <1>7 DEF ZaddPending, ZaddShards, ZremPending, ZincrbyRouting, RedisCallFails, CountFails, Doing
    <2> QED
      BY Zenon, <1>6, <2>1
  <1> QED
    BY Zenon, <1>1, <1>2, <1>3, <1>4, <1>5, <1>7 DEF Request, CallerStep

LEMMA CallerRefs ==
    ASSUME TypeInv, [Next]_vars, NEW d \in Callers
    PROVE  CallerRef(d)'
  <1>0. CallerRef(d) /\ \A c \in Callers : OneCreator(d, c)
    BY Zenon DEF TypeInv, Refs
  <1>1. ASSUME caller'[d] = caller[d] PROVE CallerRef(d)'
    <2>1. CASE caller[d].pc = "insert"
      <3>1. ASSUME row'[caller[d].sched].status # "none" PROVE FALSE
        <4>1. PICK c \in Callers : InsertSchedule(c) /\ caller[c].sched = caller[d].sched
          BY Zenon, <1>0, <2>1, <3>1, RowStep DEF CallerRef
        <4>2. c = d
          BY Zenon, <1>0, <2>1, <4>1 DEF OneCreator
        <4> QED
          BY Zenon, <1>1, <2>1, <4>1, <4>2 DEF InsertSchedule, TypeInv, TypeOK, CallerStates
      <3> QED
        BY Zenon, <1>0, <1>1, <2>1, <3>1 DEF CallerRef
    <2>2. CASE caller[d].pc # "insert"
      BY Zenon, <1>0, <1>1, <2>2, RowStep DEF CallerRef
    <2> QED
      BY ZenonT(40), <2>1, <2>2
  <1>2. ASSUME Request(d) \/ CallerStep(d) PROVE CallerRef(d)'
    <2>1. CASE caller'[d] = IdleCaller
      BY <2>1 DEF CallerRef, IdleCaller
    <2>2. ASSUME NEW s \in Schedules, caller'[d].pc = "insert", caller'[d].sched = s, caller'[d].shard \in Shards,
                 caller'[d].next # 0, row[s].status = "none", row' = row
          PROVE  CallerRef(d)'
      BY Zenon, <2>2 DEF CallerRef
    <2>3. ASSUME NEW s \in Schedules, caller'[d].pc \in {"read", "zrem"}, caller'[d].sched = s,
                 caller'[d].shard = row[s].shard, row[s].status # "none"
          PROVE  CallerRef(d)'
      <3>1. row[s].shard \in Shards /\ row'[s].status # "none"
        BY Zenon, <2>3, RowStep DEF TypeInv, Refs
      <3> QED
        BY Zenon, <2>3, <3>1 DEF CallerRef
    <2>4. ASSUME caller[d].pc # "idle", caller'[d].pc \in {"zadd", "shards", "count"},
                 caller'[d].sched = caller[d].sched, caller'[d].shard = caller[d].shard,
                 caller'[d].pc = "zadd" => caller'[d].next # 0,
                 caller[d].pc = "insert" => InsertSchedule(d)
          PROVE  CallerRef(d)'
      <3>1. caller[d].sched \in Schedules /\ caller[d].shard \in Shards
        BY Zenon, <1>0, <2>4 DEF CallerRef
      <3>2. row'[caller[d].sched].status # "none"
        <4>1. CASE caller[d].pc = "insert"
          BY <2>4, <3>1, <4>1 DEF InsertSchedule, SetRow, CreatedSchedule, TypeInv, TypeOK
        <4>2. CASE caller[d].pc # "insert"
          BY Zenon, <1>0, <2>4, <3>1, <4>2, RowStep DEF CallerRef
        <4> QED
          BY Zenon, <4>1, <4>2
      <3> QED
        BY Zenon, <2>4, <3>1, <3>2 DEF CallerRef
    <2> QED
      BY Zenon, <1>2, <2>1, <2>2, <2>3, <2>4, CallerEffect
  <1> QED
    BY Zenon, <1>1, <1>2, CallerFrame, CallerEffect

LEMMA CreatorStep ==
    ASSUME TypeInv, [Next]_vars, NEW c \in Callers, NEW d \in Callers
    PROVE  OneCreator(c, d)'
  <1>0. /\ OneCreator(c, d) /\ CallerRef(c) /\ Nobody \notin Schedules
        /\ caller[c].pc = "insert" => caller[c].sched \in Schedules /\ row[caller[c].sched].status = "none"
    BY Zenon, SchedulerAssumption DEF TypeInv, Refs, CallerRef
  <1>1. CASE caller' = caller
    BY Zenon, <1>0, <1>1 DEF OneCreator
  <1>2. ASSUME NEW b \in Callers, Request(b) \/ CallerStep(b), d # c, caller'[c].pc = "insert",
               caller'[d].sched = caller'[c].sched
        PROVE  FALSE
    <2>1. CASE b = c
      <3>1. PICK s \in Schedules : caller'[c].sched = s /\ \A x \in Callers : caller[x].sched # s
        BY <1>2, <2>1, CallerEffect DEF IdleCaller
      <3> QED
        BY Zenon, <1>2, <2>1, <3>1, CallerEffect
    <2>2. CASE b # c
      <3>1. caller'[c] = caller[c]
        BY Zenon, <1>2, <2>2, CallerEffect
      <3>2. CASE b = d
        <4>1. CASE caller'[d] = IdleCaller
          BY <1>0, <1>2, <3>1, <4>1 DEF IdleCaller
        <4>2. CASE caller'[d].sched = caller[d].sched
          BY Zenon, <1>0, <1>2, <3>1, <4>2 DEF OneCreator
        <4>3. ASSUME NEW s \in Schedules, caller'[d].sched = s, \A x \in Callers : caller[x].sched # s PROVE FALSE
          BY Zenon, <1>2, <3>1, <4>3
        <4>4. ASSUME NEW s \in Schedules, caller'[d].sched = s, row[s].status # "none" PROVE FALSE
          BY Zenon, <1>0, <1>2, <3>1, <4>4
        <4> QED
          BY ZenonT(40), <1>2, <3>2, <4>1, <4>2, <4>3, <4>4, CallerEffect
      <3>3. CASE b # d
        BY Zenon, <1>0, <1>2, <3>1, <3>3, CallerEffect DEF OneCreator
      <3> QED
        BY Zenon, <3>2, <3>3
    <2> QED
      BY Zenon, <2>1, <2>2
  <1> QED
    BY Zenon, <1>1, <1>2, CallerFrame DEF OneCreator

\* What a step makes of the worker that takes it; the others keep their state.
LEMMA WorkerOther ==
    ASSUME TypeInv, NEW w \in Workers, WorkerStep(w)
    PROVE  \A v \in Workers : v # w => worker'[v] = worker[v]
  <1>0. worker \in [Workers -> WorkerStates]
    BY Zenon DEF TypeInv, TypeOK
  <1>1. ASSUME Quit(w) \/ \E pc : Go(w, pc) PROVE \A v \in Workers : v # w => worker'[v] = worker[v]
    BY Zenon, <1>0, <1>1 DEF Quit, Go
  <1>2. CASE PollDue(w)
    BY Zenon, <1>0, <1>1, <1>2 DEF PollDue
  <1>3. CASE \E h \in Shards : PickFromShards(w, h)
    BY Zenon, <1>0, <1>3 DEF PickFromShards
  <1>4. CASE \E s \in Schedules : FireFetch(w, s) \/ FireSkip(w, s)
    BY Zenon, <1>0, <1>4 DEF FireFetch, FireSkip
  <1> QED
    BY Zenon, <1>1, <1>2, <1>3, <1>4
    DEF WorkerStep, AcquireLock, AcquireFails, PollFails, RemoveShard, RemoveFails, FireCommit, FireRollback,
        Rescore, RescoreFails, BatchDone, ReleaseLock, ReleaseFails

LEMMA GoEffect ==
    ASSUME TypeInv, NEW w \in Workers, NEW pc, Go(w, pc)
    PROVE  /\ worker'[w].pc = pc /\ worker'[w].shard = worker[w].shard /\ worker'[w].batch = worker[w].batch
           /\ worker'[w].cur = worker[w].cur /\ worker'[w].next = worker[w].next
  BY Zenon DEF TypeInv, TypeOK, WorkerStates, Go

LEMMA PollEffect ==
    ASSUME TypeInv, NEW w \in Workers, PollDue(w)
    PROVE  \/ Go(w, "remove")
           \/ /\ worker'[w].pc = "fire" /\ worker'[w].shard = worker[w].shard
              /\ worker'[w].batch \subseteq Due(worker[w].shard)
  <1>1. CASE Due(worker[w].shard) = {}
    BY Zenon, <1>1 DEF PollDue
  <1>2. CASE Due(worker[w].shard) # {}
    <2>1. PICK B \in SUBSET Due(worker[w].shard) : worker' = [worker EXCEPT ![w].pc = "fire", ![w].batch = B]
      BY Zenon, <1>2 DEF PollDue
    <2> QED
      BY Zenon, <2>1 DEF TypeInv, TypeOK, WorkerStates
  <1> QED
    BY Zenon, <1>1, <1>2

LEMMA FetchEffect ==
    ASSUME TypeInv, NEW w \in Workers, NEW s \in Schedules, FireFetch(w, s)
    PROVE  /\ worker[w].pc = "fire" /\ worker'[w].pc = "commit" /\ worker'[w].shard = worker[w].shard
           /\ s \in worker[w].batch /\ worker'[w].batch = worker[w].batch \ {s}
           /\ worker'[w].cur = s /\ worker'[w].next # 0
  <1>0. worker \in [Workers -> WorkerStates] /\ now \in Nat
    BY Zenon DEF TypeInv, TypeOK
  <1>1. PICK n \in NextRuns(now, Gaps) :
           worker' = [worker EXCEPT ![w] = [@ EXCEPT !.pc = "commit", !.batch = worker[w].batch \ {s}, !.cur = s, !.next = n]]
    BY Zenon DEF FireFetch
  <1>2. n # 0
    BY <1>0, <1>1, NextRunsType
  <1>3. worker'[w] = [worker[w] EXCEPT !.pc = "commit", !.batch = worker[w].batch \ {s}, !.cur = s, !.next = n]
    BY Zenon, <1>0, <1>1
  <1>4. worker[w].pc = "fire" /\ s \in worker[w].batch
    BY Zenon DEF FireFetch, At
  <1>5. /\ worker'[w].pc = "commit" /\ worker'[w].shard = worker[w].shard /\ worker'[w].cur = s
        /\ worker'[w].batch = worker[w].batch \ {s} /\ worker'[w].next = n
    <2>1. worker[w] \in WorkerStates
      BY Zenon, <1>0
    <2> QED
      BY Zenon, <1>3, <2>1 DEF WorkerStates
  <1> QED
    BY Zenon, <1>2, <1>4, <1>5

LEMMA SkipEffect ==
    ASSUME TypeInv, NEW w \in Workers, NEW s \in Schedules, FireSkip(w, s)
    PROVE  /\ worker[w].pc = "fire" /\ worker'[w].pc = "fire" /\ worker'[w].shard = worker[w].shard
           /\ worker'[w].batch = worker[w].batch \ {s}
  BY Zenon DEF TypeInv, TypeOK, WorkerStates, FireSkip, At

LEMMA PickEffect ==
    ASSUME TypeInv, NEW w \in Workers, NEW h \in Shards, PickFromShards(w, h)
    PROVE  worker'[w].pc = "lock" /\ worker'[w].shard = h /\ worker'[w].batch = {}
  BY Zenon DEF TypeInv, TypeOK, IdleWorker, PickFromShards

LEMMA WorkerRefs ==
    ASSUME TypeInv, [Next]_vars, NEW v \in Workers
    PROVE  WorkerRef(v)'
  <1>0. WorkerRef(v) /\ worker[v] \in WorkerStates
    BY Zenon DEF TypeInv, TypeOK, Refs
  <1>b. worker[v].batch \subseteq Schedules
    BY Zenon, <1>0 DEF WorkerStates
  <1>1. ASSUME worker'[v] = worker[v] PROVE WorkerRef(v)'
    BY ZenonT(40), <1>0, <1>1, <1>b, RowStep DEF WorkerRef
  <1>2. ASSUME worker'[v] = IdleWorker PROVE WorkerRef(v)'
    BY SMTT(60), <1>2 DEF WorkerRef, IdleWorker
  <1>3. ASSUME NEW pc \in {"poll", "remove", "fire", "release"}, Go(v, pc), worker[v].pc # "idle" PROVE WorkerRef(v)'
    BY <1>0, <1>3, <1>b, RowStep, GoEffect DEF WorkerRef
  <1>4. ASSUME WorkerStep(v) PROVE WorkerRef(v)'
    <2>1. CASE \E h \in Shards : PickFromShards(v, h)
      BY Zenon, <2>1, PickEffect DEF WorkerRef
    <2>2. CASE PollDue(v)
      <3>1. CASE Go(v, "remove")
        BY Zenon, <1>3, <2>2, <3>1 DEF PollDue, At
      <3>2. CASE ~Go(v, "remove")
        <4>1. /\ worker'[v].pc = "fire" /\ worker'[v].shard = worker[v].shard
              /\ worker'[v].batch \subseteq Due(worker[v].shard)
          BY Zenon, <2>2, <3>2, PollEffect
        <4>2. \A s \in Due(worker[v].shard) : row[s].status # "none" /\ row[s].shard = worker[v].shard
          BY Zenon DEF Due, TypeInv, Refs
        <4>3. worker[v].shard \in Shards /\ row' = row
          BY Zenon, <1>0, <2>2 DEF PollDue, At, WorkerRef
        <4> QED
          BY Zenon, <4>1, <4>2, <4>3 DEF WorkerRef
      <3> QED
        BY Zenon, <3>1, <3>2
    <2>3. ASSUME NEW s \in Schedules, FireFetch(v, s) PROVE WorkerRef(v)'
      <3>1. row' = row
        BY Zenon, <2>3 DEF FireFetch
      <3> QED
        BY <1>0, <2>3, <3>1, FetchEffect DEF WorkerRef
    <2>4. ASSUME NEW s \in Schedules, FireSkip(v, s) PROVE WorkerRef(v)'
      <3>1. row' = row
        BY Zenon, <2>4 DEF FireSkip
      <3> QED
        BY Zenon, <1>0, <2>4, <3>1, SkipEffect DEF WorkerRef
    <2>5. CASE FireCommit(v)
      <3>1. worker[v].pc = "commit" /\ Go(v, "rescore")
        BY Zenon, <2>5 DEF FireCommit, At
      <3> QED
        BY <1>0, <1>b, <3>1, RowStep, GoEffect DEF WorkerRef
    <2>6. CASE AcquireLock(v) \/ AcquireFails(v) \/ ReleaseLock(v) \/ ReleaseFails(v)
      <3>1. worker'[v] = IdleWorker \/ (Go(v, "poll") /\ worker[v].pc # "idle")
        BY Zenon, <2>6 DEF AcquireLock, AcquireFails, ReleaseLock, ReleaseFails, Quit, At, TypeInv, TypeOK
      <3> QED
        BY Zenon, <1>2, <1>3, <3>1
    <2>7. CASE PollFails(v) \/ RemoveShard(v) \/ RemoveFails(v) \/ FireRollback(v) \/ Rescore(v) \/ RescoreFails(v)
               \/ BatchDone(v)
      BY Zenon, <1>3, <2>7 DEF PollFails, RemoveShard, RemoveFails, FireRollback, Rescore, RescoreFails, BatchDone, At
    <2> QED
      BY Zenon, <1>4, <2>1, <2>2, <2>3, <2>4, <2>5, <2>6, <2>7 DEF WorkerStep
  <1>5. ASSUME NEW i \in Instances, Restart(i) PROVE WorkerRef(v)'
    BY Zenon, <1>1, <1>2, <1>5 DEF Restart
  <1>6. CASE \/ \E c \in Callers : Request(c) \/ CallerStep(c)
             \/ \E i \in Instances : ReconcileStep(i)
             \/ \E h \in Shards : LockExpires(h)
             \/ Tick \/ RedisLoss \/ UNCHANGED vars
    BY ZenonT(40), <1>1, <1>6, RequestFrame, ReconcileFrame DEF LockExpires, Tick, RedisLoss, vars
  <1> QED
    BY Zenon, <1>1, <1>4, <1>5, <1>6, WorkerOther DEF Next

LEMMA PendingRefs ==
    ASSUME TypeInv, [Next]_vars, NEW s \in Schedules, pending'[s] # 0
    PROVE  row'[s].status # "none"
  <1>0. pending \in [Schedules -> Nat] /\ (pending[s] # 0 => row[s].status # "none")
    BY Zenon DEF TypeInv, TypeOK, Refs
  <1>1. SUFFICES row[s].status # "none"
    BY Zenon, RowStep
  <1>2. ASSUME NEW x, NEW n, ZaddMember(x, n), x = s => row[s].status # "none" PROVE row[s].status # "none"
    BY Zenon, <1>0, <1>2 DEF ZaddMember
  <1>3. ASSUME NEW c \in Callers, ZaddPending(c) \/ ZremPending(c) PROVE row[s].status # "none"
    <2>1. CASE ZaddPending(c)
      BY Zenon, <1>2, <2>1 DEF ZaddPending, Doing, TypeInv, Refs, CallerRef
    <2>2. CASE ZremPending(c)
      BY ZenonT(40), <1>0, <2>2 DEF ZremPending
    <2> QED
      BY Zenon, <1>3, <2>1, <2>2
  <1>4. ASSUME NEW w \in Workers, Rescore(w) PROVE row[s].status # "none"
    BY Zenon, <1>2, <1>4 DEF Rescore, At, TypeInv, Refs, WorkerRef
  <1>5. ASSUME NEW i \in Instances, NEW x \in Schedules, ReconcileAdd(i, x) PROVE row[s].status # "none"
    BY Zenon, <1>0, <1>2, <1>5 DEF ReconcileAdd, TypeInv, Refs
  <1>6. CASE RedisLoss
    BY Zenon, <1>6 DEF RedisLoss
  <1> QED
    BY Zenon, <1>0, <1>3, <1>4, <1>5, <1>6, PendingFrame

LEMMA RecRefs ==
    ASSUME TypeInv, [Next]_vars, NEW j \in Instances, NEW s \in Schedules, rec'[j].rows[s] # 0
    PROVE  row'[s].status # "none"
  <1>0. /\ rec \in [Instances -> RecStates] /\ rec[j] \in RecStates
        /\ rec[j].rows[s] # 0 => row[s].status # "none"
    BY Zenon DEF TypeInv, TypeOK, Refs
  <1>1. SUFFICES row[s].status # "none"
    BY Zenon, RowStep
  <1>2. CASE rec'[j] = rec[j]
    BY Zenon, <1>0, <1>2
  <1>3. ASSUME NEW i \in Instances, ReconcileStep(i) \/ Restart(i) PROVE row[s].status # "none"
    <2>1. CASE i # j
      BY Zenon, <1>0, <1>2, <1>3, <2>1
      DEF ReconcileStep, ReconcileQuery, ReconcileFails, ReconcileAdd, ReconcileShard, ReconcileEnd, Restart
    <2>2. CASE i = j /\ ReconcileQuery(i)
      <3>1. rec'[j].rows = [x \in Schedules |-> IF Reconciled(row[x], rec[j].since) THEN row[x].next ELSE 0]
        BY Zenon, <1>0, <2>2 DEF ReconcileQuery, RecStates
      <3> QED
        BY Zenon, <3>1 DEF Reconciled, Active
    <2>3. CASE i = j /\ (ReconcileFails(i) \/ \E h \in Shards : ReconcileShard(i, h))
      <3>1. rec'[j].rows = rec[j].rows
        BY <1>0, <2>3 DEF ReconcileFails, ReconcileShard, RecStates
      <3> QED
        BY Zenon, <1>0, <3>1
    <2>4. ASSUME i = j, NEW x \in Schedules, ReconcileAdd(i, x) PROVE row[s].status # "none"
      <3>1. rec'[j].rows = [rec[j].rows EXCEPT ![x] = 0]
        BY Zenon, <1>0, <2>4 DEF ReconcileAdd, RecStates
      <3> QED
        BY Zenon, <1>0, <3>1 DEF RecStates
    <2>5. CASE i = j /\ (ReconcileEnd(i) \/ Restart(i))
      <3>1. rec'[j].rows = [x \in Schedules |-> 0]
        BY SMTT(60), <1>0, <2>5 DEF ReconcileEnd, Restart, IdleRec
      <3> QED
        BY Zenon, <3>1
    <2>6. CASE i = j /\ \E x \in Schedules : ReconcileAdd(i, x)
      BY ZenonT(40), <2>4, <2>6
    <2> QED
      BY ZenonT(40), <1>3, <2>1, <2>2, <2>3, <2>5, <2>6 DEF ReconcileStep
  <1>4. CASE \/ \E c \in Callers : Request(c) \/ CallerStep(c)
             \/ \E w \in Workers : WorkerStep(w)
             \/ \E h \in Shards : LockExpires(h)
             \/ Tick \/ RedisLoss \/ UNCHANGED vars
    BY Zenon, <1>2, <1>4, RequestFrame, WorkerStepFrame DEF LockExpires, Tick, RedisLoss, vars
  <1> QED
    BY Zenon, <1>3, <1>4 DEF Next

LEMMA NextTypeInv == TypeInv /\ [Next]_vars => TypeInv'
  <1> SUFFICES ASSUME TypeInv, [Next]_vars PROVE TypeInv'
    BY Zenon
  <1>1. Refs'
    BY Zenon, RowStep, PendingRefs, CallerRefs, CreatorStep, WorkerRefs, RecRefs DEF Refs
  <1> QED
    BY Zenon, <1>1, TypeStep DEF TypeInv

LEMMA TypeInvariance == Spec => []TypeInv
  BY InitTypeInv, NextTypeInv, PTL DEF Spec

\* Type correctness of the scheduler: rows, sorted sets, locks, requests, worker
\* and reconcile tasks keep their types whatever happens.
THEOREM SchedulerTypeCorrect == Spec => []TypeOK
  BY TypeInvariance, PTL DEF TypeInv

Undisturbed == spent["slow"] = 0 /\ spent["loss"] = 0

LockInv == Undisturbed => \A w \in Workers, h \in Shards : InSection(w, h) => lock[h] = w

DisturbedInv == ~Undisturbed => \A s \in Schedules : stale[s] # {}

BatchInv == \A w \in Workers : worker[w].batch # {} => worker[w].pc \in {"fire", "commit", "rescore"}

\* w has taken s from the sorted set and not yet fired or skipped it.
Held(w, s) == s \in worker[w].batch \/ (At(w, "commit") /\ worker[w].cur = s)

Rescoring(w, s) == At(w, "rescore") /\ worker[w].cur = s

ScoreInv(s) ==
    stale[s] = {} => \/ pending[s] = 0 \/ pending[s] >= row[s].next
                     \/ \E w \in Workers : Rescoring(w, s)

HeldInv(s) == stale[s] = {} => \A w \in Workers : Held(w, s) => row[s].next <= now

SafetyInv ==
    /\ TypeInv /\ LockInv /\ DisturbedInv /\ BatchInv
    /\ \A s \in Schedules : ScoreInv(s) /\ HeldInv(s)

LEMMA InitSafetyInv == Init => SafetyInv
  <1> SUFFICES ASSUME Init PROVE SafetyInv
    OBVIOUS
  <1>1. TypeInv
    BY Zenon, InitTypeInv
  <1>2. LockInv /\ BatchInv
    BY Zenon DEF Init, LockInv, BatchInv, InSection, IdleWorker
  <1>3. DisturbedInv
    BY Zenon DEF Init, DisturbedInv, Undisturbed, Events
  <1>4. ASSUME NEW s \in Schedules PROVE ScoreInv(s) /\ HeldInv(s)
    BY Zenon DEF Init, ScoreInv, HeldInv, Held, At, IdleWorker
  <1> QED
    BY Zenon, <1>1, <1>2, <1>3, <1>4 DEF SafetyInv

-----------------------------------------------------------------------------
(* The budget and the causes of staleness                                  *)

CalmSpend ==
    \/ spent' = spent \/ Spend("call") \/ Spend("redis") \/ Spend("routing") \/ Spend("db") \/ Spend("crash")
    \/ SpendAll({"call", "routing"})

LEMMA SpentFrame ==
    ASSUME [Next]_vars
    PROVE  CalmSpend \/ RedisLoss \/ \E h \in Shards : LockExpires(h)
  <1>1. ASSUME NEW c \in Callers, Request(c) \/ CallerStep(c) PROVE CalmSpend
    BY ZenonT(40), <1>1
    DEF CalmSpend, Request, CreateSchedule, CreateUncounted, UpdateSchedule, DeleteSchedule, RestoreSchedule,
        PauseSchedule, ResumeSchedule, CallerStep, InsertSchedule, InsertFails, ReadBack, ZaddPending,
        ZaddShards, ZremPending, ZincrbyRouting, RedisCallFails, CountFails, RequestStops
  <1>2. ASSUME NEW w \in Workers, WorkerStep(w) PROVE CalmSpend
    BY ZenonT(40), <1>2
    DEF CalmSpend, WorkerStep, PickFromShards, AcquireLock, AcquireFails, PollDue, PollFails, RemoveShard,
        RemoveFails, FireFetch, FireSkip, FireCommit, FireRollback, Rescore, RescoreFails, BatchDone,
        ReleaseLock, ReleaseFails
  <1>3. ASSUME NEW i \in Instances, ReconcileStep(i) \/ Restart(i) PROVE CalmSpend
    BY Zenon, <1>3
    DEF CalmSpend, ReconcileStep, ReconcileQuery, ReconcileFails, ReconcileAdd, ReconcileShard, ReconcileEnd, Restart
  <1>4. CASE Tick \/ UNCHANGED vars
    BY Zenon, <1>4 DEF CalmSpend, Tick, vars
  <1> QED
    BY Zenon, <1>1, <1>2, <1>3, <1>4 DEF Next

LEMMA CalmKeeps ==
    ASSUME TypeOK, CalmSpend
    PROVE  spent'["slow"] = spent["slow"] /\ spent'["loss"] = spent["loss"]
  BY Zenon DEF TypeOK, CalmSpend, Spend, SpendAll, Events

LEMMA SpendSlow ==
    ASSUME TypeOK, NEW k \in {"slow", "loss"}, Spend(k)
    PROVE  spent'[k] # 0
  BY DEF TypeOK, Spend, SpendAll, Events

LEMMA StaleFrame ==
    ASSUME [Next]_vars
    PROVE  \/ stale' = stale
           \/ \E c \in Callers, s \in Schedules : UpdateSchedule(c, s)
           \/ \E c \in Callers : ZaddPending(c)
           \/ \E w \in Workers : Rescore(w) \/ RescoreFails(w)
           \/ \E i \in Instances, s \in Schedules : ReconcileAdd(i, s)
           \/ \E i \in Instances : Restart(i)
           \/ \E h \in Shards : LockExpires(h)
           \/ RedisLoss
  <1>1. ASSUME NEW c \in Callers, Request(c) \/ CallerStep(c)
        PROVE  stale' = stale \/ ZaddPending(c) \/ \E s \in Schedules : UpdateSchedule(c, s)
    BY Zenon, <1>1
    DEF Request, CreateSchedule, CreateUncounted, DeleteSchedule, RestoreSchedule,
        PauseSchedule, ResumeSchedule, CallerStep, InsertSchedule, InsertFails, ReadBack,
        ZaddShards, ZremPending, ZincrbyRouting, RedisCallFails, CountFails, RequestStops, history
  <1>2. ASSUME NEW w \in Workers, WorkerStep(w) PROVE stale' = stale \/ Rescore(w) \/ RescoreFails(w)
    BY Zenon, <1>2
    DEF WorkerStep, PickFromShards, AcquireLock, AcquireFails, PollDue, PollFails, RemoveShard,
        RemoveFails, FireFetch, FireSkip, FireCommit, FireRollback, BatchDone,
        ReleaseLock, ReleaseFails, history
  <1>3. ASSUME NEW i \in Instances, ReconcileStep(i) PROVE stale' = stale \/ \E s \in Schedules : ReconcileAdd(i, s)
    BY Zenon, <1>3 DEF ReconcileStep, ReconcileQuery, ReconcileFails, ReconcileShard, ReconcileEnd, history
  <1>4. CASE Tick \/ UNCHANGED vars
    BY Zenon, <1>4 DEF Tick, vars, history
  <1> QED
    BY Zenon, <1>1, <1>2, <1>3, <1>4 DEF Next

LEMMA MarkStaleEffect ==
    ASSUME TypeOK, NEW S, NEW why, MarkStale(S, why), NEW s \in Schedules
    PROVE  stale'[s] = {} => stale[s] = {} /\ s \notin S
  BY Zenon DEF MarkStale, TypeOK

LEMMA ZaddEffect ==
    ASSUME TypeOK, NEW x \in Schedules, NEW n \in Nat, ZaddMember(x, n), NEW s \in Schedules
    PROVE  /\ stale'[s] = {} => stale[s] = {} /\ (x = s => n >= row[s].next)
           /\ x = s => pending'[s] = n
           /\ x # s => pending'[s] = pending[s] /\ missing'[s] = missing[s]
  <1>1. MarkStale(IF n < row[x].next THEN {x} ELSE {}, "stale_score")
    BY Zenon DEF ZaddMember
  <1>2. stale'[s] = {} => stale[s] = {} /\ s \notin (IF n < row[x].next THEN {x} ELSE {})
    BY Zenon, <1>1, MarkStaleEffect
  <1>3. row[s].next \in Nat
    BY Zenon DEF TypeOK, ScheduleRows
  <1>4. /\ x = s => pending'[s] = n
        /\ x # s => pending'[s] = pending[s] /\ missing'[s] = missing[s]
    BY Zenon DEF ZaddMember, TypeOK
  <1> QED
    BY <1>2, <1>3, <1>4

\* The three places that add to sched:pending, with what they add.
Adds(x, n) ==
    /\ x \in Schedules /\ n \in Nat \ {0} /\ row' = row
    /\ ZaddMember(x, n)

LEMMA AddsOf ==
    ASSUME TypeInv
    PROVE  /\ \A c \in Callers : ZaddPending(c) => Adds(caller[c].sched, caller[c].next)
           /\ \A w \in Workers : Rescore(w) => Adds(worker[w].cur, worker[w].next)
           /\ \A i \in Instances, s \in Schedules : ReconcileAdd(i, s) =>
                 Adds(s, rec[i].rows[s]) \/ (UNCHANGED <<pending, stale, missing, row>>)
  <1>1. ASSUME NEW c \in Callers, ZaddPending(c) PROVE Adds(caller[c].sched, caller[c].next)
    BY Zenon, <1>1 DEF Adds, ZaddPending, Doing, TypeInv, TypeOK, Refs, CallerRef, CallerStates
  <1>2. ASSUME NEW w \in Workers, Rescore(w) PROVE Adds(worker[w].cur, worker[w].next)
    BY Zenon, <1>2 DEF Adds, Rescore, At, TypeInv, TypeOK, Refs, WorkerRef, WorkerStates
  <1>3. ASSUME NEW i \in Instances, NEW s \in Schedules, ReconcileAdd(i, s)
        PROVE  Adds(s, rec[i].rows[s]) \/ (UNCHANGED <<pending, stale, missing, row>>)
    <2>1. rec[i].rows[s] \in Nat /\ rec[i].rows[s] # 0 /\ row' = row
      BY Zenon, <1>3 DEF ReconcileAdd, TypeInv, TypeOK, RecStates
    <2> QED
      BY Zenon, <1>3, <2>1 DEF Adds, ReconcileAdd, history
  <1> QED
    BY Zenon, <1>1, <1>2, <1>3

LEMMA StaleStep ==
    ASSUME TypeInv, [Next]_vars, NEW s \in Schedules, stale'[s] = {}
    PROVE  stale[s] = {}
  <1>0. TypeOK
    BY Zenon DEF TypeInv
  <1>1. ASSUME NEW x, NEW n, Adds(x, n) PROVE stale[s] = {}
    BY Zenon, <1>0, <1>1, ZaddEffect DEF Adds
  <1>2. ASSUME NEW c \in Callers, NEW x \in Schedules, UpdateSchedule(c, x) PROVE stale[s] = {}
    <2>1. PICK n \in NextRuns(now, Gaps) \cup {row[x].next} :
             MarkStale(IF n # row[x].next THEN {x} ELSE {}, "rescheduled")
      BY Zenon, <1>2 DEF UpdateSchedule
    <2> QED
      BY Zenon, <1>0, <2>1, MarkStaleEffect
  <1>3. ASSUME NEW w \in Workers, RescoreFails(w) PROVE stale[s] = {}
    BY Zenon, <1>0, <1>3, MarkStaleEffect DEF RescoreFails
  <1>4. ASSUME NEW i \in Instances, Restart(i) PROVE stale[s] = {}
    BY Zenon, <1>0, <1>4, MarkStaleEffect DEF Restart
  <1>5. ASSUME NEW h \in Shards, LockExpires(h) PROVE stale[s] = {}
    BY Zenon, <1>0, <1>5, MarkStaleEffect DEF LockExpires
  <1>6. CASE RedisLoss
    BY Zenon, <1>0, <1>6, MarkStaleEffect DEF RedisLoss
  <1>7. CASE \/ \E c \in Callers : ZaddPending(c)
             \/ \E w \in Workers : Rescore(w)
             \/ \E i \in Instances, x \in Schedules : ReconcileAdd(i, x)
    BY Zenon, <1>1, <1>7, AddsOf
  <1> QED
    BY Zenon, <1>2, <1>3, <1>4, <1>5, <1>6, <1>7, StaleFrame

LEMMA DisturbedStep ==
    ASSUME TypeInv, DisturbedInv, [Next]_vars
    PROVE  DisturbedInv' /\ (Undisturbed' => Undisturbed)
  <1>0. TypeOK /\ spent["slow"] \in Nat /\ spent["loss"] \in Nat
    BY Zenon DEF TypeInv, TypeOK, Events
  <1>1. ASSUME CalmSpend PROVE DisturbedInv' /\ (Undisturbed' => Undisturbed)
    BY Zenon, <1>0, <1>1, CalmKeeps, StaleStep DEF DisturbedInv, Undisturbed
  <1>2. ASSUME NEW k \in {"slow", "loss"}, NEW why, Spend(k), MarkStale(Schedules, why)
        PROVE  DisturbedInv' /\ (Undisturbed' => Undisturbed)
    BY Zenon, <1>0, <1>2, SpendSlow, MarkStaleEffect DEF DisturbedInv, Undisturbed
  <1>3. ASSUME NEW h \in Shards, LockExpires(h) PROVE CalmSpend \/ (Spend("slow") /\ MarkStale(Schedules, "expiry"))
    BY Zenon, <1>3 DEF LockExpires, CalmSpend
  <1>4. CASE RedisLoss
    BY ZenonT(40), <1>2, <1>4 DEF RedisLoss
  <1> QED
    BY Zenon, <1>1, <1>2, <1>3, <1>4, SpentFrame

-----------------------------------------------------------------------------
(* Locks and batches                                                       *)

\* Only AcquireLock enters a section, and only it, a lost answer to it and
\* ReleaseLock change a lock.
LEMMA SectionStep ==
    ASSUME TypeInv, NEW w \in Workers, WorkerStep(w)
    PROVE  /\ lock' = lock \/ AcquireLock(w) \/ AcquireFails(w) \/ ReleaseLock(w)
           /\ ~AcquireLock(w) => \A h \in Shards : InSection(w, h)' => InSection(w, h)
           /\ AcquireFails(w) \/ ReleaseLock(w) => worker'[w].pc = "idle"
  <1>0. worker \in [Workers -> WorkerStates]
    BY DEF TypeInv, TypeOK
  <1>1. ASSUME NEW pc, Go(w, pc), worker[w].pc \in {"poll", "remove", "fire", "commit", "rescore", "release"}
        PROVE  \A h \in Shards : InSection(w, h)' => InSection(w, h)
    BY Zenon, <1>1, GoEffect DEF InSection
  <1>2. ASSUME Quit(w) PROVE worker'[w].pc = "idle" /\ \A h \in Shards : ~InSection(w, h)'
    BY Zenon, <1>0, <1>2 DEF Quit, InSection, IdleWorker
  <1>3. CASE \E h \in Shards : PickFromShards(w, h)
    BY Zenon, <1>3, PickEffect DEF InSection, PickFromShards, redis, AcquireFails, ReleaseLock, At
  <1>4. CASE AcquireLock(w)
    <2>1. worker[w].pc = "lock"
      BY Zenon, <1>4 DEF AcquireLock, At
    <2>2. AcquireFails(w) => worker'[w].pc = "idle"
      BY Zenon, <1>2 DEF AcquireFails
    <2>3. ~ReleaseLock(w)
      BY Zenon, <2>1 DEF ReleaseLock, At
    <2> QED
      BY Zenon, <1>4, <2>2, <2>3
  <1>5. CASE AcquireFails(w) \/ ReleaseLock(w) \/ ReleaseFails(w)
    BY Zenon, <1>2, <1>5 DEF AcquireFails, ReleaseLock, ReleaseFails, redis
  <1>6. CASE PollDue(w)
    BY Zenon, <1>1, <1>6, PollEffect DEF PollDue, At, InSection, redis, AcquireFails, ReleaseLock
  <1>7. CASE \E s \in Schedules : FireFetch(w, s)
    BY Zenon, <1>7, FetchEffect DEF FireFetch, At, InSection, redis, AcquireFails, ReleaseLock
  <1>8. CASE \E s \in Schedules : FireSkip(w, s)
    BY Zenon, <1>8, SkipEffect DEF FireSkip, At, InSection, redis, AcquireFails, ReleaseLock
  <1>9. CASE PollFails(w) \/ RemoveShard(w) \/ RemoveFails(w) \/ FireCommit(w) \/ FireRollback(w) \/ Rescore(w)
             \/ RescoreFails(w) \/ BatchDone(w)
    <2>1. \E pc : Go(w, pc)
      BY Zenon, <1>9 DEF PollFails, RemoveShard, RemoveFails, FireCommit, FireRollback, Rescore, RescoreFails, BatchDone
    <2>2. worker[w].pc \in {"poll", "remove", "fire", "commit", "rescore"} /\ lock' = lock
      BY Zenon, <1>9 DEF PollFails, RemoveShard, RemoveFails, FireCommit, FireRollback, Rescore, RescoreFails, BatchDone,
                  At, redis
    <2> QED
      BY Zenon, <1>1, <2>1, <2>2 DEF AcquireFails, ReleaseLock, At
  <1> QED
    BY Zenon, <1>3, <1>4, <1>5, <1>6, <1>7, <1>8, <1>9 DEF WorkerStep

LEMMA LockStep ==
    ASSUME TypeInv, LockInv, DisturbedInv, [Next]_vars
    PROVE  LockInv'
  <1> SUFFICES ASSUME Undisturbed', NEW v \in Workers, NEW h \in Shards, InSection(v, h)'
               PROVE  lock'[h] = v
    BY Zenon DEF LockInv
  <1>0. /\ Undisturbed /\ TypeOK
        /\ lock \in [Shards -> Workers \cup {Orphan, Nobody}] /\ worker \in [Workers -> WorkerStates]
        /\ Nobody \notin Workers
        /\ \A u \in Workers, g \in Shards : InSection(u, g) => lock[g] = u
    BY Zenon, DisturbedStep, SchedulerAssumption DEF LockInv, TypeInv, TypeOK
  <1>1. ASSUME worker'[v] = worker[v], lock'[h] = lock[h] PROVE lock'[h] = v
    BY Zenon, <1>0, <1>1 DEF InSection
  <1>2. ASSUME NEW w \in Workers, WorkerStep(w) PROVE lock'[h] = v
    <2>1. CASE AcquireLock(w)
      <3>1. CASE lock[worker[w].shard] # Nobody
        <4>1. Quit(w) /\ lock' = lock
          BY Zenon, <2>1, <3>1 DEF AcquireLock
        <4> QED
          BY Zenon, <1>0, <1>1, <4>1 DEF Quit, InSection, IdleWorker
      <3>2. CASE lock[worker[w].shard] = Nobody
        <4>1. Go(w, "poll") /\ lock' = [lock EXCEPT ![worker[w].shard] = w]
          BY Zenon, <2>1, <3>2 DEF AcquireLock
        <4>2. CASE v = w
          <5>1. worker[w].shard = h
            BY Zenon, <4>1, <4>2, GoEffect DEF InSection
          <5> QED
            BY Zenon, <1>0, <4>1, <4>2, <5>1
        <4>3. CASE v # w
          <5>1. InSection(v, h)
            BY Zenon, <1>0, <4>1, <4>3 DEF Go, InSection
          <5>2. h # worker[w].shard
            BY ZenonT(40), <1>0, <3>2, <5>1
          <5> QED
            BY Zenon, <1>0, <4>1, <5>1, <5>2
        <4> QED
          BY Zenon, <4>2, <4>3
      <3> QED
        BY Zenon, <3>1, <3>2
    <2>2. CASE ~AcquireLock(w)
      <3>1. InSection(v, h)
        <4>1. CASE v = w
          BY Zenon, <1>2, <2>2, <4>1, SectionStep
        <4>2. CASE v # w
          BY Zenon, <1>2, <4>2, WorkerOther DEF InSection
        <4> QED
          BY Zenon, <4>1, <4>2
      <3>2. lock[h] = v
        BY Zenon, <1>0, <3>1
      <3>3. CASE AcquireFails(w)
        BY Zenon, <1>0, <3>2, <3>3 DEF AcquireFails
      <3>4. CASE ReleaseLock(w)
        <4>1. v # w
          BY Zenon, <1>2, <3>4, SectionStep DEF InSection
        <4>2. /\ worker[w].shard \in Shards /\ InSection(w, worker[w].shard)
              /\ lock' = [lock EXCEPT ![worker[w].shard] =
                            IF lock[worker[w].shard] \in Workers
                               /\ InstanceOf[lock[worker[w].shard]] = InstanceOf[w] THEN Nobody
                            ELSE lock[worker[w].shard]]
          BY Zenon, <3>4 DEF ReleaseLock, At, InSection, TypeInv, Refs, WorkerRef
        <4>3. h # worker[w].shard
          BY Zenon, <1>0, <3>2, <4>1, <4>2
        <4> QED
          BY Zenon, <1>0, <3>2, <4>2, <4>3
      <3> QED
        BY Zenon, <1>2, <2>2, <3>2, <3>3, <3>4, SectionStep
    <2> QED
      BY Zenon, <2>1, <2>2
  <1>3. ASSUME NEW g \in Shards, LockExpires(g) PROVE lock'[h] = v
    <2>1. InSection(v, h) /\ lock[h] = v
      BY Zenon, <1>0, <1>3 DEF LockExpires, InSection
    <2>2. CASE h = g
      <3>1. Spend("slow")
        BY Zenon, <1>3, <2>1, <2>2 DEF LockExpires
      <3> QED
        BY Zenon, <1>0, <3>1, SpendSlow DEF Undisturbed
    <2>3. CASE h # g
      BY Zenon, <1>0, <1>3, <2>1, <2>3 DEF LockExpires
    <2> QED
      BY Zenon, <2>2, <2>3
  <1>4. ASSUME NEW i \in Instances, Restart(i) PROVE lock'[h] = v
    <2>1. InstanceOf[v] # i /\ worker'[v] = worker[v]
      BY Zenon, <1>4 DEF Restart, InSection, IdleWorker
    <2>2. lock[h] = v
      BY Zenon, <1>0, <2>1 DEF InSection
    <2> QED
      BY ZenonT(40), <1>0, <1>4, <2>1, <2>2 DEF Restart
  <1>5. CASE RedisLoss
    BY Zenon, <1>0, <1>5, SpendSlow DEF RedisLoss, Undisturbed
  <1>6. CASE \/ \E c \in Callers : Request(c) \/ CallerStep(c)
             \/ \E i \in Instances : ReconcileStep(i)
             \/ Tick \/ UNCHANGED vars
    BY Zenon, <1>1, <1>6, RequestFrame, ReconcileFrame DEF Tick, vars, redis
  <1> QED
    BY Zenon, <1>2, <1>3, <1>4, <1>5, <1>6 DEF Next

LEMMA SectionsApart ==
    ASSUME LockInv, Undisturbed, NEW v \in Workers, NEW w \in Workers, NEW h \in Shards,
           InSection(v, h), InSection(w, h)
    PROVE  v = w
  BY Zenon DEF LockInv

LEMMA BatchStep ==
    ASSUME TypeInv, BatchInv, [Next]_vars
    PROVE  BatchInv'
  <1> SUFFICES ASSUME NEW v \in Workers PROVE worker'[v].batch # {} => worker'[v].pc \in {"fire", "commit", "rescore"}
    BY Zenon DEF BatchInv
  <1>0. worker \in [Workers -> WorkerStates] /\ (worker[v].batch # {} => worker[v].pc \in {"fire", "commit", "rescore"})
    BY Zenon DEF BatchInv, TypeInv, TypeOK
  <1>1. CASE worker'[v] = worker[v] \/ worker'[v] = IdleWorker
    <2>1. CASE worker'[v] = worker[v]
      BY Zenon, <1>0, <2>1
    <2>2. CASE worker'[v] = IdleWorker
      BY SMTT(60), <2>2 DEF IdleWorker
    <2> QED
      BY Zenon, <1>1, <2>1, <2>2
  <1>2. ASSUME WorkerStep(v) PROVE worker'[v].batch # {} => worker'[v].pc \in {"fire", "commit", "rescore"}
    <2>1. CASE Quit(v)
      BY Zenon, <1>0, <1>1, <2>1 DEF Quit
    <2>2. CASE \E h \in Shards : PickFromShards(v, h)
      BY Zenon, <2>2, PickEffect
    <2>3. CASE \E s \in Schedules : FireFetch(v, s) \/ FireSkip(v, s)
      BY Zenon, <2>3, FetchEffect, SkipEffect
    <2>4. ASSUME NEW pc, Go(v, pc), worker[v].batch = {} \/ pc \in {"fire", "commit", "rescore"}
          PROVE  worker'[v].batch # {} => worker'[v].pc \in {"fire", "commit", "rescore"}
      BY Zenon, <2>4, GoEffect
    <2>5. CASE PollDue(v)
      BY Zenon, <1>0, <2>4, <2>5, PollEffect DEF PollDue, At
    <2>6. CASE FireCommit(v) \/ FireRollback(v) \/ Rescore(v) \/ RescoreFails(v) \/ BatchDone(v)
      BY Zenon, <2>4, <2>6 DEF FireCommit, FireRollback, Rescore, RescoreFails, BatchDone
    <2>7. CASE AcquireLock(v) \/ PollFails(v) \/ RemoveShard(v) \/ RemoveFails(v)
      <3>1. worker[v].batch = {}
        BY Zenon, <1>0, <2>7 DEF AcquireLock, PollFails, RemoveShard, RemoveFails, At
      <3> QED
        BY Zenon, <2>1, <2>4, <2>7, <3>1 DEF AcquireLock, PollFails, RemoveShard, RemoveFails
    <2> QED
      BY Zenon, <1>2, <2>1, <2>2, <2>3, <2>5, <2>6, <2>7 DEF WorkerStep, AcquireFails, ReleaseLock, ReleaseFails
  <1>3. CASE \E i \in Instances : Restart(i)
    BY ZenonT(40), <1>1, <1>3 DEF Restart
  <1>4. CASE \/ \E c \in Callers : Request(c) \/ CallerStep(c)
             \/ \E i \in Instances : ReconcileStep(i)
             \/ \E h \in Shards : LockExpires(h)
             \/ Tick \/ RedisLoss \/ UNCHANGED vars
    BY Zenon, <1>1, <1>4, RequestFrame, ReconcileFrame DEF LockExpires, Tick, RedisLoss, vars
  <1> QED
    BY Zenon, <1>1, <1>2, <1>3, <1>4, WorkerOther DEF Next

-----------------------------------------------------------------------------
(* Scores and next_run_at                                                  *)

\* A worker comes to hold a schedule by polling it only, and a commit ends it.
LEMMA HeldStep ==
    ASSUME TypeInv, [Next]_vars, NEW v \in Workers, NEW s \in Schedules, Held(v, s)'
    PROVE  /\ Held(v, s) \/ (PollDue(v) /\ s \in Due(worker[v].shard))
           /\ FireCommit(v) => worker[v].cur # s
  <1>0. worker \in [Workers -> WorkerStates] /\ WorkerRef(v)
    BY Zenon DEF TypeInv, TypeOK, Refs
  <1>1. ASSUME worker'[v] = worker[v] PROVE Held(v, s) /\ ~FireCommit(v)
    <2>1. Held(v, s)
      BY Zenon, <1>1 DEF Held, At
    <2>2. ~FireCommit(v)
      BY <1>1, GoEffect DEF FireCommit, At
    <2> QED
      BY Zenon, <2>1, <2>2
  <1>2. ASSUME worker'[v].batch = {}, worker'[v].pc # "commit" PROVE FALSE
    BY Zenon, <1>2 DEF Held, At
  <1>3. ASSUME NEW pc, Go(v, pc), pc # "commit" PROVE s \in worker[v].batch
    BY Zenon, <1>3, GoEffect DEF Held, At
  <1>4. ASSUME WorkerStep(v)
        PROVE  /\ Held(v, s) \/ (PollDue(v) /\ s \in Due(worker[v].shard))
               /\ FireCommit(v) => worker[v].cur # s
    <2>1. CASE Quit(v)
      BY Zenon, <1>0, <1>2, <2>1 DEF Quit, IdleWorker
    <2>2. CASE \E h \in Shards : PickFromShards(v, h)
      BY Zenon, <1>2, <2>2, PickEffect
    <2>3. ASSUME NEW x \in Schedules, FireFetch(v, x) \/ FireSkip(v, x) PROVE Held(v, s) /\ worker[v].pc = "fire"
      <3>1. CASE FireFetch(v, x)
        BY <3>1, FetchEffect DEF Held, At
      <3>2. CASE FireSkip(v, x)
        BY Zenon, <3>2, SkipEffect DEF Held, At
      <3> QED
        BY Zenon, <2>3, <3>1, <3>2
    <2>4. CASE PollDue(v)
      BY Zenon, <1>3, <2>4, PollEffect DEF Held, At, FireCommit, PollDue
    <2>5. CASE FireCommit(v)
      <3>1. s \in worker[v].batch /\ worker[v].pc = "commit"
        BY Zenon, <1>3, <2>5 DEF FireCommit, At
      <3> QED
        BY Zenon, <1>0, <3>1 DEF Held, WorkerRef
    <2>6. CASE \/ AcquireLock(v) \/ PollFails(v) \/ RemoveShard(v) \/ RemoveFails(v)
               \/ FireRollback(v) \/ Rescore(v) \/ RescoreFails(v) \/ BatchDone(v)
      <3>1. Quit(v) \/ (s \in worker[v].batch)
        BY Zenon, <1>3, <2>6 DEF AcquireLock, PollFails, RemoveShard, RemoveFails, FireRollback, Rescore, RescoreFails, BatchDone
      <3>2. CASE FireCommit(v)
        BY Zenon, <2>5, <3>2
      <3> QED
        BY Zenon, <2>1, <3>1, <3>2 DEF Held
    <2>7. CASE \E x \in Schedules : FireFetch(v, x) \/ FireSkip(v, x)
      BY Zenon, <2>3, <2>7 DEF FireCommit, At
    <2> QED
      BY Zenon, <1>4, <2>1, <2>2, <2>4, <2>5, <2>6, <2>7 DEF WorkerStep, AcquireFails, ReleaseLock, ReleaseFails
  <1>5. ASSUME NEW i \in Instances, Restart(i) PROVE Held(v, s) /\ ~FireCommit(v)
    <2>1. worker'[v] = worker[v]
      BY ZenonT(40), <1>2, <1>5 DEF Restart, IdleWorker
    <2> QED
      BY Zenon, <1>1, <2>1
  <1>6. CASE \/ \E c \in Callers : Request(c) \/ CallerStep(c)
             \/ \E i \in Instances : ReconcileStep(i)
             \/ \E h \in Shards : LockExpires(h)
             \/ Tick \/ RedisLoss \/ UNCHANGED vars
    BY ZenonT(40), <1>1, <1>6, RequestFrame, ReconcileFrame DEF LockExpires, Tick, RedisLoss, vars
  <1> QED
    BY Zenon, <1>1, <1>4, <1>5, <1>6, WorkerOther DEF Next

\* A re-score under way goes on, is made, or leaves the schedule stale.
LEMMA RescoringStep ==
    ASSUME TypeInv, [Next]_vars, NEW v \in Workers, NEW s \in Schedules, Rescoring(v, s)
    PROVE  Rescoring(v, s)' \/ Rescore(v) \/ stale'[s] # {}
  <1>0. TypeOK /\ worker[v].pc = "rescore" /\ worker[v].cur = s
    BY Zenon DEF TypeInv, Rescoring, At
  <1>1. CASE worker'[v] = worker[v]
    BY Zenon, <1>0, <1>1 DEF Rescoring, At
  <1>2. ASSUME WorkerStep(v) PROVE Rescore(v) \/ stale'[s] # {}
    <2>1. Rescore(v) \/ RescoreFails(v)
      BY Zenon, <1>0, <1>2 DEF WorkerStep, PickFromShards, AcquireLock, AcquireFails, PollDue, PollFails, RemoveShard,
         RemoveFails, FireFetch, FireSkip, FireCommit, FireRollback, BatchDone, ReleaseLock, ReleaseFails, At
    <2> QED
      BY Zenon, <1>0, <2>1, MarkStaleEffect DEF RescoreFails
  <1>3. ASSUME NEW i \in Instances, Restart(i) PROVE worker'[v] = worker[v] \/ stale'[s] # {}
    <2>1. CASE InstanceOf[v] # i
      BY Zenon, <1>3, <2>1 DEF Restart
    <2>2. CASE InstanceOf[v] = i
      <3>1. s \in {worker[w].cur : w \in {u \in Workers : InstanceOf[u] = i /\ At(u, "rescore")}}
        BY Zenon, <1>0, <2>2 DEF At
      <3> QED
        BY Zenon, <1>0, <1>3, <3>1, MarkStaleEffect DEF Restart
    <2> QED
      BY Zenon, <2>1, <2>2
  <1>4. CASE \/ \E c \in Callers : Request(c) \/ CallerStep(c)
             \/ \E i \in Instances : ReconcileStep(i)
             \/ \E h \in Shards : LockExpires(h)
             \/ Tick \/ RedisLoss \/ UNCHANGED vars
    BY Zenon, <1>1, <1>4, RequestFrame, ReconcileFrame DEF LockExpires, Tick, RedisLoss, vars
  <1> QED
    BY Zenon, <1>1, <1>2, <1>3, <1>4, WorkerOther DEF Next

\* Only a fire moves next_run_at without a trace.
LEMMA NextStep ==
    ASSUME TypeInv, [Next]_vars, NEW s \in Schedules, row[s].status # "none", stale'[s] = {}
    PROVE  row'[s].next = row[s].next \/ \E w \in Workers : FireCommit(w) /\ worker[w].cur = s
  <1>0. row \in [Schedules -> Rows] /\ row[s] \in Rows /\ TypeOK
    BY Zenon DEF TypeInv, TypeOK, Rows
  <1>1. ASSUME NEW c \in Callers, InsertSchedule(c) PROVE row'[s] = row[s]
    <2>1. caller[c].sched # s
      BY Zenon, <1>1 DEF InsertSchedule, Doing, TypeInv, Refs, CallerRef
    <2> QED
      BY Zenon, <1>0, <1>1, <2>1 DEF InsertSchedule, SetRow
  <1>2. ASSUME NEW c \in Callers, NEW x \in Schedules, UpdateSchedule(c, x) PROVE row'[s].next = row[s].next
    <2>1. PICK n \in NextRuns(now, Gaps) \cup {row[x].next} :
             /\ SetRow(x, UpdatedSchedule(row[x], n, now))
             /\ MarkStale(IF n # row[x].next THEN {x} ELSE {}, "rescheduled")
      BY Zenon, <1>2 DEF UpdateSchedule
    <2>2. CASE x = s
      <3>1. n = row[s].next
        BY Zenon, <1>0, <2>1, <2>2, MarkStaleEffect
      <3>2. row'[s] = UpdatedSchedule(row[s], n, now)
        BY Zenon, <1>0, <2>1, <2>2 DEF SetRow
      <3> QED
        BY Zenon, <1>0, <3>1, <3>2 DEF UpdatedSchedule, Rows, ScheduleRows
    <2>3. CASE x # s
      BY Zenon, <1>0, <2>1, <2>3 DEF SetRow
    <2> QED
      BY Zenon, <2>2, <2>3
  <1>3. ASSUME NEW c \in Callers, NEW x \in Schedules,
               DeleteSchedule(c, x) \/ RestoreSchedule(c, x) \/ PauseSchedule(c, x) \/ ResumeSchedule(c, x)
        PROVE  row'[s].next = row[s].next
    <2>1. \/ SetRow(x, DeletedSchedule(row[x], now)) \/ SetRow(x, RestoredSchedule(row[x], now))
          \/ SetRow(x, WithStatus(row[x], "paused", now)) \/ SetRow(x, WithStatus(row[x], "active", now))
      BY ZenonT(40), <1>3 DEF DeleteSchedule, RestoreSchedule, PauseSchedule, ResumeSchedule
    <2>2. CASE x # s
      BY Zenon, <1>0, <2>1, <2>2 DEF SetRow
    <2>3. CASE x = s
      <3>1. \/ row'[s] = DeletedSchedule(row[s], now) \/ row'[s] = RestoredSchedule(row[s], now)
            \/ row'[s] = WithStatus(row[s], "paused", now) \/ row'[s] = WithStatus(row[s], "active", now)
        BY Zenon, <1>0, <2>1, <2>3 DEF SetRow
      <3> QED
        BY Zenon, <1>0, <3>1 DEF DeletedSchedule, RestoredSchedule, WithStatus, Rows, ScheduleRows
    <2> QED
      BY Zenon, <2>2, <2>3
  <1>4. ASSUME NEW w \in Workers, FireCommit(w), worker[w].cur # s PROVE row'[s] = row[s]
    BY Zenon, <1>0, <1>4 DEF FireCommit, SetRow
  <1> QED
    BY Zenon, <1>1, <1>2, <1>3, <1>4, RowFrame

LEMMA ScoreStep ==
    ASSUME SafetyInv, [Next]_vars, NEW s \in Schedules
    PROVE  ScoreInv(s)'
  <1> SUFFICES ASSUME stale'[s] = {}, pending'[s] # 0
               PROVE  pending'[s] >= row'[s].next \/ \E w \in Workers : Rescoring(w, s)'
    BY Zenon DEF ScoreInv
  <1>0. /\ TypeInv /\ TypeOK /\ stale[s] = {}
        /\ pending \in [Schedules -> Nat]
        /\ pending[s] = 0 \/ pending[s] >= row[s].next \/ \E w \in Workers : Rescoring(w, s)
    BY Zenon, StaleStep DEF SafetyInv, TypeInv, TypeOK, ScoreInv
  <1>1. ASSUME NEW x, NEW n, Adds(x, n), x = s PROVE pending'[s] >= row'[s].next
    <2>1. n \in Nat /\ ZaddMember(s, n) /\ row' = row
      BY Zenon, <1>1 DEF Adds
    <2>2. pending'[s] = n /\ n >= row[s].next
      BY Zenon, <1>0, <2>1, ZaddEffect
    <2> QED
      BY Zenon, <2>1, <2>2
  <1>2. ASSUME pending'[s] = pending[s] PROVE pending'[s] >= row'[s].next \/ \E w \in Workers : Rescoring(w, s)'
    <2>1. row[s].status # "none"
      BY Zenon, <1>0, <1>2 DEF TypeInv, Refs
    <2>2. ASSUME NEW w \in Workers, FireCommit(w), worker[w].cur = s PROVE Rescoring(w, s)'
      BY Zenon, <1>0, <2>2, GoEffect DEF FireCommit, Rescoring, At
    <2>3. CASE row'[s].next = row[s].next /\ pending[s] >= row[s].next
      BY Zenon, <1>2, <2>3
    <2>4. ASSUME NEW w \in Workers, Rescoring(w, s) PROVE pending'[s] >= row'[s].next \/ Rescoring(w, s)'
      <3>1. CASE Rescore(w)
        BY Zenon, <1>0, <1>1, <2>4, <3>1, AddsOf DEF Rescoring
      <3> QED
        BY Zenon, <1>0, <2>4, <3>1, RescoringStep
    <2> QED
      BY Zenon, <1>0, <1>2, <2>1, <2>2, <2>3, <2>4, NextStep
  <1>3. ASSUME NEW x, NEW n, Adds(x, n)
        PROVE  pending'[s] >= row'[s].next \/ \E w \in Workers : Rescoring(w, s)'
    BY Zenon, <1>0, <1>1, <1>2, <1>3, ZaddEffect DEF Adds
  <1>4. ASSUME NEW c \in Callers, ZremPending(c) PROVE pending'[s] = pending[s]
    BY Zenon, <1>0, <1>4 DEF ZremPending
  <1>5. ~RedisLoss
    BY Zenon DEF RedisLoss
  <1> QED
    BY Zenon, <1>0, <1>2, <1>3, <1>4, <1>5, AddsOf, PendingFrame

LEMMA HeldInvStep ==
    ASSUME SafetyInv, [Next]_vars, NEW s \in Schedules
    PROVE  HeldInv(s)'
  <1> SUFFICES ASSUME stale'[s] = {}, NEW v \in Workers, Held(v, s)' PROVE row'[s].next <= now'
    BY Zenon DEF HeldInv
  <1>0. /\ TypeInv /\ LockInv /\ stale[s] = {} /\ Undisturbed
        /\ now \in Nat /\ row[s].next \in Nat /\ pending[s] \in Nat /\ (now' = now \/ now' = now + 1)
    <2>1. now' = now \/ now' = now + 1
      BY ZenonT(40), RequestFrame, ReconcileFrame, WorkerStepFrame DEF Next, vars, Tick, Restart, LockExpires, RedisLoss
    <2> QED
      BY Zenon, <2>1, StaleStep DEF SafetyInv, DisturbedInv, TypeInv, TypeOK, ScheduleRows
  <1>1. /\ row[s].status # "none" /\ row[s].shard \in Shards /\ row[s].next <= now
        /\ InSection(v, row[s].shard)
    <2>1. CASE Held(v, s)
      <3>1. row[s].next <= now
        BY Zenon, <1>0, <2>1 DEF SafetyInv, HeldInv
      <3>2. worker[v].pc \in {"fire", "commit", "rescore"} /\ row[s].status # "none" /\ row[s].shard = worker[v].shard
        BY Zenon, <1>0, <2>1 DEF SafetyInv, BatchInv, Held, At, TypeInv, Refs, WorkerRef
      <3> QED
        BY Zenon, <1>0, <3>1, <3>2 DEF InSection, TypeInv, Refs
    <2>2. CASE PollDue(v) /\ s \in Due(worker[v].shard)
      <3>1. worker[v].pc = "poll" /\ row[s].shard = worker[v].shard /\ pending[s] # 0 /\ pending[s] <= now
        BY Zenon, <2>2 DEF PollDue, At, Due
      <3>2. row[s].status # "none" /\ row[s].shard \in Shards
        BY Zenon, <1>0, <3>1 DEF TypeInv, Refs
      <3>3. InSection(v, row[s].shard)
        BY Zenon, <3>1 DEF InSection
      <3>4. ASSUME NEW w \in Workers, Rescoring(w, s) PROVE FALSE
        <4>1. InSection(w, row[s].shard) /\ worker[w].pc = "rescore"
          BY Zenon, <1>0, <3>4 DEF Rescoring, At, InSection, TypeInv, Refs, WorkerRef
        <4>2. v = w
          BY Zenon, <1>0, <3>2, <3>3, <4>1, SectionsApart
        <4> QED
          BY ZenonT(40), <3>1, <4>1, <4>2
      <3>5. pending[s] >= row[s].next
        BY Zenon, <1>0, <3>1, <3>4 DEF SafetyInv, ScoreInv
      <3> QED
        BY <1>0, <3>1, <3>2, <3>3, <3>5
    <2> QED
      BY Zenon, <1>0, <2>1, <2>2, HeldStep
  <1>2. ASSUME NEW w \in Workers, FireCommit(w), worker[w].cur = s PROVE FALSE
    <2>1. InSection(w, row[s].shard)
      BY ZenonT(40), <1>0, <1>2 DEF FireCommit, At, InSection, TypeInv, Refs, WorkerRef
    <2>2. v = w
      BY Zenon, <1>0, <1>1, <2>1, SectionsApart
    <2> QED
      BY Zenon, <1>0, <1>2, <2>2, HeldStep
  <1>3. row'[s].next = row[s].next
    BY Zenon, <1>0, <1>1, <1>2, NextStep
  <1> QED
    BY <1>0, <1>1, <1>3

LEMMA NextSafetyInv == SafetyInv /\ [Next]_vars => SafetyInv'
  <1> SUFFICES ASSUME SafetyInv, [Next]_vars PROVE SafetyInv'
    OBVIOUS
  <1>1. TypeInv' /\ LockInv' /\ DisturbedInv' /\ BatchInv'
    BY Zenon, NextTypeInv, LockStep, DisturbedStep, BatchStep DEF SafetyInv
  <1> QED
    BY Zenon, <1>1, ScoreStep, HeldInvStep DEF SafetyInv

LEMMA SafetyInvariance == Spec => []SafetyInv
  BY InitSafetyInv, NextSafetyInv, PTL DEF Spec

\* Two workers never work on one shard at the same time (process_one between
\* acquire_lock and release_lock), unless a lock expired under its owner or
\* Redis lost it.
THEOREM ShardExclusion == Spec => []OneWorkerPerShard
  <1>1. SafetyInv => OneWorkerPerShard
    <2> SUFFICES ASSUME SafetyInv, NEW h \in Shards, NEW v \in Workers, NEW w \in Workers,
                        v # w, InSection(v, h), InSection(w, h)
                 PROVE  spent["slow"] > 0 \/ spent["loss"] > 0
      BY Zenon DEF OneWorkerPerShard
    <2>1. ~Undisturbed
      BY Zenon, SectionsApart DEF SafetyInv
    <2>2. spent["slow"] \in Nat /\ spent["loss"] \in Nat
      BY Zenon DEF SafetyInv, TypeInv, TypeOK, Events
    <2> QED
      BY <2>1, <2>2 DEF Undisturbed
  <1> QED
    BY <1>1, SafetyInvariance, PTL

\* fire_inner fires no schedule before its next_run_at, although it never looks
\* at it, except for the recorded causes.
THEOREM FiresOnTime == Spec => NoPrematureFire
  <1>1. SafetyInv /\ [Next]_vars =>
           [\A w \in Workers :
              worker[w].pc = "commit" /\ worker'[w].pc = "rescore"
                 => \/ row[worker[w].cur].next <= now
                    \/ stale[worker[w].cur] # {}]_vars
    <2> SUFFICES ASSUME SafetyInv, NEW w \in Workers, worker[w].pc = "commit"
                 PROVE  row[worker[w].cur].next <= now \/ stale[worker[w].cur] # {}
      BY Zenon
    <2>1. worker[w].cur \in Schedules
      BY Zenon DEF SafetyInv, TypeInv, Refs, WorkerRef
    <2> QED
      BY Zenon, <2>1 DEF SafetyInv, HeldInv, Held, At
  <1> QED
    BY <1>1, SafetyInvariance, PTL DEF Spec, NoPrematureFire

-----------------------------------------------------------------------------
(* Active schedules are in sched:pending                                   *)

\* Request c is going to add s.
Adding(c, s) == caller[c].sched = s /\ (Doing(c, "read") \/ Doing(c, "zadd"))

LEMMA MarkMissingEffect ==
    ASSUME TypeOK, NEW S, NEW why, MarkMissing(S, why), NEW s \in Schedules
    PROVE  missing[s] # {} \/ s \in S => missing'[s] # {}
  BY Zenon DEF MarkMissing, TypeOK

LEMMA MissingFrame ==
    ASSUME [Next]_vars
    PROVE  \/ missing' = missing
           \/ \E c \in Callers : ZaddPending(c) \/ ZremPending(c) \/ RedisCallFails(c) \/ RequestStops(c)
           \/ \E w \in Workers : Rescore(w)
           \/ \E i \in Instances, s \in Schedules : ReconcileAdd(i, s)
           \/ RedisLoss
  <1>1. ASSUME NEW c \in Callers, Request(c) \/ CallerStep(c)
        PROVE  missing' = missing \/ ZaddPending(c) \/ ZremPending(c) \/ RedisCallFails(c) \/ RequestStops(c)
    BY Zenon, <1>1
    DEF Request, CreateSchedule, CreateUncounted, UpdateSchedule, DeleteSchedule, RestoreSchedule,
        PauseSchedule, ResumeSchedule, CallerStep, InsertSchedule, InsertFails, ReadBack,
        ZaddShards, ZincrbyRouting, CountFails, history
  <1>2. ASSUME NEW w \in Workers, WorkerStep(w) PROVE missing' = missing \/ Rescore(w)
    BY Zenon, <1>2
    DEF WorkerStep, PickFromShards, AcquireLock, AcquireFails, PollDue, PollFails, RemoveShard,
        RemoveFails, FireFetch, FireSkip, FireCommit, FireRollback, RescoreFails, BatchDone,
        ReleaseLock, ReleaseFails, history
  <1>3. ASSUME NEW i \in Instances, ReconcileStep(i) PROVE missing' = missing \/ \E s \in Schedules : ReconcileAdd(i, s)
    BY Zenon, <1>3 DEF ReconcileStep, ReconcileQuery, ReconcileFails, ReconcileShard, ReconcileEnd, history
  <1>4. CASE \/ \E i \in Instances : Restart(i)
             \/ \E h \in Shards : LockExpires(h)
             \/ Tick \/ UNCHANGED vars
    BY Zenon, <1>4 DEF Restart, LockExpires, Tick, vars, history
  <1> QED
    BY Zenon, <1>1, <1>2, <1>3, <1>4 DEF Next

LEMMA MissingStep ==
    ASSUME TypeInv, [Next]_vars, NEW s \in Schedules, missing[s] # {}
    PROVE  missing'[s] # {} \/ pending'[s] # 0
  <1>0. TypeOK
    BY Zenon DEF TypeInv
  <1>1. ASSUME NEW x, NEW n, Adds(x, n) PROVE missing'[s] # {} \/ pending'[s] # 0
    BY ZenonT(40), <1>0, <1>1, ZaddEffect DEF Adds
  <1>2. CASE \E c \in Callers : ZremPending(c) \/ RedisCallFails(c) \/ RequestStops(c)
    BY Zenon, <1>0, <1>2, MarkMissingEffect DEF ZremPending, RedisCallFails, RequestStops
  <1>3. CASE RedisLoss
    BY ZenonT(40), <1>0, <1>3, MarkMissingEffect DEF RedisLoss
  <1> QED
    BY Zenon, <1>1, <1>2, <1>3, AddsOf, MissingFrame

LEMMA PendingKept ==
    ASSUME TypeInv, [Next]_vars, NEW s \in Schedules, pending[s] # 0, Active(row'[s])
    PROVE  pending'[s] # 0 \/ missing'[s] # {}
  <1>0. TypeOK
    BY Zenon DEF TypeInv
  <1>1. ASSUME NEW x, NEW n, Adds(x, n) PROVE pending'[s] # 0
    BY Zenon, <1>0, <1>1, ZaddEffect DEF Adds
  <1>2. ASSUME NEW c \in Callers, ZremPending(c) PROVE pending'[s] # 0 \/ missing'[s] # {}
    <2>1. CASE caller[c].sched # s
      BY Zenon, <1>0, <1>2, <2>1 DEF ZremPending, TypeOK
    <2>2. CASE caller[c].sched = s
      <3>1. MarkMissing(IF Active(row[s]) THEN {s} ELSE {}, "late_zrem") /\ row' = row
        BY Zenon, <1>2, <2>2 DEF ZremPending
      <3> QED
        BY Zenon, <1>0, <3>1, MarkMissingEffect
    <2> QED
      BY Zenon, <2>1, <2>2
  <1>3. CASE RedisLoss
    BY ZenonT(40), <1>0, <1>3, MarkMissingEffect DEF RedisLoss
  <1> QED
    BY Zenon, <1>1, <1>2, <1>3, AddsOf, PendingFrame

LEMMA AddingStep ==
    ASSUME TypeInv, [Next]_vars, NEW c \in Callers, NEW s \in Schedules, Adding(c, s)
    PROVE  Adding(c, s)' \/ missing'[s] # {} \/ pending'[s] # 0
  <1>0. TypeOK /\ caller[c] \in CallerStates /\ caller \in [Callers -> CallerStates]
        /\ caller[c].sched = s /\ caller[c].pc \in {"read", "zadd"}
    BY Zenon DEF TypeInv, TypeOK, Adding, Doing
  <1>1. CASE caller'[c] = caller[c]
    BY Zenon, <1>0, <1>1 DEF Adding, Doing
  <1>2. ASSUME Request(c) \/ CallerStep(c) PROVE Adding(c, s)' \/ missing'[s] # {} \/ pending'[s] # 0
    <2>1. ReadBack(c) \/ ZaddPending(c) \/ RedisCallFails(c) \/ RequestStops(c)
      BY Zenon, <1>0, <1>2
      DEF Request, CreateSchedule, CreateUncounted, UpdateSchedule, DeleteSchedule, RestoreSchedule,
          PauseSchedule, ResumeSchedule, CallerStep, InsertSchedule, InsertFails,
          ZaddShards, ZremPending, ZincrbyRouting, CountFails, Free, Doing
    <2>2. CASE ReadBack(c)
      BY Zenon, <1>0, <2>2 DEF ReadBack, Adding, Doing, CallerStates
    <2>3. CASE ZaddPending(c)
      <3>1. Adds(s, caller[c].next)
        BY Zenon, <1>0, <2>3, AddsOf
      <3>2. caller[c].next \in Nat \ {0} /\ ZaddMember(s, caller[c].next)
        BY Zenon, <3>1 DEF Adds
      <3>3. caller[c].next \in Nat /\ caller[c].next # 0
        BY Zenon, <3>2
      <3>4. pending'[s] = caller[c].next
        BY <1>0, <3>2, <3>3, ZaddEffect
      <3> QED
        BY Zenon, <3>3, <3>4
    <2>4. CASE RedisCallFails(c)
      <3>1. MarkMissing({s}, "lost_zadd")
        BY Zenon, <1>0, <2>4 DEF RedisCallFails, Doing
      <3> QED
        BY Zenon, <1>0, <3>1, MarkMissingEffect
    <2>5. CASE RequestStops(c)
      <3>1. MarkMissing({s}, "lost_zadd")
        BY Zenon, <1>0, <2>5 DEF RequestStops, Doing
      <3> QED
        BY <1>0, <3>1, MarkMissingEffect
    <2> QED
      BY Zenon, <2>1, <2>2, <2>3, <2>4, <2>5
  <1> QED
    BY Zenon, <1>1, <1>2, CallerFrame, CallerEffect

\* A request that makes a schedule active is going to add it.
LEMMA ActiveStep ==
    ASSUME TypeInv, [Next]_vars, NEW s \in Schedules, Active(row'[s])
    PROVE  Active(row[s]) \/ \E c \in Callers : Adding(c, s)'
  <1>0. row \in [Schedules -> Rows] /\ row[s] \in Rows /\ caller \in [Callers -> CallerStates]
    BY Zenon DEF TypeInv, TypeOK, Rows
  <1>1. CASE row'[s] = row[s]
    BY Zenon, <1>1
  <1>2. ASSUME NEW c \in Callers, InsertSchedule(c) PROVE row'[s] = row[s] \/ Adding(c, s)'
    <2>1. CASE caller[c].sched = s
      BY Zenon, <1>0, <1>2, <2>1 DEF InsertSchedule, Adding, Doing, CallerStates
    <2>2. CASE caller[c].sched # s
      BY Zenon, <1>0, <1>2, <2>2 DEF InsertSchedule, SetRow
    <2> QED
      BY Zenon, <2>1, <2>2
  <1>3. ASSUME NEW c \in Callers, NEW x \in Schedules, NEW d, Then(c, x, "read", d), x = s PROVE Adding(c, s)'
    BY Zenon, <1>0, <1>3 DEF Then, Adding, Doing
  <1>4. ASSUME NEW c \in Callers, NEW x \in Schedules,
               UpdateSchedule(c, x) \/ RestoreSchedule(c, x) \/ ResumeSchedule(c, x)
        PROVE  row'[s] = row[s] \/ Adding(c, s)'
    <2>1. x # s => row'[s] = row[s]
      BY Zenon, <1>0, <1>4 DEF UpdateSchedule, RestoreSchedule, ResumeSchedule, SetRow
    <2>2. Then(c, x, "read", 0) \/ Then(c, x, "read", 1)
      BY Zenon, <1>4 DEF UpdateSchedule, RestoreSchedule, ResumeSchedule
    <2> QED
      BY Zenon, <1>3, <2>1, <2>2
  <1>5. ASSUME NEW c \in Callers, NEW x \in Schedules, DeleteSchedule(c, x) \/ PauseSchedule(c, x)
        PROVE  row'[s] = row[s]
    <2>1. CASE x # s
      BY Zenon, <1>0, <1>5, <2>1 DEF DeleteSchedule, PauseSchedule, SetRow
    <2>2. CASE x = s
      <3>1. row'[s] = DeletedSchedule(row[s], now) \/ row'[s] = WithStatus(row[s], "paused", now)
        BY Zenon, <1>0, <1>5, <2>2 DEF DeleteSchedule, PauseSchedule, SetRow
      <3>2. row'[s].deleted = TRUE \/ row'[s].status = "paused"
        BY Zenon, <1>0, <3>1 DEF DeletedSchedule, WithStatus, Rows, ScheduleRows
      <3> QED
        BY Zenon, <3>2 DEF Active
    <2> QED
      BY Zenon, <2>1, <2>2
  <1>6. ASSUME NEW w \in Workers, FireCommit(w) PROVE Active(row[s])
    <2>1. CASE worker[w].cur # s
      BY Zenon, <1>0, <1>1, <1>6, <2>1 DEF FireCommit, SetRow
    <2>2. CASE worker[w].cur = s
      <3>1. row'[s] = FiredSchedule(row[s], worker[w].next, now)
        BY Zenon, <1>0, <1>6, <2>2 DEF FireCommit, SetRow
      <3>2. row'[s].deleted = row[s].deleted /\ row'[s].status = row[s].status
        BY Zenon, <1>0, <3>1 DEF FiredSchedule, Rows, ScheduleRows
      <3> QED
        BY Zenon, <3>2 DEF Active
    <2> QED
      BY Zenon, <2>1, <2>2
  <1> QED
    BY Zenon, <1>1, <1>2, <1>4, <1>5, <1>6, RowFrame

\* An active schedule stays in sched:pending, or is about to be added by the
\* request that changed it, except for the recorded causes: no worker, reconcile
\* run, lock expiry or crash of a scheduler takes it out.
THEOREM SchedulesStayPending == Spec => []NoForgottenSchedule
  <1>1. Init => NoForgottenSchedule
    BY DEF Init, NoForgottenSchedule, NoSchedule, Active
  <1>2. TypeInv /\ NoForgottenSchedule /\ [Next]_vars => NoForgottenSchedule'
    <2> SUFFICES ASSUME TypeInv, NoForgottenSchedule, [Next]_vars, NEW s \in Schedules, Active(row'[s])
                 PROVE  pending'[s] # 0 \/ missing'[s] # {} \/ \E c \in Callers : Adding(c, s)'
      BY Zenon DEF NoForgottenSchedule, Adding
    <2>1. CASE Active(row[s])
      <3>1. pending[s] # 0 \/ missing[s] # {} \/ \E c \in Callers : Adding(c, s)
        BY Zenon, <2>1 DEF NoForgottenSchedule, Adding
      <3> QED
        BY Zenon, <3>1, PendingKept, MissingStep, AddingStep
    <2> QED
      BY Zenon, <2>1, ActiveStep
  <1> QED
    BY <1>1, <1>2, TypeInvariance, PTL DEF Spec

-----------------------------------------------------------------------------
(* sched:routing covers the schedules                                      *)

\* Requests that are to count a schedule of shard h, to insert one that is
\* counted already, or to take one off the count; and the schedules of h.
Plus(h) == {c \in Callers : caller[c].shard = h /\ caller[c].count = 1}
Inserting(h) == {c \in Callers : caller[c].shard = h /\ caller[c].pc = "insert"}
Minus(h) == {c \in Callers : caller[c].shard = h /\ caller[c].count = -1}
Members(h) == {s \in Schedules : Exists(row[s]) /\ row[s].shard = h}

Finite(h) == IsFiniteSet(Plus(h)) /\ IsFiniteSet(Inserting(h)) /\ IsFiniteSet(Minus(h)) /\ IsFiniteSet(Members(h))
Surplus(h) == Cardinality(Plus(h)) - Cardinality(Inserting(h)) - Cardinality(Minus(h)) - Cardinality(Members(h))

AllCounted == \A k \in {"routing", "crash", "loss"} : spent[k] = 0

RoutingInv ==
    /\ \A c \in Callers : caller[c].pc \in {"idle", "insert"} => caller[c].count = 0
    /\ \A h \in Shards : Finite(h)
    /\ AllCounted => DOMAIN routing = Shards /\ \A h \in Shards : routing[h] + Surplus(h) >= 0

\* What a request and a schedule contribute to the surplus of shard h.
Share(r, h) == IF r.shard = h THEN r.count - (IF r.pc = "insert" THEN 1 ELSE 0) ELSE 0
Place(r, h) == IF Exists(r) /\ r.shard = h THEN 1 ELSE 0

\* A step that adds to the count of a shard, or to what is still to be counted,
\* at least what it adds to the schedules of the shard.
Covered(c, s, h) ==
    routing'[h] + Share(caller'[c], h) + Place(row[s], h) >= routing[h] + Share(caller[c], h) + Place(row'[s], h)

\* What a step of request c, for schedule s, does to the balance of shard h.
Balanced(c, s, h) ==
    /\ \A x \in Schedules : x # s => row'[x] = row[x]
    /\ caller'[c].pc \in {"idle", "insert"} => caller'[c].count = 0
    /\ AllCounted' /\ DOMAIN routing = Shards => Covered(c, s, h) /\ DOMAIN routing' = Shards

LEMMA RequestBalanced ==
    ASSUME TypeInv, RoutingInv, NEW h \in Shards,
           NEW c \in Callers, NEW s \in Schedules,
           \/ \E g \in Shards : CreateSchedule(c, s, g) \/ CreateUncounted(c, s, g)
           \/ UpdateSchedule(c, s) \/ DeleteSchedule(c, s) \/ RestoreSchedule(c, s)
           \/ PauseSchedule(c, s) \/ ResumeSchedule(c, s)
    PROVE  Balanced(c, s, h)
  <1>0. /\ caller \in [Callers -> CallerStates] /\ row \in [Schedules -> Rows] /\ row[s] \in Rows
        /\ (DOMAIN routing = Shards => routing[h] \in Int) /\ caller[c] \in CallerStates
    BY ZenonT(40) DEF TypeInv, TypeOK, Rows
  <1>1. caller[c].pc = "idle" /\ caller[c].count = 0
    BY Zenon DEF CreateSchedule, CreateUncounted, UpdateSchedule, DeleteSchedule, RestoreSchedule, PauseSchedule, ResumeSchedule,
           Free, Doing, RoutingInv
  <1>2. Share(caller[c], h) = 0
    BY SMTT(30), <1>1 DEF Share
  <1>3. ASSUME NEW g \in Shards, CreateSchedule(c, s, g)
        PROVE  Balanced(c, s, h)
    <2>1. PICK n : caller' = [caller EXCEPT ![c] = [pc |-> "insert", sched |-> s, next |-> n, shard |-> g, count |-> 0]]
      BY ZenonT(40), <1>3 DEF CreateSchedule
    <2>2. caller'[c] = [pc |-> "insert", sched |-> s, next |-> n, shard |-> g, count |-> 0]
      BY ZenonT(40), <1>0, <2>1
    <2>3. caller'[c].count = 0 /\ Share(caller'[c], h) = IF g = h THEN -1 ELSE 0
      BY SMTT(30), <2>2 DEF Share
    <2>4. row' = row /\ (DOMAIN routing = Shards => DOMAIN routing' = Shards /\ routing'[h] = routing[h] + (IF g = h THEN 1 ELSE 0))
      BY Zenon, <1>3 DEF CreateSchedule, Zincrby
    <2>5. Place(row'[s], h) = Place(row[s], h) /\ Place(row[s], h) \in {0, 1}
      BY Zenon, <2>4 DEF Place
    <2>6. DOMAIN routing = Shards => Covered(c, s, h)
      BY SMTT(30), <1>0, <1>2, <2>3, <2>4, <2>5 DEF Covered
    <2> QED
      BY ZenonT(40), <2>3, <2>4, <2>6 DEF Balanced
  <1>4. ASSUME NEW g \in Shards, CreateUncounted(c, s, g) PROVE Balanced(c, s, h)
    <2>1. ~AllCounted'
      BY SMTT(30), <1>4 DEF CreateUncounted, SpendAll, AllCounted, TypeInv, TypeOK, Events
    <2>2. row' = row /\ \E n : caller' = [caller EXCEPT ![c] = [pc |-> "insert", sched |-> s, next |-> n, shard |-> g, count |-> 0]]
      BY ZenonT(40), <1>4 DEF CreateUncounted
    <2>3. caller'[c].count = 0
      BY SMTT(30), <1>0, <2>2
    <2> QED
      BY ZenonT(40), <2>1, <2>2, <2>3 DEF Balanced
  <1>5. ASSUME NEW pc \in {"read", "zrem"}, NEW e \in {-1, 0, 1}, Then(c, s, pc, e), NEW r, SetRow(s, r), routing' = routing,
               row[s].shard = h => e + Place(row[s], h) >= Place(r, h), r.shard = row[s].shard
        PROVE  Balanced(c, s, h)
    <2>1. caller'[c] = [pc |-> pc, sched |-> s, next |-> 0, shard |-> row[s].shard, count |-> e]
      BY ZenonT(40), <1>0, <1>5 DEF Then
    <2>2. row'[s] = r /\ \A x \in Schedules : x # s => row'[x] = row[x]
      BY ZenonT(40), <1>0, <1>5 DEF SetRow
    <2>3. caller'[c].pc \notin {"idle", "insert"} /\ Share(caller'[c], h) = IF row[s].shard = h THEN e ELSE 0
      BY SMTT(30), <1>5, <2>1 DEF Share
    <2>4. /\ Place(row[s], h) \in {0, 1} /\ Place(r, h) \in {0, 1}
          /\ row[s].shard # h => Place(row[s], h) = 0 /\ Place(r, h) = 0
      BY Zenon, <1>5 DEF Place
    <2>5. DOMAIN routing = Shards => Covered(c, s, h)
      BY SMTT(30), <1>0, <1>2, <1>5, <2>2, <2>3, <2>4 DEF Covered
    <2> QED
      BY ZenonT(40), <1>5, <2>2, <2>3, <2>5 DEF Balanced
  <1>6. /\ Place(row[s], h) \in {0, 1}
        /\ \A n, t : UpdatedSchedule(row[s], n, t).shard = row[s].shard /\ Place(UpdatedSchedule(row[s], n, t), h) = Place(row[s], h)
        /\ \A t : DeletedSchedule(row[s], t).shard = row[s].shard /\ Place(DeletedSchedule(row[s], t), h) = 0
        /\ \A t : RestoredSchedule(row[s], t).shard = row[s].shard /\ Place(RestoredSchedule(row[s], t), h) \in {0, 1}
    BY Zenon, <1>0 DEF UpdatedSchedule, DeletedSchedule, RestoredSchedule, Place, Exists, Rows, ScheduleRows
  <1>7. ASSUME Exists(row[s])
        PROVE  \A t, st : st \in {"paused", "active"} => /\ WithStatus(row[s], st, t).shard = row[s].shard
                                                         /\ Place(WithStatus(row[s], st, t), h) = Place(row[s], h)
    BY Zenon, <1>0, <1>7 DEF WithStatus, Place, Exists, Rows, ScheduleRows
  <1>8. CASE UpdateSchedule(c, s)
    <2>1. PICK n : SetRow(s, UpdatedSchedule(row[s], n, now)) /\ Then(c, s, "read", 0)
      BY ZenonT(40), <1>8 DEF UpdateSchedule
    <2>2. PICK r : r = UpdatedSchedule(row[s], n, now)
      OBVIOUS
    <2>3. SetRow(s, r) /\ r.shard = row[s].shard /\ routing' = routing
      BY ZenonT(40), <1>6, <1>8, <2>1, <2>2 DEF UpdateSchedule, redis
    <2>4. 0 + Place(row[s], h) >= Place(r, h)
      BY SMTT(30), <1>6, <2>2
    <2> QED
      BY Zenon, <1>5, <2>1, <2>3, <2>4
  <1>9. CASE DeleteSchedule(c, s)
    <2>1. PICK r : r = DeletedSchedule(row[s], now)
      OBVIOUS
    <2>2. /\ SetRow(s, r) /\ r.shard = row[s].shard /\ routing' = routing /\ Exists(row[s])
          /\ Then(c, s, "zrem", -1) /\ Place(r, h) = 0
      BY ZenonT(40), <1>6, <1>9, <2>1 DEF DeleteSchedule, redis
    <2>3. row[s].shard = h => -1 + Place(row[s], h) >= Place(r, h)
      BY SMTT(30), <2>2 DEF Place
    <2> QED
      BY Zenon, <1>5, <2>2, <2>3
  <1>10. CASE RestoreSchedule(c, s)
    <2>1. PICK r : r = RestoredSchedule(row[s], now)
      OBVIOUS
    <2>2. /\ SetRow(s, r) /\ r.shard = row[s].shard /\ routing' = routing
          /\ Then(c, s, "read", 1) /\ Place(r, h) \in {0, 1}
      BY ZenonT(40), <1>6, <1>10, <2>1 DEF RestoreSchedule, redis
    <2>3. 1 + Place(row[s], h) >= Place(r, h)
      BY SMTT(30), <1>6, <2>2
    <2> QED
      BY Zenon, <1>5, <2>2, <2>3
  <1>11. ASSUME NEW st \in {"paused", "active"}, NEW pc \in {"read", "zrem"}, Exists(row[s]), routing' = routing,
                SetRow(s, WithStatus(row[s], st, now)), Then(c, s, pc, 0)
         PROVE  Balanced(c, s, h)
    <2>1. PICK r : r = WithStatus(row[s], st, now)
      OBVIOUS
    <2>2. SetRow(s, r) /\ r.shard = row[s].shard /\ Place(r, h) = Place(row[s], h)
      BY ZenonT(40), <1>7, <1>11, <2>1
    <2>3. 0 + Place(row[s], h) >= Place(r, h)
      BY SMTT(30), <1>6, <2>2
    <2> QED
      BY Zenon, <1>5, <1>11, <2>2, <2>3
  <1>12. CASE PauseSchedule(c, s)
    BY Zenon, <1>11, <1>12 DEF PauseSchedule, redis
  <1>13. CASE ResumeSchedule(c, s)
    BY Zenon, <1>11, <1>13 DEF ResumeSchedule, redis
  <1> QED
    BY ZenonT(40), <1>3, <1>4, <1>8, <1>9, <1>10, <1>12, <1>13

LEMMA CallerBalanced ==
    ASSUME TypeInv, RoutingInv, NEW h \in Shards, NEW c \in Callers, CallerStep(c)
    PROVE  \E s \in Schedules : Balanced(c, s, h)
  <1>0. /\ caller \in [Callers -> CallerStates] /\ caller[c] \in CallerStates /\ row \in [Schedules -> Rows]
        /\ (DOMAIN routing = Shards => routing[h] \in Int)
    BY ZenonT(40) DEF TypeInv, TypeOK, Rows
  <1>1. caller[c].pc # "idle"
    BY Zenon DEF CallerStep, InsertSchedule, InsertFails, ReadBack, ZaddPending, ZaddShards, ZremPending, ZincrbyRouting,
           RedisCallFails, CountFails, RequestStops, Doing, Free
  <1>2. PICK s \in Schedules : s = caller[c].sched
    BY ZenonT(40), <1>1 DEF TypeInv, Refs, CallerRef
  <1>3. PICK g \in Shards : g = caller[c].shard
    BY ZenonT(40), <1>1 DEF TypeInv, Refs, CallerRef
  <1>4. PICK n \in {-1, 0, 1} : n = caller[c].count
    BY ZenonT(40), <1>0 DEF CallerStates
  <1>5. Share(caller[c], h) = IF g = h THEN n - (IF caller[c].pc = "insert" THEN 1 ELSE 0) ELSE 0
    BY Zenon, <1>3, <1>4 DEF Share
  <1>6. Place(row[s], h) \in {0, 1} /\ IdleCaller.pc = "idle" /\ IdleCaller.count = 0 /\ Share(IdleCaller, h) = 0
    BY SMTT(30) DEF Place, Share, IdleCaller
  <1>7. CASE InsertSchedule(c)
    <2>1. caller[c].pc = "insert" /\ row[s].status = "none" /\ n = 0
      BY Zenon, <1>2, <1>4, <1>7 DEF InsertSchedule, Doing, TypeInv, Refs, CallerRef, RoutingInv
    <2>2. caller'[c].pc = "zadd" /\ caller'[c].shard = g /\ caller'[c].count = n
      BY Zenon, <1>0, <1>3, <1>4, <1>7 DEF InsertSchedule, CallerStates
    <2>3. row'[s] = CreatedSchedule(g, caller[c].next, now) /\ \A x \in Schedules : x # s => row'[x] = row[x]
      BY ZenonT(40), <1>0, <1>2, <1>3, <1>7 DEF InsertSchedule, SetRow
    <2>4. Place(row[s], h) = 0 /\ Place(row'[s], h) = IF g = h THEN 1 ELSE 0
      BY SMTT(30), <2>1, <2>3 DEF Place, Exists, CreatedSchedule
    <2>5. Share(caller'[c], h) = 0 /\ Share(caller[c], h) = (IF g = h THEN -1 ELSE 0) /\ routing' = routing
      BY SMTT(30), <1>5, <1>7, <2>1, <2>2 DEF Share, InsertSchedule, redis
    <2>6. DOMAIN routing = Shards => Covered(c, s, h)
      BY SMTT(30), <1>0, <2>4, <2>5 DEF Covered
    <2>7. caller'[c].pc \notin {"idle", "insert"}
      BY Zenon, <2>2
    <2> QED
      BY ZenonT(40), <2>3, <2>5, <2>6, <2>7 DEF Balanced
  \* Steps that leave the table alone.
  <1>8. ASSUME row' = row, caller'[c].pc \in {"idle", "insert"} => caller'[c].count = 0,
               AllCounted' /\ DOMAIN routing = Shards =>
                   DOMAIN routing' = Shards /\ routing'[h] + Share(caller'[c], h) >= routing[h] + Share(caller[c], h),
               Share(caller'[c], h) \in Int, DOMAIN routing' = Shards => routing'[h] \in Int
        PROVE  Balanced(c, s, h)
    <2>1. Share(caller[c], h) \in Int
      BY SMTT(30), <1>4, <1>5
    <2>2. AllCounted' /\ DOMAIN routing = Shards => Covered(c, s, h)
      BY SMTT(30), <1>0, <1>6, <1>8, <2>1 DEF Covered
    <2> QED
      BY ZenonT(40), <1>8, <2>2 DEF Balanced
  <1>9. CASE InsertFails(c)
    <2>1. row' = row /\ routing' = routing /\ caller'[c] = IdleCaller
      BY ZenonT(40), <1>0, <1>9 DEF InsertFails, redis
    <2>2. n = 0 /\ Share(caller[c], h) \in {0, -1}
      BY SMTT(30), <1>4, <1>5, <1>9 DEF InsertFails, Doing, RoutingInv
    <2>3. 0 \in Int /\ (DOMAIN routing = Shards => routing[h] + 0 >= routing[h] + Share(caller[c], h))
      BY SMTT(30), <1>0, <2>2
    <2> QED
      BY ZenonT(40), <1>0, <1>6, <1>8, <2>1, <2>3
  <1>10. ASSUME row' = row, routing' = routing, caller'[c].pc \in {"idle", "insert"} => caller'[c].count = 0,
                Share(caller'[c], h) = Share(caller[c], h)
         PROVE  Balanced(c, s, h)
    <2>1. Share(caller[c], h) \in Int
      BY SMTT(30), <1>4, <1>5
    <2>2. DOMAIN routing = Shards => routing[h] + Share(caller[c], h) >= routing[h] + Share(caller[c], h)
      BY SMTT(30), <1>0, <2>1
    <2> QED
      BY ZenonT(40), <1>0, <1>8, <1>10, <2>1, <2>2
  <1>11. CASE ReadBack(c)
    <2>1. caller[c].pc = "read" /\ caller'[c].pc = "zadd" /\ caller'[c].shard = caller[c].shard /\ caller'[c].count = caller[c].count
      BY Zenon, <1>0, <1>11 DEF ReadBack, Doing, CallerStates
    <2>2. Share(caller'[c], h) = Share(caller[c], h) /\ caller'[c].pc \notin {"idle", "insert"}
      BY Zenon, <2>1 DEF Share
    <2> QED
      BY ZenonT(40), <1>10, <1>11, <2>2 DEF ReadBack, redis
  <1>12. ASSUME Advance(c), caller[c].pc \in {"zadd", "shards", "zrem"}
         PROVE  /\ Share(caller'[c], h) = Share(caller[c], h)
                /\ caller'[c].pc \in {"idle", "insert"} => caller'[c].count = 0
    <2>1. caller'[c] = IF caller[c].pc = "zadd" THEN [caller[c] EXCEPT !.pc = "shards"]
                       ELSE IF caller[c].count # 0 THEN [caller[c] EXCEPT !.pc = "count"] ELSE IdleCaller
      BY Zenon, <1>0, <1>12 DEF Advance
    <2>2. ASSUME NEW pc \in {"shards", "count"}, caller'[c] = [caller[c] EXCEPT !.pc = pc]
          PROVE  Share(caller'[c], h) = Share(caller[c], h) /\ caller'[c].pc \notin {"idle", "insert"}
      BY Zenon, <1>0, <1>12, <2>2 DEF Share, CallerStates
    <2>3. ASSUME caller'[c] = IdleCaller, caller[c].count = 0
          PROVE  Share(caller'[c], h) = Share(caller[c], h) /\ caller'[c].count = 0
      <3>1. n = 0 /\ caller[c].pc # "insert"
        BY Zenon, <1>4, <1>12, <2>3
      <3>2. Share(caller[c], h) = IF g = h THEN n - 0 ELSE 0
        BY ZenonT(40), <1>5, <3>1
      <3>3. n - 0 = 0
        BY SMTT(30), <3>1
      <3> QED
        BY ZenonT(40), <1>6, <2>3, <3>2, <3>3
    <2> QED
      BY ZenonT(40), <1>12, <2>1, <2>2, <2>3
  <1>13. CASE ZaddPending(c) \/ ZaddShards(c) \/ ZremPending(c) \/ RedisCallFails(c)
    <2>1. Advance(c) /\ caller[c].pc \in {"zadd", "shards", "zrem"} /\ row' = row /\ routing' = routing
      BY ZenonT(40), <1>13 DEF ZaddPending, ZaddShards, ZremPending, RedisCallFails, Doing, redis
    <2> QED
      BY ZenonT(40), <1>10, <1>12, <2>1
  <1>14. CASE ZincrbyRouting(c)
    <2>1. caller'[c] = IdleCaller /\ caller[c].pc = "count" /\ row' = row
      BY Zenon, <1>0, <1>14 DEF ZincrbyRouting, Advance, Doing
    <2>2. DOMAIN routing = Shards => DOMAIN routing' = Shards /\ routing'[h] = routing[h] + (IF g = h THEN n ELSE 0)
      BY Zenon, <1>3, <1>4, <1>14 DEF ZincrbyRouting, Zincrby
    <2>3. Share(caller[c], h) = IF g = h THEN n ELSE 0
      BY SMTT(30), <1>4, <1>5, <2>1
    <2>4. DOMAIN routing = Shards => Covered(c, s, h)
      BY SMTT(30), <1>0, <1>4, <1>6, <2>1, <2>2, <2>3 DEF Covered
    <2> QED
      BY ZenonT(40), <1>6, <2>1, <2>2, <2>4 DEF Balanced
  <1>15. CASE CountFails(c) \/ RequestStops(c)
    <2>1. ~AllCounted'
      BY SMTT(30), <1>15 DEF CountFails, RequestStops, Spend, SpendAll, AllCounted, TypeInv, TypeOK, Events
    <2>2. row' = row /\ caller'[c] = IdleCaller
      BY Zenon, <1>0, <1>15 DEF CountFails, RequestStops, Advance, Doing
    <2> QED
      BY ZenonT(40), <1>6, <2>1, <2>2 DEF Balanced
  <1> QED
    BY ZenonT(40), <1>7, <1>9, <1>11, <1>13, <1>14, <1>15 DEF CallerStep

\* Workers, reconcilers and the environment leave the balance alone, short of
\* Redis losing its data.
LEMMA QuietCounts ==
    ASSUME TypeInv, [Next]_vars, ~\E c \in Callers : Request(c) \/ CallerStep(c), AllCounted'
    PROVE  routing' = routing
  <1>1. ASSUME NEW w \in Workers, WorkerStep(w) PROVE routing' = routing
    BY ZenonT(40), <1>1 DEF WorkerStep, PickFromShards, AcquireLock, AcquireFails, PollDue, PollFails, RemoveShard,
              RemoveFails, FireFetch, FireSkip, FireCommit, FireRollback, Rescore, RescoreFails, BatchDone,
              ReleaseLock, ReleaseFails, redis
  <1>2. ASSUME NEW i \in Instances, ReconcileStep(i) \/ Restart(i) PROVE routing' = routing
    BY ZenonT(40), <1>2 DEF ReconcileStep, ReconcileQuery, ReconcileFails, ReconcileAdd, ReconcileShard, ReconcileEnd,
              Restart, redis
  <1>3. ASSUME NEW g \in Shards, LockExpires(g) PROVE routing' = routing
    BY ZenonT(40), <1>3 DEF LockExpires
  <1>4. CASE RedisLoss
    BY SMTT(30), <1>4 DEF RedisLoss, Spend, SpendAll, AllCounted, TypeInv, TypeOK, Events
  <1>5. CASE Tick \/ UNCHANGED vars
    BY ZenonT(40), <1>5 DEF Tick, redis, vars
  <1> QED
    BY ZenonT(40), <1>1, <1>2, <1>3, <1>4, <1>5 DEF Next

LEMMA QuietStep ==
    ASSUME TypeInv, [Next]_vars, ~\E c \in Callers : Request(c) \/ CallerStep(c), NEW h \in Shards
    PROVE  /\ Plus(h)' = Plus(h) /\ Inserting(h)' = Inserting(h) /\ Minus(h)' = Minus(h) /\ Members(h)' = Members(h)
  <1>1. caller' = caller
    BY ZenonT(40), CallerFrame
  <1>2. \A s \in Schedules : Exists(row'[s]) /\ row'[s].shard = h <=> Exists(row[s]) /\ row[s].shard = h
    <2> SUFFICES ASSUME NEW s \in Schedules
                 PROVE  Exists(row'[s]) /\ row'[s].shard = h <=> Exists(row[s]) /\ row[s].shard = h
      OBVIOUS
    <2>1. row' = row \/ \E w \in Workers : FireCommit(w)
      BY ZenonT(40), RowFrame DEF Request, CallerStep
    <2>2. ASSUME NEW w \in Workers, FireCommit(w)
          PROVE  row'[s] = row[s] \/ row'[s] = FiredSchedule(row[s], worker[w].next, now)
      BY ZenonT(40), <2>2 DEF FireCommit, SetRow, TypeInv, TypeOK
    <2>3. ASSUME NEW n, row'[s] = FiredSchedule(row[s], n, now)
          PROVE  row'[s].shard = row[s].shard /\ (Exists(row'[s]) <=> Exists(row[s]))
      <3>1. row[s] \in Rows
        BY ZenonT(40) DEF TypeInv, TypeOK, Rows
      <3> QED
        BY Zenon, <2>3, <3>1 DEF FiredSchedule, Exists, Rows, ScheduleRows
    <2> QED
      BY ZenonT(40), <2>1, <2>2, <2>3
  <1> QED
    BY ZenonT(40), <1>1, <1>2 DEF Plus, Inserting, Minus, Members

LEMMA CountedStays ==
    ASSUME TypeInv, [Next]_vars, AllCounted'
    PROVE  AllCounted
  <1>1. spent' = spent \/ (\E K : SpendAll(K))
    BY ZenonT(40), SpentFrame DEF CalmSpend, Spend, RedisLoss, LockExpires
  <1>2. ASSUME NEW K, SpendAll(K) PROVE AllCounted
    BY SMTT(30), <1>2 DEF SpendAll, AllCounted, TypeInv, TypeOK, Events
  <1> QED
    BY ZenonT(40), <1>1, <1>2 DEF AllCounted

\* A request that goes on works for a shard.
LEMMA SomeShard ==
    ASSUME TypeInv, NEW c \in Callers, Request(c) \/ CallerStep(c)
    PROVE  \E h : h \in Shards
  <1>1. CASE CallerStep(c)
    <2>1. caller[c].pc # "idle"
      BY Zenon, <1>1 DEF CallerStep, InsertSchedule, InsertFails, ReadBack, ZaddPending, ZaddShards, ZremPending, ZincrbyRouting,
             RedisCallFails, CountFails, RequestStops, Doing, Free
    <2> QED
      BY ZenonT(40), <2>1 DEF TypeInv, Refs, CallerRef
  <1>2. ASSUME NEW s \in Schedules,
               \/ UpdateSchedule(c, s) \/ DeleteSchedule(c, s) \/ RestoreSchedule(c, s)
               \/ PauseSchedule(c, s) \/ ResumeSchedule(c, s)
        PROVE  row[s].shard \in Shards
    <2>1. row[s].status # "none"
      BY Zenon, <1>2 DEF UpdateSchedule, DeleteSchedule, RestoreSchedule, PauseSchedule, ResumeSchedule, Exists
    <2> QED
      BY ZenonT(40), <2>1 DEF TypeInv, Refs
  <1> QED
    BY ZenonT(40), <1>1, <1>2 DEF Request

\* The counting of finite sets, which only the lemmas from here on need.
FST == INSTANCE FiniteSetTheorems

LEMMA SameCount ==
    ASSUME NEW S
    PROVE  FST!Cardinality(S) = Cardinality(S) /\ (FST!IsFiniteSet(S) <=> IsFiniteSet(S))
  <1>1. FST!Cardinality(S) = Cardinality(S)
    BY Zenon DEF FST!Cardinality, Cardinality
  <1>2. FST!IsFiniteSet(S) <=> IsFiniteSet(S)
    BY Zenon DEF FST!IsFiniteSet, IsFiniteSet
  <1> QED
    BY Zenon, <1>1, <1>2

LEMMA CountType ==
    ASSUME NEW S, IsFiniteSet(S)
    PROVE  Cardinality(S) \in Nat
  BY Zenon, SameCount, FST!FS_CardinalityType

LEMMA CountEmpty == IsFiniteSet({}) /\ Cardinality({}) = 0
  BY Zenon, SameCount, FST!FS_EmptySet

LEMMA CountOneMore ==
    ASSUME NEW S, NEW x, IsFiniteSet(S)
    PROVE  /\ IsFiniteSet(S \cup {x})
           /\ Cardinality(S \cup {x}) = IF x \in S THEN Cardinality(S) ELSE Cardinality(S) + 1
  BY Zenon, SameCount, FST!FS_AddElement

LEMMA CountOneLess ==
    ASSUME NEW S, NEW x, IsFiniteSet(S)
    PROVE  /\ IsFiniteSet(S \ {x})
           /\ Cardinality(S \ {x}) = IF x \in S THEN Cardinality(S) - 1 ELSE Cardinality(S)
  BY ZenonT(40), SameCount, FST!FS_RemoveElement

LEMMA RoutingIsCovered ==
    ASSUME TypeInv, RoutingInv
    PROVE  RoutingCovers
  <1> SUFFICES ASSUME AllCounted, NEW h \in Shards
               PROVE  routing[h] + Cardinality(Plus(h)) >= Cardinality(Members(h)) + Cardinality(Inserting(h)) + Cardinality(Minus(h))
    BY ZenonT(40) DEF RoutingCovers, AllCounted, Owing, Plus, Members, Inserting, Minus
  <1>1. /\ Cardinality(Plus(h)) \in Nat /\ Cardinality(Members(h)) \in Nat /\ Cardinality(Inserting(h)) \in Nat
        /\ Cardinality(Minus(h)) \in Nat
    BY ZenonT(40), CountType DEF RoutingInv, Finite
  <1>2. routing[h] \in Int /\ routing[h] + Surplus(h) >= 0
    BY ZenonT(40) DEF RoutingInv, TypeInv, TypeOK
  <1> QED
    BY SMTT(30), <1>1, <1>2 DEF Surplus

\* A set of which only x may come or go.
Bit(b) == IF b THEN 1 ELSE 0

LEMMA OneMoves ==
    ASSUME NEW S, NEW T, NEW x, IsFiniteSet(S), \A y : y # x => (y \in T <=> y \in S)
    PROVE  /\ IsFiniteSet(T) /\ Cardinality(S) \in Nat /\ Cardinality(T) \in Nat
           /\ Cardinality(T) = Cardinality(S) + Bit(x \in T) - Bit(x \in S)
  <1>0. Cardinality(S) \in Nat
    BY ZenonT(40), CountType
  <1>1. CASE (x \in S /\ x \in T) \/ (x \notin S /\ x \notin T)
    <2>1. T = S
      <3>1. \A y : y \in T <=> y \in S
        BY ZenonT(40), <1>1
      <3> QED
        BY Zenon, <3>1
    <2>2. Bit(x \in T) = Bit(x \in S) /\ Bit(x \in S) \in {0, 1}
      BY Zenon, <1>1 DEF Bit
    <2> QED
      BY SMTT(30), <1>0, <2>1, <2>2
  <1>2. CASE x \notin S /\ x \in T
    <2>1. T = S \cup {x}
      BY ZenonT(40), <1>2
    <2>2. IsFiniteSet(T) /\ Cardinality(T) = Cardinality(S) + 1
      BY ZenonT(40), <1>2, <2>1, CountOneMore
    <2>3. Bit(x \in T) = 1 /\ Bit(x \in S) = 0
      BY Zenon, <1>2 DEF Bit
    <2> QED
      BY SMTT(30), <1>0, <2>2, <2>3
  <1>3. CASE x \in S /\ x \notin T
    <2>1. T = S \ {x}
      BY ZenonT(40), <1>3
    <2>2. IsFiniteSet(T) /\ Cardinality(T) = Cardinality(S) - 1
      BY ZenonT(40), <1>3, <2>1, CountOneLess
    <2>3. Bit(x \in T) = 0 /\ Bit(x \in S) = 1
      BY Zenon, <1>3 DEF Bit
    <2>4. Cardinality(T) \in Nat
      BY ZenonT(40), <2>2, CountType
    <2> QED
      BY SMTT(30), <1>0, <2>2, <2>3, <2>4
  <1> QED
    BY ZenonT(40), <1>1, <1>2, <1>3

LEMMA SurplusMoves ==
    ASSUME TypeInv, TypeOK', NEW h \in Shards, Finite(h), NEW c \in Callers, NEW s \in Schedules,
           \A d \in Callers : d # c => caller'[d] = caller[d], \A x \in Schedules : x # s => row'[x] = row[x]
    PROVE  /\ Finite(h)' /\ Surplus(h) \in Int /\ Surplus(h)' \in Int
           /\ Surplus(h)' = Surplus(h) + Share(caller'[c], h) - Share(caller[c], h) + Place(row[s], h) - Place(row'[s], h)
  <1>1. /\ IsFiniteSet(Plus(h)') /\ Cardinality(Plus(h)) \in Nat /\ Cardinality(Plus(h)') \in Nat
        /\ Cardinality(Plus(h)') = Cardinality(Plus(h)) + Bit(c \in Plus(h)') - Bit(c \in Plus(h))
    <2>1. \A y : y # c => (y \in Plus(h)' <=> y \in Plus(h))
      BY ZenonT(40) DEF Plus
    <2> QED
      BY ZenonT(40), <2>1, OneMoves DEF Finite
  <1>2. /\ IsFiniteSet(Inserting(h)') /\ Cardinality(Inserting(h)) \in Nat /\ Cardinality(Inserting(h)') \in Nat
        /\ Cardinality(Inserting(h)') = Cardinality(Inserting(h)) + Bit(c \in Inserting(h)') - Bit(c \in Inserting(h))
    <2>1. \A y : y # c => (y \in Inserting(h)' <=> y \in Inserting(h))
      BY ZenonT(40) DEF Inserting
    <2> QED
      BY ZenonT(40), <2>1, OneMoves DEF Finite
  <1>3. /\ IsFiniteSet(Minus(h)') /\ Cardinality(Minus(h)) \in Nat /\ Cardinality(Minus(h)') \in Nat
        /\ Cardinality(Minus(h)') = Cardinality(Minus(h)) + Bit(c \in Minus(h)') - Bit(c \in Minus(h))
    <2>1. \A y : y # c => (y \in Minus(h)' <=> y \in Minus(h))
      BY ZenonT(40) DEF Minus
    <2> QED
      BY ZenonT(40), <2>1, OneMoves DEF Finite
  <1>4. /\ IsFiniteSet(Members(h)') /\ Cardinality(Members(h)) \in Nat /\ Cardinality(Members(h)') \in Nat
        /\ Cardinality(Members(h)') = Cardinality(Members(h)) + Bit(s \in Members(h)') - Bit(s \in Members(h))
    <2>1. \A y : y # s => (y \in Members(h)' <=> y \in Members(h))
      BY ZenonT(40) DEF Members
    <2> QED
      BY ZenonT(40), <2>1, OneMoves DEF Finite
  <1>5. caller[c] \in CallerStates /\ caller'[c] \in CallerStates
    BY ZenonT(40) DEF TypeInv, TypeOK
  <1>6. /\ Share(caller[c], h) = Bit(c \in Plus(h)) - Bit(c \in Inserting(h)) - Bit(c \in Minus(h))
        /\ Bit(c \in Plus(h)) \in {0, 1} /\ Bit(c \in Inserting(h)) \in {0, 1} /\ Bit(c \in Minus(h)) \in {0, 1}
    BY SMTT(30), <1>5 DEF Share, Bit, Plus, Inserting, Minus, CallerStates
  <1>7. /\ Share(caller'[c], h) = Bit(c \in Plus(h)') - Bit(c \in Inserting(h)') - Bit(c \in Minus(h)')
        /\ Bit(c \in Plus(h)') \in {0, 1} /\ Bit(c \in Inserting(h)') \in {0, 1} /\ Bit(c \in Minus(h)') \in {0, 1}
    BY SMTT(30), <1>5 DEF Share, Bit, Plus, Inserting, Minus, CallerStates
  <1>8. /\ Place(row[s], h) = Bit(s \in Members(h)) /\ Place(row'[s], h) = Bit(s \in Members(h)')
        /\ Bit(s \in Members(h)) \in {0, 1} /\ Bit(s \in Members(h)') \in {0, 1}
    BY Zenon DEF Place, Bit, Members
  <1> QED
    BY SMTT(30), <1>1, <1>2, <1>3, <1>4, <1>6, <1>7, <1>8 DEF Finite, Surplus

LEMMA InitRouting == Init => RoutingInv
  <1> SUFFICES ASSUME Init PROVE RoutingInv
    OBVIOUS
  <1>1. \A c \in Callers : caller[c].pc = "idle" /\ caller[c].count = 0 /\ caller[c].shard = Nobody
    BY Zenon DEF Init, IdleCaller
  <1>2. \A s \in Schedules : ~Exists(row[s])
    BY Zenon DEF Init, NoSchedule, Exists
  <1>3. DOMAIN routing = Shards /\ \A h \in Shards : routing[h] = 0
    BY Zenon DEF Init
  <1>4. ASSUME NEW h \in Shards PROVE Plus(h) = {} /\ Inserting(h) = {} /\ Minus(h) = {} /\ Members(h) = {}
    BY SMTT(30), <1>1, <1>2 DEF Plus, Inserting, Minus, Members
  <1>5. IsFiniteSet({}) /\ Cardinality({}) = 0
    BY Zenon, CountEmpty
  <1>6. ASSUME NEW h \in Shards PROVE Finite(h) /\ Surplus(h) = 0
    BY SMTT(30), <1>4, <1>5 DEF Finite, Surplus
  <1> QED
    BY SMTT(30), <1>1, <1>3, <1>6 DEF RoutingInv

LEMMA NextRouting == TypeInv /\ RoutingInv /\ [Next]_vars => RoutingInv'
  <1> SUFFICES ASSUME TypeInv, RoutingInv, [Next]_vars PROVE RoutingInv'
    OBVIOUS
  <1>0. TypeOK' /\ (AllCounted' => AllCounted)
    BY ZenonT(40), TypeStep, CountedStays
  <1>1. ASSUME NEW c \in Callers, Request(c) \/ CallerStep(c) PROVE RoutingInv'
    <2>1. \A h \in Shards : \E s \in Schedules : Balanced(c, s, h)
      BY ZenonT(40), <1>1, RequestBalanced, CallerBalanced DEF Request
    <2>2. \A d \in Callers : d # c => caller'[d] = caller[d]
      BY ZenonT(40), <1>1, CallerEffect
    <2>3. ASSUME NEW h \in Shards
          PROVE  /\ Finite(h)' /\ (caller'[c].pc \in {"idle", "insert"} => caller'[c].count = 0)
                 /\ AllCounted' => DOMAIN routing' = Shards /\ routing'[h] + Surplus(h)' >= 0
      <3>1. PICK s \in Schedules : Balanced(c, s, h)
        BY ZenonT(40), <2>1
      <3>2. /\ Finite(h)' /\ Surplus(h) \in Int /\ Surplus(h)' \in Int
            /\ Surplus(h)' = Surplus(h) + Share(caller'[c], h) - Share(caller[c], h) + Place(row[s], h) - Place(row'[s], h)
        BY ZenonT(40), <1>0, <2>2, <3>1, SurplusMoves DEF Balanced, RoutingInv
      <3>3. ASSUME AllCounted' PROVE DOMAIN routing' = Shards /\ routing'[h] + Surplus(h)' >= 0
        <4>1. routing[h] + Surplus(h) >= 0 /\ Covered(c, s, h) /\ DOMAIN routing' = Shards /\ DOMAIN routing = Shards
          BY ZenonT(40), <1>0, <3>1, <3>3 DEF RoutingInv, Balanced
        <4>2. routing[h] \in Int /\ routing'[h] \in Int /\ caller[c] \in CallerStates /\ caller'[c] \in CallerStates
          BY ZenonT(40), <1>0, <4>1 DEF TypeInv, TypeOK
        <4>3. /\ Share(caller[c], h) \in Int /\ Share(caller'[c], h) \in Int
              /\ Place(row[s], h) \in Int /\ Place(row'[s], h) \in Int
          BY SMTT(30), <4>2 DEF Share, Place, CallerStates
        <4>4. routing'[h] + Surplus(h)' >= 0
          BY SMTT(30), <3>2, <4>1, <4>2, <4>3 DEF Covered
        <4> QED
          BY ZenonT(40), <4>1, <4>4
      <3> QED
        BY ZenonT(40), <3>1, <3>2, <3>3 DEF Balanced
    <2>4. \E h : h \in Shards
      BY ZenonT(40), <1>1, SomeShard
    <2> QED
      BY ZenonT(40), <2>2, <2>3, <2>4 DEF RoutingInv
  <1>2. CASE ~\E c \in Callers : Request(c) \/ CallerStep(c)
    <2>1. ASSUME NEW h \in Shards
          PROVE  Finite(h)' /\ Surplus(h)' = Surplus(h)
      BY ZenonT(40), <1>2, <2>1, QuietStep DEF Finite, Surplus, RoutingInv
    <2>2. caller' = caller /\ (AllCounted' => routing' = routing)
      BY ZenonT(40), <1>2, CallerFrame, QuietCounts
    <2> QED
      BY ZenonT(40), <1>0, <2>1, <2>2 DEF RoutingInv
  <1> QED
    BY ZenonT(40), <1>1, <1>2

\* While no count was lost (a failed ZINCRBY, a process that died between the
\* write and its count, a Redis that lost its data), the count that
\* assign_shard reads for a shard, with what requests have still to add, is at
\* least the schedules of the shard, the ones about to be inserted and the ones
\* about to be taken off, whatever the interleaving of the API's requests.
THEOREM RoutingIsNeverShort == Spec => []RoutingCovers
  BY InitTypeInv, InitRouting, NextTypeInv, NextRouting, RoutingIsCovered, PTL DEF Spec
=============================================================================
