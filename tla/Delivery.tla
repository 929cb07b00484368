------------------------------- MODULE Delivery -------------------------------
(***************************************************************************)
(* The delivery pipeline: delivery_jobs rows in PostgreSQL, references to  *)
(* them in one Redis stream, and the processes that move them along.       *)
(*                                                                         *)
(*   publishers  API requests (enqueue_delivery, retry_delivery_job),      *)
(*               scheduler fires, and the worker's outbox poller: each     *)
(*               writes a row, XADDs, puts the stream into the set workers *)
(*               choose from and (not the scheduler) sets enqueued_at, as  *)
(*               separate calls and not all in the same order              *)
(*   tasks       executions of process_one, started by a consumer that     *)
(*               read the entry or by the reclaim loop that claimed it     *)
(*   trimmer     xtrim_safe: XPENDING, XINFO and XTRIM as separate calls   *)
(*                                                                         *)
(* One step is one statement or call on PostgreSQL, Redis or the endpoint, *)
(* so everything that can happen between two of them can happen here.      *)
(***************************************************************************)
EXTENDS RedisStream, DeliveryJob

CONSTANTS
    Jobs,         \* delivery jobs of one stream
    NoJob,        \* "no job", of an idle publisher
    Callers,      \* API requests and scheduler fires running at the same time
    Outboxes,     \* outbox pollers, one per worker process
    Tasks,        \* executions of process_one running at the same time
    MaxAttempts,  \* delivery_jobs.max_attempts
    StartId,      \* where ensure_consumer_group starts the group
    Sources,      \* who creates jobs: "api", "fire"
    MaxEntries,   \* bound on XADDs
    Budget        \* bound on each kind of environment event

\* What the environment may do, Budget[k] times each:
\*   crash     a process dies between two of its steps
\*   redis     a Redis call fails
\*   db        a PostgreSQL statement fails
\*   loss      Redis restarts without its data
\*   endpoint  the endpoint is suspended or deleted, or its last secret expires
\*   defer     a guard of process_one holds (429 block, open circuit, rate limit)
\*   slow      an entry is reclaimed although its task still runs
\*   retry     POST /delivery-jobs/{id}/retry on a failed job
\*   trim      a run of the trim task
\*   any       all of these together
Kinds == {"crash", "redis", "db", "loss", "endpoint", "defer", "slow", "retry", "trim", "any"}

ASSUME DeliveryAssumption ==
    /\ NoJob \notin Jobs
    /\ Callers \cap Outboxes = {}
    /\ MaxAttempts \in Nat \ {0}
    /\ StartId \in {"$", "0-0"}
    /\ Sources \subseteq {"api", "fire"}
    /\ MaxEntries \in Nat
    /\ Budget \in [Kinds -> Nat]

Publishers == Callers \cup Outboxes

VARIABLES
    jobs,     \* the delivery_jobs rows
    rows,     \* number of delivery_attempts rows of each job, by outcome
    stream,   \* the Redis stream
    listed,   \* the stream is a member of hookly:q:streams
    active,   \* the endpoint is active, not deleted, and has a usable secret
    pub,      \* state of each publisher
    todo,     \* jobs an outbox poller has listed and not yet handled
    task,     \* state of each process_one
    trimmer,  \* state of the trim task
    spent,    \* environment events so far
    forgotten,\* history: the stream is not listed and a registration was lost
              \* since it was
    cause     \* history: what may have separated a job from its entry since it
              \* was last handed to the outbox

registry == <<listed, forgotten>>
vars == <<jobs, rows, stream, active, pub, todo, task, trimmer, spent, cause, registry>>

Causes == {"late_mark", "write_failed", "undeliverable", "trimmed", "data_loss", "group_start"}

IdlePublisher == [pc |-> "idle", job |-> NoJob, msg |-> 0]
IdleTask == [pc |-> "idle", msg |-> 0, attempt |-> 0, ok |-> FALSE]
IdleTrimmer == [pc |-> "idle", cut |-> 0]

PublisherStates ==
    [pc: {"idle", "xadd", "xadd_fire", "xadd_again", "mark", "mark_again", "register", "register_again"},
     job: Jobs \cup {NoJob}, msg: Nat]
TaskStates ==
    [pc: {"idle", "fetch", "guard", "record", "write", "ack"},
     msg: Nat, attempt: Nat, ok: BOOLEAN]

TypeOK ==
    /\ jobs \in [Jobs -> JobRows]
    /\ rows \in [Jobs -> [ok: Nat, bad: Nat]]
    /\ stream \in Streams(Jobs)
    /\ active \in BOOLEAN
    /\ listed \in BOOLEAN /\ forgotten \in BOOLEAN
    /\ pub \in [Publishers -> PublisherStates]
    /\ todo \in [Outboxes -> SUBSET Jobs]
    /\ task \in [Tasks -> TaskStates]
    /\ trimmer \in [pc: {"idle", "xinfo", "xtrim"}, cut: Nat]
    /\ spent \in [Kinds -> Nat]
    /\ cause \in [Jobs -> SUBSET Causes]

Init ==
    /\ jobs = [j \in Jobs |-> NoRow]
    /\ rows = [j \in Jobs |-> [ok |-> 0, bad |-> 0]]
    /\ stream = EmptyStream(StartId = "$")  \* tier groups precede publishers
    /\ listed = (StartId = "$")             \* and a worker registers tier streams when it starts
    /\ forgotten = FALSE
    /\ active = TRUE
    /\ pub = [p \in Publishers |-> IdlePublisher]
    /\ todo = [o \in Outboxes |-> {}]
    /\ task = [t \in Tasks |-> IdleTask]
    /\ trimmer = IdleTrimmer
    /\ spent = [k \in Kinds |-> 0]
    /\ cause = [j \in Jobs |-> {}]

Spend(k) ==
    /\ spent[k] < Budget[k] /\ spent["any"] < Budget["any"]
    /\ spent' = [x \in Kinds |-> IF x \in {k, "any"} THEN spent[x] + 1 ELSE spent[x]]

\* A row that goes back to the outbox forgets what happened before.
SetRow(j, r) == jobs' = [jobs EXCEPT ![j] = r]
Rearmed(j) == cause' = [cause EXCEPT ![j] = {}]
Blame(J, why) == cause' = [j \in Jobs |-> IF j \in J THEN cause[j] \cup {why} ELSE cause[j]]

-----------------------------------------------------------------------------
(* Publishers                                                              *)

\* What follows a call: enqueue_delivery marks, then registers; a fire only
\* registers; retry_delivery_job and the outbox register, then mark.
After(pc) ==
    CASE pc = "xadd" -> "mark"
      [] pc \in {"mark", "xadd_fire"} -> "register"
      [] pc = "xadd_again" -> "register_again"
      [] pc = "register_again" -> "mark_again"
      [] OTHER -> "idle"
Adding == {"xadd", "xadd_fire", "xadd_again"}
Marking == {"mark", "mark_again"}
Registering == {"register", "register_again"}

\* A publisher goes on, with the id its XADD returned.
GoOn(p, msg) ==
    LET pc == After(pub[p].pc) IN
    pub' = [pub EXCEPT ![p] = IF pc = "idle" THEN IdlePublisher
                              ELSE [pc |-> pc, job |-> pub[p].job, msg |-> msg]]

\* enqueue_delivery inserts the row; its XADD is next.
CreateJob(c, j) ==
    /\ "api" \in Sources
    /\ pub[c].pc = "idle"
    /\ jobs[j].status = "none"
    /\ SetRow(j, CreatedRow)
    /\ pub' = [pub EXCEPT ![c] = [pc |-> "xadd", job |-> j, msg |-> 0]]
    /\ UNCHANGED <<rows, stream, active, todo, task, trimmer, spent, cause, registry>>

\* fire_inner commits the rows of a fire; its XADD is next.
FireJob(c, j) ==
    /\ "fire" \in Sources
    /\ pub[c].pc = "idle"
    /\ jobs[j].status = "none"
    /\ SetRow(j, CreatedRow)
    /\ pub' = [pub EXCEPT ![c] = [pc |-> "xadd_fire", job |-> j, msg |-> 0]]
    /\ UNCHANGED <<rows, stream, active, todo, task, trimmer, spent, cause, registry>>

\* retry_delivery_job resets a failed job; its XADD is next.
RetryJob(c, j) ==
    /\ pub[c].pc = "idle"
    /\ Retryable(jobs[j])
    /\ Spend("retry")
    /\ SetRow(j, ResetForRetry(jobs[j]))
    /\ Rearmed(j)
    /\ pub' = [pub EXCEPT ![c] = [pc |-> "xadd_again", job |-> j, msg |-> 0]]
    /\ UNCHANGED <<rows, stream, active, todo, task, trimmer, registry>>

\* outbox::run: list_unqueued.
OutboxList(o) ==
    /\ pub[o].pc = "idle"
    /\ todo[o] = {}
    /\ \E j \in Jobs : Unqueued(jobs[j])
    /\ todo' = [todo EXCEPT ![o] = {j \in Jobs : Unqueued(jobs[j])}]
    /\ UNCHANGED <<jobs, rows, stream, active, pub, task, trimmer, spent, cause, registry>>

\* outbox::run: the next job of the list.
OutboxNext(o, j) ==
    /\ pub[o].pc = "idle"
    /\ j \in todo[o]
    /\ todo' = [todo EXCEPT ![o] = @ \ {j}]
    /\ pub' = [pub EXCEPT ![o] = [pc |-> "xadd_again", job |-> j, msg |-> 0]]
    /\ UNCHANGED <<jobs, rows, stream, active, task, trimmer, spent, cause, registry>>

\* XADD succeeded.
EnqueueOk(p) ==
    /\ pub[p].pc \in Adding
    /\ Len(stream.log) < MaxEntries
    /\ stream' = Enqueue(stream, pub[p].job)
    /\ GoOn(p, NextId(stream))
    /\ UNCHANGED <<jobs, rows, active, todo, task, trimmer, spent, cause, registry>>

\* XADD returned an error; the entry may have been added all the same.  Only a
\* fire registers the stream in any case.
EnqueueFails(p) ==
    /\ pub[p].pc \in Adding
    /\ Spend("redis")
    /\ \/ UNCHANGED stream
       \/ Len(stream.log) < MaxEntries /\ stream' = Enqueue(stream, pub[p].job)
    /\ IF pub[p].pc = "xadd_fire" THEN GoOn(p, 0) ELSE pub' = [pub EXCEPT ![p] = IdlePublisher]
    /\ UNCHANGED <<jobs, rows, active, todo, task, trimmer, cause, registry>>

\* A task has already decided what becomes of entry m, or m is gone.
Settled(m) ==
    \/ ~Readable(stream, m)
    \/ \E t \in Tasks : task[t].msg = m /\ task[t].pc = "ack"

\* mark_enqueued, whatever happened to the job since the XADD.
MarkEnqueued(p) ==
    /\ pub[p].pc \in Marking
    /\ SetRow(pub[p].job, MarkedEnqueued(jobs[pub[p].job]))
    /\ GoOn(p, pub[p].msg)
    /\ IF Settled(pub[p].msg) THEN Blame({pub[p].job}, "late_mark") ELSE UNCHANGED cause
    /\ UNCHANGED <<rows, stream, active, todo, task, trimmer, spent, registry>>

\* mark_enqueued failed: logged, and the job stays listed.
MarkEnqueuedFails(p) ==
    /\ pub[p].pc \in Marking
    /\ Spend("db")
    /\ GoOn(p, pub[p].msg)
    /\ UNCHANGED <<jobs, rows, stream, active, todo, task, trimmer, cause, registry>>

\* register_stream: ZADD NX.
Registered == listed' = TRUE /\ forgotten' = FALSE
RegistrationLost == listed' = listed /\ forgotten' = ~listed

Register(p) ==
    /\ pub[p].pc \in Registering
    /\ Registered
    /\ GoOn(p, pub[p].msg)
    /\ UNCHANGED <<jobs, rows, stream, active, todo, task, trimmer, spent, cause>>

\* register_stream failed, which is only logged; it may have taken effect.
RegisterFails(p) ==
    /\ pub[p].pc \in Registering
    /\ Spend("redis")
    /\ Registered \/ RegistrationLost
    /\ GoOn(p, pub[p].msg)
    /\ UNCHANGED <<jobs, rows, stream, active, todo, task, trimmer, cause>>

\* The publisher's process dies; a poller also loses its list.
PublisherCrash(p) ==
    /\ pub[p].pc # "idle"
    /\ Spend("crash")
    /\ pub' = [pub EXCEPT ![p] = IdlePublisher]
    /\ todo' = [o \in Outboxes |-> IF o = p THEN {} ELSE todo[o]]
    /\ IF pub[p].pc \in Registering THEN RegistrationLost ELSE UNCHANGED registry
    /\ UNCHANGED <<jobs, rows, stream, active, task, trimmer, cause>>

-----------------------------------------------------------------------------
(* Consumers: process_one                                                  *)

TaskJob(t) == stream.log[task[t].msg]
Goto(t, pc) == task' = [task EXCEPT ![t].pc = pc]
Finish(t) == task' = [task EXCEPT ![t] = IdleTask]
Held(m) == \E t \in Tasks : task[t].pc # "idle" /\ task[t].msg = m

Started(m) == [IdleTask EXCEPT !.pc = "fetch", !.msg = m]

\* consumer::run reads an entry and spawns process_one for it.  A batch is
\* several such reads by several tasks.  The consumer claimed the stream from
\* the set some time before, and another worker may have removed it since:
\* membership is a condition of the fairness of reads, not of a read.  The same
\* goes for the lists the reclaim and trim loops work through.
ReadEntry(t) ==
    /\ task[t].pc = "idle"
    /\ CanRead(stream)
    /\ task' = [task EXCEPT ![t] = Started(stream.last + 1)]
    /\ stream' = XReadGroup(stream)
    /\ UNCHANGED <<jobs, rows, active, pub, todo, trimmer, spent, cause, registry>>

\* reclaim::run claims an entry that has been idle for the threshold: its task
\* is gone, or ("slow") takes longer than that.
Reclaim(t, m) ==
    /\ task[t].pc = "idle"
    /\ m \in Claimable(stream)
    /\ IF Held(m) THEN Spend("slow") ELSE UNCHANGED spent
    /\ stream' = XAutoClaim(stream)
    /\ task' = [task EXCEPT ![t] = Started(m)]
    /\ UNCHANGED <<jobs, rows, active, pub, todo, trimmer, cause, registry>>

\* get_job_for_delivery returned the job.
FetchJob(t) ==
    /\ task[t].pc = "fetch"
    /\ Live(jobs[TaskJob(t)]) /\ active
    /\ task' = [task EXCEPT ![t].pc = "guard", ![t].attempt = jobs[TaskJob(t)].attempt]
    /\ UNCHANGED <<jobs, rows, stream, active, pub, todo, trimmer, spent, cause, registry>>

\* Broken variant: the early return forgets XACK.
FetchNoneWithoutAck(t) ==
    /\ task[t].pc = "fetch"
    /\ ~(Live(jobs[TaskJob(t)]) /\ active)
    /\ Finish(t)
    /\ UNCHANGED <<jobs, rows, stream, active, pub, todo, trimmer, spent, cause, registry>>

\* get_job_for_delivery returned None: the entry is acknowledged, the row left.
FetchNone(t) ==
    /\ task[t].pc = "fetch"
    /\ ~(Live(jobs[TaskJob(t)]) /\ active)
    /\ Goto(t, "ack")
    /\ IF Live(jobs[TaskJob(t)]) THEN Blame({TaskJob(t)}, "undeliverable") ELSE UNCHANGED cause
    /\ UNCHANGED <<jobs, rows, stream, active, pub, todo, trimmer, spent, registry>>

\* get_job_for_delivery failed: the entry stays pending.
FetchFails(t) ==
    /\ task[t].pc = "fetch"
    /\ Spend("db")
    /\ Finish(t)
    /\ UNCHANGED <<jobs, rows, stream, active, pub, todo, trimmer, cause, registry>>

\* A guard holds: defer_job, then XACK even if defer_job failed.
Defer(t) ==
    /\ task[t].pc = "guard"
    /\ Spend("defer")
    /\ SetRow(TaskJob(t), Deferred(jobs[TaskJob(t)]))
    /\ Rearmed(TaskJob(t))
    /\ Goto(t, "ack")
    /\ UNCHANGED <<rows, stream, active, pub, todo, trimmer, registry>>

DeferFails(t) ==
    /\ task[t].pc = "guard"
    /\ spent["defer"] < Budget["defer"]
    /\ Spend("db")
    /\ Blame({TaskJob(t)}, "write_failed")
    /\ Goto(t, "ack")
    /\ UNCHANGED <<jobs, rows, stream, active, pub, todo, trimmer, registry>>

\* Broken variant: insert_attempt is skipped.
DeliverUnrecorded(t, ok) ==
    /\ task[t].pc = "guard"
    /\ task' = [task EXCEPT ![t].pc = "write", ![t].ok = ok]
    /\ UNCHANGED <<jobs, rows, stream, active, pub, todo, trimmer, spent, cause, registry>>

\* The HTTP request was made and was answered, with success or not.
Deliver(t, ok) ==
    /\ task[t].pc = "guard"
    /\ task' = [task EXCEPT ![t].pc = "record", ![t].ok = ok]
    /\ UNCHANGED <<jobs, rows, stream, active, pub, todo, trimmer, spent, cause, registry>>

\* insert_attempt; a failure is only logged.
RecordAttempt(t) ==
    /\ task[t].pc = "record"
    /\ rows' = IF task[t].ok THEN [rows EXCEPT ![TaskJob(t)].ok = @ + 1]
               ELSE [rows EXCEPT ![TaskJob(t)].bad = @ + 1]
    /\ Goto(t, "write")
    /\ UNCHANGED <<jobs, stream, active, pub, todo, trimmer, spent, cause, registry>>

RecordAttemptFails(t) ==
    /\ task[t].pc = "record"
    /\ Spend("db")
    /\ Goto(t, "write")
    /\ UNCHANGED <<jobs, rows, stream, active, pub, todo, trimmer, cause, registry>>

\* Broken variant: the attempt being made is counted twice.
OutcomeOffByOne(t, r) ==
    IF task[t].ok THEN Completed(r)
    ELSE IF task[t].attempt + 2 < MaxAttempts THEN RetryScheduled(r)
    ELSE Failed(r)

\* The row process_one writes, decided from the attempt it fetched.
Outcome(t, r) ==
    IF task[t].ok THEN Completed(r)
    ELSE IF task[t].attempt + 1 < MaxAttempts THEN RetryScheduled(r)
    ELSE Failed(r)

\* complete_job, schedule_retry or fail_job.
WriteOutcome(t) ==
    /\ task[t].pc = "write"
    /\ SetRow(TaskJob(t), Outcome(t, jobs[TaskJob(t)]))
    /\ IF jobs'[TaskJob(t)].enqueued THEN UNCHANGED cause ELSE Rearmed(TaskJob(t))
    /\ Goto(t, "ack")
    /\ UNCHANGED <<rows, stream, active, pub, todo, trimmer, spent, registry>>

\* That statement failed: logged, and the entry is acknowledged all the same.
WriteOutcomeFails(t) ==
    /\ task[t].pc = "write"
    /\ Spend("db")
    /\ Blame({TaskJob(t)}, "write_failed")
    /\ Goto(t, "ack")
    /\ UNCHANGED <<jobs, rows, stream, active, pub, todo, trimmer, registry>>

Acknowledge(t) ==
    /\ task[t].pc = "ack"
    /\ stream' = XAck(stream, task[t].msg)
    /\ Finish(t)
    /\ UNCHANGED <<jobs, rows, active, pub, todo, trimmer, spent, cause, registry>>

\* XACK failed: the error is dropped and the entry stays pending.
AcknowledgeFails(t) ==
    /\ task[t].pc = "ack"
    /\ Spend("redis")
    /\ Finish(t)
    /\ UNCHANGED <<jobs, rows, stream, active, pub, todo, trimmer, cause, registry>>

\* The worker process dies or shuts down: its tasks are dropped where they are.
TaskCrash(t) ==
    /\ task[t].pc # "idle"
    /\ Spend("crash")
    /\ Finish(t)
    /\ UNCHANGED <<jobs, rows, stream, active, pub, todo, trimmer, cause, registry>>

-----------------------------------------------------------------------------
(* Trimming, start-up, and the environment                                 *)

\* safe_trim_id: XPENDING.  Without the group it is an error and nothing is done.
TrimPending ==
    /\ trimmer.pc = "idle"
    /\ stream.group
    /\ Spend("trim")
    /\ \/ stream.pel = {} /\ trimmer' = [pc |-> "xinfo", cut |-> 0]
       \/ \E oldest \in stream.pel :
             /\ \A m \in stream.pel : oldest <= m
             /\ trimmer' = [pc |-> "xtrim", cut |-> oldest]
    /\ UNCHANGED <<jobs, rows, stream, active, pub, todo, task, cause, registry>>

\* Broken variant: the newest id is taken for the last delivered one.
TrimInfoNewest ==
    /\ trimmer.pc = "xinfo"
    /\ trimmer' = IF stream.group THEN [pc |-> "xtrim", cut |-> NextId(stream)] ELSE IdleTrimmer
    /\ UNCHANGED <<jobs, rows, stream, active, pub, todo, task, spent, cause, registry>>

\* xinfo_last_delivered, when XPENDING reported an empty PEL.
TrimInfo ==
    /\ trimmer.pc = "xinfo"
    /\ trimmer' = IF stream.group THEN [pc |-> "xtrim", cut |-> stream.last] ELSE IdleTrimmer
    /\ UNCHANGED <<jobs, rows, stream, active, pub, todo, task, spent, cause, registry>>

\* XTRIM MINID ~ cut.
TrimApply ==
    /\ trimmer.pc = "xtrim"
    /\ \E upTo \in TrimTargets(stream, trimmer.cut) :
          /\ stream' = XTrim(stream, upTo)
          /\ Blame({stream.log[m] : m \in {i \in Claimable(stream) : i <= upTo}}, "trimmed")
    /\ trimmer' = IdleTrimmer
    /\ UNCHANGED <<jobs, rows, active, pub, todo, task, spent, registry>>

\* The jobs with an entry that XREADGROUP or XAUTOCLAIM can still return.
JobsInStream == {stream.log[m] : m \in {i \in 1..Len(stream.log) : Readable(stream, i)}}

\* An enterprise stream is only found by the SCAN of a starting worker if it exists.
FoundAtStart == StartId = "$" \/ XLen(stream) > 0 \/ stream.group

\* A worker (for a tier stream also an API server) starts and ensures the group.
EnsureGroup ==
    /\ ~stream.group
    /\ FoundAtStart
    /\ stream' = EnsureConsumerGroup(stream, StartId)
    /\ IF StartId = "$" THEN Blame(JobsInStream, "group_start") ELSE UNCHANGED cause
    /\ UNCHANGED <<jobs, rows, active, pub, todo, task, trimmer, spent, registry>>

\* A starting worker registers the stream.
RegisterAtStart ==
    /\ ~listed
    /\ FoundAtStart
    /\ Registered
    /\ UNCHANGED <<jobs, rows, stream, active, pub, todo, task, trimmer, spent, cause>>

\* Broken variant: trusts the empty read and does not look at XLEN.
RemoveUnread ==
    /\ listed
    /\ ~CanRead(stream)
    /\ listed' = FALSE
    /\ UNCHANGED <<jobs, rows, stream, active, pub, todo, task, trimmer, spent, cause, forgotten>>

\* remove_stream_if_empty, of a consumer whose read came back empty.
RemoveStreamIfEmpty ==
    /\ listed
    /\ XLen(stream) = 0
    /\ listed' = FALSE
    /\ UNCHANGED <<jobs, rows, stream, active, pub, todo, task, trimmer, spent, cause, forgotten>>

\* Redis restarts without its data, the set included.
RedisLoss ==
    /\ Spend("loss")
    /\ stream' = LoseData(stream)
    /\ Blame(JobsInStream, "data_loss")
    /\ listed' = FALSE /\ forgotten' = FALSE
    /\ UNCHANGED <<jobs, rows, active, pub, todo, task, trimmer>>

\* The clock passes retry_after.
RetryDue(j) ==
    /\ jobs[j].status = "retrying" /\ ~jobs[j].due
    /\ SetRow(j, [jobs[j] EXCEPT !.due = TRUE])
    /\ UNCHANGED <<rows, stream, active, pub, todo, task, trimmer, spent, cause, registry>>

\* The endpoint becomes undeliverable, or deliverable again.
EndpointDown ==
    /\ active
    /\ Spend("endpoint")
    /\ active' = FALSE
    /\ UNCHANGED <<jobs, rows, stream, pub, todo, task, trimmer, cause, registry>>

EndpointUp ==
    /\ ~active
    /\ active' = TRUE
    /\ UNCHANGED <<jobs, rows, stream, pub, todo, task, trimmer, spent, cause, registry>>

-----------------------------------------------------------------------------

PublisherStep(p) ==
    \/ EnqueueOk(p) \/ EnqueueFails(p) \/ MarkEnqueued(p) \/ MarkEnqueuedFails(p)
    \/ Register(p) \/ RegisterFails(p) \/ PublisherCrash(p)

TaskStep(t) ==
    \/ FetchJob(t) \/ FetchNone(t) \/ FetchFails(t)
    \/ Defer(t) \/ DeferFails(t) \/ (\E ok \in BOOLEAN : Deliver(t, ok))
    \/ RecordAttempt(t) \/ RecordAttemptFails(t)
    \/ WriteOutcome(t) \/ WriteOutcomeFails(t)
    \/ Acknowledge(t) \/ AcknowledgeFails(t) \/ TaskCrash(t)

Next ==
    \/ \E c \in Callers, j \in Jobs : CreateJob(c, j) \/ FireJob(c, j) \/ RetryJob(c, j)
    \/ \E o \in Outboxes : OutboxList(o) \/ (\E j \in Jobs : OutboxNext(o, j))
    \/ \E p \in Publishers : PublisherStep(p)
    \/ \E t \in Tasks : ReadEntry(t) \/ (\E m \in stream.pel : Reclaim(t, m)) \/ TaskStep(t)
    \/ TrimPending \/ TrimInfo \/ TrimApply
    \/ EnsureGroup \/ RegisterAtStart \/ RemoveStreamIfEmpty \/ RedisLoss
    \/ \E j \in Jobs : RetryDue(j)
    \/ EndpointDown \/ EndpointUp

Spec == Init /\ [][Next]_vars

\* Processes that have work keep working, the outbox and reclaim loops keep
\* ticking, entries of a listed stream are read, and the clock advances.
\* Nothing makes a worker start, so nothing makes an unlisted stream listed but
\* its publishers.
Fairness ==
    /\ \A p \in Publishers : WF_vars(PublisherStep(p))
    /\ \A o \in Outboxes : WF_vars(OutboxList(o)) /\ WF_vars(\E j \in Jobs : OutboxNext(o, j))
    /\ \A t \in Tasks : WF_vars(TaskStep(t))
    /\ WF_vars(listed /\ \E t \in Tasks : ReadEntry(t))
    /\ WF_vars(listed /\ \E t \in Tasks, m \in stream.pel : ~Held(m) /\ Reclaim(t, m))
    /\ \A j \in Jobs : WF_vars(RetryDue(j))

FairSpec == Spec /\ Fairness

-----------------------------------------------------------------------------
(* Properties                                                              *)

\* A job is reachable through the stream.
HasEntry(j) == \E m \in 1..Len(stream.log) : stream.log[m] = j /\ Readable(stream, m)

\* Workers will look at the stream, or a registration was lost.
Announced == listed \/ forgotten \/ \E p \in Publishers : pub[p].pc \in Registering

\* No job is lost without one of seven named events.  A live job whose
\* enqueued_at is set is invisible to the outbox (list_unqueued), so an entry
\* must still lead a worker to it, and the stream must be in the set or about
\* to be put there, although enqueue_delivery marks before it registers;
\* crashes of publishers and workers, failed XADDs, XACKs and mark_enqueueds,
\* duplicate entries, reclaims, manual retries and remove_stream_if_empty never
\* break that on their own.  The events are the six of cause and a lost
\* registration of a stream that is not listed.
NoUnexplainedLoss ==
    \A j \in Jobs :
        Live(jobs[j]) /\ jobs[j].enqueued => cause[j] # {} \/ (HasEntry(j) /\ Announced)

\* A job is only dead-lettered (fail_job) after max_attempts recorded outcomes,
\* although process_one decides that from the attempt it fetched, which other
\* executions for the same job may have moved on since.  The count is over the
\* life of the job, and the status of the answer plays no part in it: unlike in
\* docs/decisions/delivery/004-retry-policy-dead-letter.md (lines 35 and 63),
\* a 4xx is retried like any other failure (consumer.rs), and reset_for_retry
\* leaves the attempt where it is, so a manual retry is dead-lettered again
\* after one more failure.
DeadLetterAfterMaxAttempts ==
    \A j \in Jobs : jobs[j].status = "failed" => jobs[j].attempt >= MaxAttempts

\* While no statement fails, the attempt counter never runs ahead of the
\* delivery_attempts rows, and a job marked success has a successful row.  The
\* converse is not claimed: a late failure of another execution overwrites it.
OutcomesAreLogged ==
    spent["db"] = 0 =>
        \A j \in Jobs :
            /\ jobs[j].attempt <= rows[j].ok + rows[j].bad
            /\ jobs[j].status = "success" => rows[j].ok > 0

\* The PEL is kept for crash recovery (comment of process_one): with no crash
\* and no failed call, every pending entry is in the hands of a running task.
PelOnlyForRecovery ==
    spent["crash"] + spent["redis"] + spent["db"] = 0 =>
        \A m \in stream.pel : Held(m)

\* XTRIM never deletes an entry that no worker has been given (xtrim_safe), with
\* the cutoff and the trim in separate calls.  Pending entries it may delete
\* (cause "trimmed").
NeverTrimsUnread == stream.trimmed <= stream.last

\* Unless a lost registration leaves the stream out of the set for good, every
\* live job is eventually decided, or one of the six events befell it.
EventuallyDecided ==
    []<>~forgotten =>
        \A j \in Jobs : Live(jobs[j]) ~> (~Live(jobs[j]) \/ cause[j] # {})
=============================================================================
