------------------------------ MODULE Dispatch ------------------------------
(***************************************************************************)
(* How workers share streams and spare endpoints: consumer::run claims a   *)
(* stream, reads a batch and starts process_one for each entry under a     *)
(* semaphore; process_one passes three guards, calls the endpoint and      *)
(* tells the guards what came of it.  What it writes to the job's row is   *)
(* in Delivery; here an entry stands for a delivery to one endpoint.       *)
(***************************************************************************)
EXTENDS RedisStream, StreamSet, EndpointGuards

CONSTANTS
    StreamNames, Nobody,
    Registrants,  \* API requests, pollers, fires and start-ups that register streams
    Workers,      \* consumer::run loops
    Permits,      \* of the workers' semaphores; a task holds one while it runs
    Reclaimers,   \* reclaim::run loops, which run process_one themselves, without a permit
    BatchSize,    \* XREADGROUP COUNT
    Limits,       \* values of rate_limit_per_minute; 0 is NULL
    RetryAfters,  \* values of Retry-After
    Scenarios     \* what the streams hold at first, and how often each kind of event may happen

\*   claim     an iteration of a worker's loop
\*   publish   an XADD
\*   start     a worker process starts
\*   trim      a trim of a stream
\*   deliver   a job that is still to be delivered
\*   slot      one of those has a rate limit
\*   busy      an answer below 500 other than 2xx
\*   broken    a timeout, a connection error or 5xx
\*   fault     a Redis call fails
\*   reclaim   an entry is claimed from another consumer
\*   stop      a registrant, worker or task stops
\*   tick      the clock advances
Events == {"claim", "publish", "start", "trim", "deliver", "slot", "busy", "broken", "fault", "reclaim", "stop",
           "tick"}

\* Whoever can be in process_one.
Runners == Permits \cup Reclaimers

ASSUME DispatchAssumption ==
    /\ Nobody \notin StreamNames \cup EndpointIds
    /\ IsFiniteSet(Runners) /\ Runners # {}
    /\ BatchSize \in Nat \ {0}
    /\ Limits \subseteq Nat /\ Limits # {} /\ RetryAfters \subseteq Nat
    /\ Scenarios \subseteq [backlog: [StreamNames -> Seq(EndpointIds)], budget: [Events -> Nat]]

VARIABLES
    stream,     \* the streams; every group exists
    scheduled,  \* hookly:q:streams
    registrant, \* the stream each registrant is about to register
    worker,     \* state of each consumer::run
    task,       \* state of each process_one
    forgotten,  \* history: streams whose last registration was lost
    passed,     \* history: how often t was claimed with a later clock since s got its score
    rejoined,   \* history: how often t came back to the set since s got its score
    leaked,     \* history: requests sent since an endpoint's circuit opened or its block was set
    left        \* what is left of the budget

vars == <<stream, scheduled, registrant, worker, task, forgotten, passed, rejoined, leaked, left, guards>>

WorkerStates ==
    [pc: {"idle", "claim", "read", "remove", "spawn"}, at: Nat, stream: StreamNames \cup {Nobody}, batch: SUBSET Nat]
IdleWorker == [pc |-> "idle", at |-> 0, stream |-> Nobody, batch |-> {}]
\* sure and recent are history: which guards answered; the failures in the
\* window when this task's was recorded.
TaskStates ==
    [pc: {"idle", "fetch", "block", "circuit", "slot", "send", "wait", "block_it", "record", "open", "reset",
          "defer", "refused", "ack"},
     stream: StreamNames \cup {Nobody}, msg: Nat, limit: Nat, minute: Nat, sure: SUBSET {"block", "circuit"}, recent: Nat]
IdleTask ==
    [pc |-> "idle", stream |-> Nobody, msg |-> 0, limit |-> 0, minute |-> 0, sure |-> {}, recent |-> 0]

TypeOK ==
    /\ GuardsTypeOK
    /\ stream \in [StreamNames -> Streams(EndpointIds)]
    /\ IsSortedSet(scheduled, StreamNames)
    /\ registrant \in [Registrants -> StreamNames \cup {Nobody}]
    /\ worker \in [Workers -> WorkerStates]
    /\ task \in [Runners -> TaskStates]
    /\ forgotten \subseteq StreamNames
    /\ passed \in [StreamNames -> [StreamNames -> Nat]]
    /\ rejoined \in [StreamNames -> [StreamNames -> Nat]]
    /\ leaked \in [EndpointIds -> [circuit: Nat, block: Nat]]
    /\ left \in [Events -> Nat]

Init ==
    /\ GuardsInit
    /\ \E x \in Scenarios :
         /\ stream = [s \in StreamNames |-> [EmptyStream(TRUE) EXCEPT !.log = x.backlog[s]]]
         /\ scheduled = [s \in {y \in StreamNames : x.backlog[y] # <<>>} |-> 0]
         /\ left = x.budget
    /\ registrant = [r \in Registrants |-> Nobody]
    /\ worker = [w \in Workers |-> IdleWorker]
    /\ task = [t \in Runners |-> IdleTask]
    /\ forgotten = {}
    /\ passed = [s \in StreamNames |-> [t \in StreamNames |-> 0]]
    /\ rejoined = [s \in StreamNames |-> [t \in StreamNames |-> 0]]
    /\ leaked = [e \in EndpointIds |-> [circuit |-> 0, block |-> 0]]

SpendAll(K) ==
    /\ \A k \in K : left[k] > 0
    /\ left' = [k \in Events |-> IF k \in K THEN left[k] - 1 ELSE left[k]]
Spend(k) == SpendAll({k})
-----------------------------------------------------------------------------
(* Registrants: the stream first, then the set                             *)

\* XADD of a job by the API, the outbox poller or a fire.
Publish(r, s, e) ==
    /\ registrant[r] = Nobody
    /\ Spend("publish")
    /\ stream' = [stream EXCEPT ![s] = Enqueue(@, e)]
    /\ registrant' = [registrant EXCEPT ![r] = s]
    /\ UNCHANGED <<scheduled, worker, task, forgotten, passed, rejoined, leaked, guards>>

\* A starting worker process goes through the tier streams and those it scanned.
StartUp(r, s) ==
    /\ registrant[r] = Nobody
    /\ Spend("start")
    /\ registrant' = [registrant EXCEPT ![r] = s]
    /\ UNCHANGED <<stream, scheduled, worker, task, forgotten, passed, rejoined, leaked, guards>>

RegisterStream(r) ==
    /\ registrant[r] # Nobody
    /\ scheduled' = Register(scheduled, registrant[r])
    /\ registrant' = [registrant EXCEPT ![r] = Nobody]
    /\ forgotten' = forgotten \ {registrant[r]}
    /\ rejoined' = [x \in StreamNames |->
                      IF x \in DOMAIN scheduled /\ registrant[r] \notin DOMAIN scheduled
                      THEN [rejoined[x] EXCEPT ![registrant[r]] = @ + 1] ELSE rejoined[x]]
    /\ UNCHANGED <<stream, worker, task, passed, leaked, left, guards>>

\* register_stream fails, which is only logged; or the process is gone.
RegisterLost(r) ==
    /\ registrant[r] # Nobody
    /\ Spend("fault") \/ Spend("stop")
    /\ registrant' = [registrant EXCEPT ![r] = Nobody]
    /\ forgotten' = forgotten \cup {registrant[r]}
    /\ UNCHANGED <<stream, scheduled, worker, task, passed, rejoined, leaked, guards>>

-----------------------------------------------------------------------------
(* consumer::run                                                           *)

WorkerGoes(w, r) ==
    /\ worker' = [worker EXCEPT ![w] = r]
    /\ UNCHANGED <<registrant, forgotten, leaked, guards>>

\* now_ms is read before the call that uses it.
ReadClock(w) ==
    /\ worker[w].pc = "idle"
    /\ Spend("claim")
    /\ WorkerGoes(w, [IdleWorker EXCEPT !.pc = "claim", !.at = now])
    /\ UNCHANGED <<stream, scheduled, task, passed, rejoined>>

ClaimNextStream(w, s) ==
    /\ worker[w].pc = "claim"
    /\ s \in Lowest(scheduled)
    /\ scheduled' = Claim(scheduled, s, worker[w].at)
    /\ passed' = [x \in StreamNames |->
                    IF x = s THEN [y \in StreamNames |-> 0]
                    ELSE IF x \in DOMAIN scheduled /\ scheduled[x] < worker[w].at THEN [passed[x] EXCEPT ![s] = @ + 1]
                    ELSE passed[x]]
    /\ rejoined' = [rejoined EXCEPT ![s] = [y \in StreamNames |-> 0]]
    /\ WorkerGoes(w, [worker[w] EXCEPT !.pc = "read", !.stream = s])
    /\ UNCHANGED <<stream, task, left>>

\* The set is empty, or the call failed: sleep.
ClaimNothing(w) ==
    /\ worker[w].pc = "claim"
    /\ (DOMAIN scheduled = {} /\ UNCHANGED left) \/ Spend("fault")
    /\ WorkerGoes(w, IdleWorker)
    /\ UNCHANGED <<stream, scheduled, task, passed, rejoined>>

ReadBatch(w) ==
    LET s == worker[w].stream
        n == Len(stream[s].log) - stream[s].last
        count == IF n < BatchSize THEN n ELSE BatchSize
        read == stream[s].last + 1 .. stream[s].last + count IN
    /\ worker[w].pc = "read"
    /\ CanRead(stream[s])
    /\ stream' = [stream EXCEPT ![s].last = @ + count, ![s].pel = @ \cup read]
    /\ WorkerGoes(w, [worker[w] EXCEPT !.pc = "spawn", !.batch = read])
    /\ UNCHANGED <<scheduled, task, passed, rejoined, left>>

\* Nothing unread, or the call failed.
ReadNothing(w) ==
    /\ worker[w].pc = "read"
    /\ (~CanRead(stream[worker[w].stream]) /\ UNCHANGED left) \/ Spend("fault")
    /\ WorkerGoes(w, [worker[w] EXCEPT !.pc = "remove"])
    /\ UNCHANGED <<stream, scheduled, task, passed, rejoined>>

Forget(s) ==
    /\ scheduled' = Remove(scheduled, s)
    /\ passed' = [passed EXCEPT ![s] = [y \in StreamNames |-> 0]]
    /\ rejoined' = [rejoined EXCEPT ![s] = [y \in StreamNames |-> 0]]

\* Broken variant: trusts the empty read and does not look at XLEN.
RemoveUnread(w) ==
    /\ worker[w].pc = "remove"
    /\ Forget(worker[w].stream)
    /\ WorkerGoes(w, IdleWorker)
    /\ UNCHANGED <<stream, task, left>>

\* The script looks at XLEN again; if it fails, nothing is removed.
RemoveStreamIfEmpty(w) ==
    /\ worker[w].pc = "remove"
    /\ \/ XLen(stream[worker[w].stream]) = 0 /\ Forget(worker[w].stream) /\ UNCHANGED left
       \/ XLen(stream[worker[w].stream]) > 0 /\ UNCHANGED <<scheduled, passed, rejoined, left>>
       \/ Spend("fault") /\ UNCHANGED <<scheduled, passed, rejoined>>
    /\ WorkerGoes(w, IdleWorker)
    /\ UNCHANGED <<stream, task>>

\* Entries are handled in the order of their ids.
Oldest(S) == {m \in S : \A x \in S : m <= x}

\* The next entry of the batch, once a permit is free.
Spawn(w, t) ==
    /\ worker[w].pc = "spawn"
    /\ task[t].pc = "idle"
    /\ \E m \in Oldest(worker[w].batch) :
         LET rest == worker[w].batch \ {m} IN
         /\ task' = [task EXCEPT ![t] = [IdleTask EXCEPT !.pc = "fetch", !.stream = worker[w].stream, !.msg = m]]
         /\ WorkerGoes(w, IF rest = {} THEN IdleWorker ELSE [worker[w] EXCEPT !.batch = rest])
    /\ UNCHANGED <<stream, scheduled, passed, rejoined, left>>

\* reclaim::run claims an entry whose task is gone or takes too long, of a
\* stream of the set, and runs process_one before it claims the next.
Reclaim(t, s, m) ==
    /\ task[t].pc = "idle"
    /\ s \in DOMAIN scheduled
    /\ m \in Claimable(stream[s])
    /\ Spend("reclaim")
    /\ stream' = [stream EXCEPT ![s] = XAutoClaim(@)]
    /\ task' = [task EXCEPT ![t] = [IdleTask EXCEPT !.pc = "fetch", !.stream = s, !.msg = m]]
    /\ UNCHANGED <<scheduled, registrant, worker, forgotten, passed, rejoined, leaked, guards>>

\* Shutdown or crash; what is left of the batch stays pending.
WorkerStops(w) ==
    /\ worker[w].pc # "idle"
    /\ Spend("stop")
    /\ WorkerGoes(w, IdleWorker)
    /\ UNCHANGED <<stream, scheduled, task, passed, rejoined>>

-----------------------------------------------------------------------------
(* process_one                                                             *)

EndpointOf(t) == stream[task[t].stream].log[task[t].msg]

TaskGoes(t, r) ==
    /\ task' = [task EXCEPT ![t] = r]
    /\ UNCHANGED <<stream, scheduled, registrant, worker, forgotten, passed, rejoined>>
Goto(t, pc) == TaskGoes(t, [task[t] EXCEPT !.pc = pc])

FetchJob(t, limit) ==
    /\ task[t].pc = "fetch"
    /\ SpendAll(IF limit = 0 THEN {"deliver"} ELSE {"deliver", "slot"})
    /\ TaskGoes(t, [task[t] EXCEPT !.pc = "block", !.limit = limit])
    /\ UNCHANGED <<leaked, guards>>

FetchNone(t) ==
    /\ task[t].pc = "fetch"
    /\ Goto(t, "ack")
    /\ UNCHANGED <<leaked, left, guards>>

\* Broken variant: the block is not looked at.
SkipBlocked(t) ==
    /\ task[t].pc = "block"
    /\ TaskGoes(t, [task[t] EXCEPT !.pc = "circuit", !.sure = {"block"}])
    /\ UNCHANGED <<leaked, left, guards>>

\* A guard that cannot be asked lets the call through.
CheckBlocked(t) ==
    /\ task[t].pc = "block"
    /\ \/ IsBlocked(EndpointOf(t)) /\ Goto(t, "defer") /\ UNCHANGED left
       \/ ~IsBlocked(EndpointOf(t)) /\ TaskGoes(t, [task[t] EXCEPT !.pc = "circuit", !.sure = {"block"}]) /\ UNCHANGED left
       \/ Spend("fault") /\ Goto(t, "circuit")
    /\ UNCHANGED <<leaked, guards>>

\* The minute of the counter is read by the worker before the call.
PastCircuit(t, sure) ==
    TaskGoes(t, [task[t] EXCEPT !.pc = IF task[t].limit = 0 THEN "send" ELSE "slot", !.minute = MinuteOf(now), !.sure = sure])

CheckCircuit(t) ==
    /\ task[t].pc = "circuit"
    /\ \/ IsOpen(EndpointOf(t)) /\ Goto(t, "defer") /\ UNCHANGED left
       \/ ~IsOpen(EndpointOf(t)) /\ PastCircuit(t, task[t].sure \cup {"circuit"}) /\ UNCHANGED left
       \/ Spend("fault") /\ PastCircuit(t, task[t].sure)
    /\ UNCHANGED <<leaked, guards>>

TryAcquire(t) ==
    LET e == EndpointOf(t) m == task[t].minute IN
    /\ task[t].pc = "slot"
    /\ \/ Allowed(e, m, task[t].limit) /\ TakeSlot(e, m) /\ Goto(t, "send") /\ UNCHANGED left
       \/ ~Allowed(e, m, task[t].limit) /\ Goto(t, "refused") /\ UNCHANGED <<left, guards>>
       \/ Spend("fault") /\ Goto(t, "send") /\ UNCHANGED guards
    /\ UNCHANGED leaked

Send(t) ==
    LET e == EndpointOf(t)
        late(guard, shut) == IF shut /\ guard \in task[t].sure THEN 1 ELSE 0 IN
    /\ task[t].pc = "send"
    /\ Goto(t, "wait")
    /\ leaked' = [leaked EXCEPT ![e].circuit = @ + late("circuit", IsOpen(e)), ![e].block = @ + late("block", IsBlocked(e))]
    /\ UNCHANGED <<left, guards>>

\* deliver gives up before it sends: no HTTP status, so a fault like any other.
NotSent(t) ==
    /\ task[t].pc = "send"
    /\ Spend("broken")
    /\ Goto(t, "record")
    /\ UNCHANGED <<leaked, guards>>

\* What the answer calls for: 2xx, another status below 500, 429, and a
\* timeout, a connection error or 5xx.
Answered(t, next) ==
    /\ task[t].pc = "wait"
    /\ IF next = "reset" THEN UNCHANGED left ELSE Spend(IF next = "record" THEN "broken" ELSE "busy")
    /\ Goto(t, next)
    /\ UNCHANGED <<leaked, guards>>

SetBlock(t, ttl) ==
    LET e == EndpointOf(t) IN
    /\ task[t].pc = "block_it"
    /\ SetBlocked(e, ttl)
    /\ leaked' = IF IsBlocked(e) THEN leaked ELSE [leaked EXCEPT ![e].block = 0]
    /\ Goto(t, "ack")
    /\ UNCHANGED left

RecordFault(t) ==
    LET e == EndpointOf(t) IN
    /\ task[t].pc = "record"
    /\ RecordFailure(e)
    /\ TaskGoes(t, [task[t] EXCEPT !.pc = IF fails'[e].count >= Threshold THEN "open" ELSE "ack",
                                   !.recent = Cardinality(failures'[e])])
    /\ UNCHANGED <<leaked, left>>

OpenIt(t) ==
    LET e == EndpointOf(t) IN
    /\ task[t].pc = "open"
    /\ OpenCircuit(e)
    /\ leaked' = IF IsOpen(e) THEN leaked ELSE [leaked EXCEPT ![e].circuit = 0]
    /\ Goto(t, "ack")
    /\ UNCHANGED left

ResetBreaker(t) ==
    /\ task[t].pc = "reset"
    /\ Reset(EndpointOf(t))
    /\ Goto(t, "ack")
    /\ UNCHANGED <<leaked, left>>

\* The guards' bookkeeping is best effort.
BookkeepingFails(t) ==
    /\ task[t].pc \in {"block_it", "record", "open", "reset"}
    /\ Spend("fault")
    /\ Goto(t, "ack")
    /\ UNCHANGED <<leaked, guards>>

\* XACK, after defer_job or the writes of the outcome.
Acknowledge(t) ==
    /\ task[t].pc \in {"defer", "refused", "ack"}
    /\ stream' = [stream EXCEPT ![task[t].stream] = XAck(@, task[t].msg)]
    /\ task' = [task EXCEPT ![t] = IdleTask]
    /\ UNCHANGED <<scheduled, registrant, worker, forgotten, passed, rejoined, leaked, left, guards>>

\* The job cannot be fetched, or the process is gone: the entry stays pending.
TaskStops(t) ==
    /\ task[t].pc # "idle"
    /\ Spend("stop")
    /\ TaskGoes(t, IdleTask)
    /\ UNCHANGED <<leaked, guards>>

-----------------------------------------------------------------------------
\* trim::run goes through the set; the calls of xtrim_safe are in Delivery.
Trim(s) ==
    LET pel == stream[s].pel
        cuts == IF pel = {} THEN {stream[s].last} ELSE Oldest(pel) IN
    /\ s \in DOMAIN scheduled
    /\ Spend("trim")
    /\ \E cut \in cuts : \E upTo \in TrimTargets(stream[s], cut) : stream' = [stream EXCEPT ![s] = XTrim(@, upTo)]
    /\ UNCHANGED <<scheduled, registrant, worker, task, forgotten, passed, rejoined, leaked, guards>>

Time == Tick /\ Spend("tick") /\ UNCHANGED <<stream, scheduled, registrant, worker, task, forgotten, passed, rejoined, leaked>>

RegistrantStep(r) ==
    \/ \E s \in StreamNames : StartUp(r, s) \/ \E e \in EndpointIds : Publish(r, s, e)
    \/ RegisterStream(r) \/ RegisterLost(r)
WorkerStep(w) ==
    \/ ReadClock(w) \/ \E s \in StreamNames : ClaimNextStream(w, s)
    \/ ClaimNothing(w) \/ ReadBatch(w) \/ ReadNothing(w) \/ RemoveStreamIfEmpty(w)
    \/ \E t \in Permits : Spawn(w, t)
    \/ WorkerStops(w)
TaskStep(t) ==
    \/ \E l \in Limits : FetchJob(t, l)
    \/ FetchNone(t) \/ CheckBlocked(t) \/ CheckCircuit(t) \/ TryAcquire(t) \/ Send(t) \/ NotSent(t)
    \/ \E next \in {"reset", "ack", "block_it", "record"} : Answered(t, next)
    \/ \E ttl \in RetryAfters : SetBlock(t, ttl)
    \/ RecordFault(t) \/ OpenIt(t) \/ ResetBreaker(t) \/ BookkeepingFails(t)
    \/ Acknowledge(t) \/ TaskStops(t)

Next ==
    \/ \E r \in Registrants : RegistrantStep(r)
    \/ \E w \in Workers : WorkerStep(w)
    \/ \E t \in Runners : TaskStep(t)
    \/ \E t \in Reclaimers, s \in StreamNames : \E m \in stream[s].pel : Reclaim(t, s, m)
    \/ \E s \in StreamNames : Trim(s)
    \/ Time

Spec == Init /\ [][Next]_vars
-----------------------------------------------------------------------------
\* A stream with something to read is in the set, about to be put there, or
\* its last registration was lost: remove_stream_if_empty never undoes what a
\* publisher counts on, although XADD and register_stream are separate calls
\* and register_stream does nothing when the stream is still a member.
NoStrandedStream ==
    \A s \in StreamNames :
        (\E m \in 1..Len(stream[s].log) : Readable(stream[s], m)) =>
            s \in DOMAIN scheduled \cup forgotten \cup {registrant[r] : r \in Registrants}

\* claim_next_stream rotates: while a stream waits, another is claimed by
\* workers whose clock is past its score at most once, and once more each time
\* it comes back to the set, at score 0, after it was emptied and removed;
\* however old the time they read before the call and however often publishers
\* register a stream that is still a member.
NoOvertaking ==
    \A s \in DOMAIN scheduled : \A t \in StreamNames : passed[s][t] <= 1 + rejoined[s][t]

\* try_acquire gives out no more slots in a minute than some limit in force
\* allows, and refuses a slot only if as many as the limit were given out in
\* that minute: neither the counter's TTL nor the roll-back loses count.
RateHeld ==
    /\ \A e \in EndpointIds : \E l \in Limits : granted[e] <= l
    /\ \A t \in Runners :
         task[t].pc = "refused" /\ task[t].minute = MinuteOf(now) => granted[EndpointOf(t)] >= task[t].limit

\* A circuit is opened only for Threshold failures within Window and since the
\* last success, although the counter's window starts with its first failure.
TripIsEarned ==
    \A t \in Runners : task[t].pc = "open" => task[t].recent >= Threshold

\* Once a circuit is open, or a 429 has blocked an endpoint, the tasks that
\* were past that guard are all that still call it: fewer than can be in
\* process_one at once, which max_inflight alone does not bound, since the
\* reclaim loop takes no permit; and however often it is opened or blocked again.
LeakIsBounded ==
    \A e \in EndpointIds :
        leaked[e].circuit < Cardinality(Runners) /\ leaked[e].block < Cardinality(Runners)
=============================================================================
