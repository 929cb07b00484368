--------------------------- MODULE Delivery_proofs ---------------------------
(***************************************************************************)
(* Proofs about Delivery, for every number of jobs, publishers, pollers    *)
(* and tasks, every max_attempts and every budget of faults.               *)
(*                                                                         *)
(* None of the safety properties is inductive as it stands. Refs says that *)
(* what a process has in hand exists; Cursor says how the group's          *)
(* position, the PEL and the trimmed prefix lie; Reachable says that the   *)
(* entry of an enqueued live job is not merely readable but not yet        *)
(* decided by a task either; SetInv says when the stream is in the set of  *)
(* streams or about to be; AttemptInv relates the attempt a task fetched   *)
(* to the column it will overwrite; LoggedInv counts, with the outcomes of *)
(* a job that were written, the ones its tasks have logged and are about   *)
(* to write.                                                               *)
(***************************************************************************)
EXTENDS Delivery, FiniteSetTheorems, TLAPS

\* Where a publisher still needs the id its XADD returned.
HasMsg == {"mark", "mark_again", "register_again"}

\* A process that is not idle works on a job that exists, and an entry it
\* names is an entry of the stream, for the job the process works on.
Refs ==
    /\ \A t \in Tasks : task[t].pc # "idle" => task[t].msg \in 1..Len(stream.log)
    /\ \A p \in Publishers : pub[p].pc # "idle" => pub[p].job \in Jobs
    /\ \A p \in Publishers : pub[p].pc \in HasMsg =>
           /\ pub[p].msg \in 1..Len(stream.log)
           /\ stream.log[pub[p].msg] = pub[p].job

TypeInv == TypeOK /\ Refs

\* An entry stays where it was when another one is appended.
LEMMA AppendEntry ==
    ASSUME NEW s \in Seq(Jobs), NEW j \in Jobs
    PROVE  /\ Append(s, j) \in Seq(Jobs)
           /\ Len(Append(s, j)) = Len(s) + 1
           /\ Append(s, j)[Len(s) + 1] = j
           /\ \A i \in 1..Len(s) : Append(s, j)[i] = s[i]
  OBVIOUS

LEMMA EntryType ==
    ASSUME NEW s \in Seq(Jobs)
    PROVE  Len(s) \in Nat /\ \A i \in 1..Len(s) : s[i] \in Jobs
  OBVIOUS

LEMMA InitTypeInv == Init => TypeInv
  <1> SUFFICES ASSUME Init PROVE TypeInv
    OBVIOUS
  <1> USE DeliveryAssumption
  <1>a. listed \in BOOLEAN /\ forgotten \in BOOLEAN /\ active \in BOOLEAN
    BY Zenon DEF Init
  <1>b. NoRow \in JobRows /\ IdlePublisher \in PublisherStates /\ IdleTask \in TaskStates
    BY DEF NoRow, JobRows, Statuses, IdlePublisher, PublisherStates, IdleTask, TaskStates
  <1>c. EmptyStream(StartId = "$") \in Streams(Jobs)
    <2>1. PICK g \in BOOLEAN : g = (StartId = "$")
      BY Zenon
    <2>2. EmptyStream(g) \in Streams(Jobs)
      BY DEF EmptyStream, Streams
    <2> QED
      BY Zenon, <2>1, <2>2
  <1>1. TypeOK
    BY Zenon, <1>a, <1>b, <1>c DEF Init, TypeOK, IdleTrimmer
  <1>2. Refs
    BY Zenon DEF Init, Refs, HasMsg, IdlePublisher, IdleTask
  <1> QED
    BY Zenon, <1>1, <1>2 DEF TypeInv

\* A fault is charged to one of the kinds of Budget.
LEMMA SpendType ==
    ASSUME TypeOK, NEW k \in Kinds, Spend(k)
    PROVE  spent' \in [Kinds -> Nat]
  BY DEF TypeOK, Spend

\* Blaming an event adds one of the six causes.
LEMMA BlameType ==
    ASSUME TypeOK, NEW J, NEW why \in Causes, Blame(J, why)
    PROVE  cause' \in [Jobs -> SUBSET Causes]
  BY Zenon DEF TypeOK, Blame

\* What a task that is not idle works on.
LEMMA TaskJobType ==
    ASSUME TypeInv, NEW t \in Tasks, task[t].pc # "idle"
    PROVE  TaskJob(t) \in Jobs /\ task[t].msg \in 1..Len(stream.log)
  BY Zenon, EntryType DEF TypeInv, TypeOK, Refs, TaskJob, Streams

\* The fields of a stream and of a row.
LEMMA StreamFields ==
    ASSUME TypeOK
    PROVE  /\ stream.log \in Seq(Jobs) /\ Len(stream.log) \in Nat
           /\ stream.trimmed \in Nat /\ stream.last \in Nat
           /\ stream.group \in BOOLEAN /\ stream.pel \in SUBSET Nat
  BY DEF TypeOK, Streams

\* The updates of jobs, task and pub the actions are made of.
LEMMA SetRowType ==
    ASSUME TypeOK, NEW j \in Jobs, NEW r \in JobRows, SetRow(j, r)
    PROVE  jobs' \in [Jobs -> JobRows]
  BY Zenon DEF TypeOK, SetRow

LEMMA RearmedType ==
    ASSUME TypeOK, NEW j \in Jobs, Rearmed(j)
    PROVE  cause' \in [Jobs -> SUBSET Causes]
  BY Zenon DEF TypeOK, Rearmed

LEMMA GotoType ==
    ASSUME TypeOK, NEW t \in Tasks, NEW pc \in {"ack", "write"}, Goto(t, pc)
    PROVE  task' \in [Tasks -> TaskStates]
  BY ZenonT(40) DEF TypeOK, Goto, TaskStates

LEMMA DeliverType ==
    ASSUME NEW s \in TaskStates, NEW ok \in BOOLEAN
    PROVE  [s EXCEPT !.pc = "record", !.ok = ok] \in TaskStates
  BY Zenon DEF TaskStates

LEMMA FetchType ==
    ASSUME NEW s \in TaskStates, NEW a \in Nat
    PROVE  [s EXCEPT !.pc = "guard", !.attempt = a] \in TaskStates
  BY Zenon DEF TaskStates

LEMMA FinishType ==
    ASSUME TypeOK, NEW t \in Tasks, Finish(t)
    PROVE  task' \in [Tasks -> TaskStates]
  BY Zenon DEF TypeOK, Finish, TaskStates, IdleTask

LEMMA IdlePublisherType == IdlePublisher \in PublisherStates
  BY Zenon DEF IdlePublisher, PublisherStates

\* Where a publisher goes from where it is.
LEMMA AfterType ==
    ASSUME NEW pc
    PROVE  /\ After(pc) \in {"idle", "mark", "mark_again", "register", "register_again"}
           /\ pc \in Marking \cup Registering /\ After(pc) \in HasMsg => pc \in HasMsg
           /\ pc = "xadd_fire" => After(pc) = "register"
           /\ pc = "mark" => After(pc) = "register"
           /\ pc = "mark_again" => After(pc) = "idle"
           /\ pc = "xadd" => After(pc) = "mark"
           /\ pc = "xadd_again" => After(pc) = "register_again"
  BY DEF After, Marking, Registering, HasMsg

LEMMA GoOnEffect ==
    ASSUME TypeOK, NEW p \in Publishers, NEW m, GoOn(p, m), NEW q \in Publishers
    PROVE  /\ q # p => pub'[q] = pub[q]
           /\ q = p => \/ pub'[q] = IdlePublisher /\ After(pub[q].pc) = "idle"
                       \/ pub'[q] = [pc |-> After(pub[q].pc), job |-> pub[q].job, msg |-> m]
  BY Zenon DEF TypeOK, GoOn

LEMMA GoOnType ==
    ASSUME TypeOK, NEW p \in Publishers, NEW m \in Nat, GoOn(p, m)
    PROVE  pub' \in [Publishers -> PublisherStates]
  <1>1. pub[p].job \in Jobs \cup {NoJob}
    BY Zenon DEF TypeOK, PublisherStates
  <1>2. [pc |-> After(pub[p].pc), job |-> pub[p].job, msg |-> m] \in PublisherStates
    BY Zenon, <1>1, AfterType DEF PublisherStates
  <1> QED
    BY Zenon, <1>2, IdlePublisherType DEF TypeOK, GoOn

LEMMA RowTypes ==
    ASSUME NEW r \in JobRows
    PROVE  /\ MarkedEnqueued(r) \in JobRows /\ Completed(r) \in JobRows
           /\ Failed(r) \in JobRows /\ Deferred(r) \in JobRows
           /\ RetryScheduled(r) \in JobRows /\ ResetForRetry(r) \in JobRows
           /\ [r EXCEPT !.due = TRUE] \in JobRows /\ CreatedRow \in JobRows
  <1> USE DEF JobRows, Statuses
  <1>0. r.attempt + 1 \in Nat
    OBVIOUS
  <1>1. MarkedEnqueued(r) \in JobRows
    BY Zenon DEF MarkedEnqueued
  <1>2. Completed(r) \in JobRows
    BY Zenon, <1>0 DEF Completed
  <1>3. Failed(r) \in JobRows
    BY Zenon, <1>0 DEF Failed
  <1>4. Deferred(r) \in JobRows
    BY Zenon DEF Deferred
  <1>5. RetryScheduled(r) \in JobRows
    BY Zenon, <1>0 DEF RetryScheduled
  <1>6. ResetForRetry(r) \in JobRows
    BY Zenon DEF ResetForRetry
  <1>7. CreatedRow \in JobRows
    BY Zenon DEF CreatedRow, NoRow
  <1>8. [r EXCEPT !.due = TRUE] \in JobRows
    BY Zenon
  <1> QED
    BY Zenon, <1>1, <1>2, <1>3, <1>4, <1>5, <1>6, <1>7, <1>8

LEMMA StartedType ==
    ASSUME NEW m \in Nat
    PROVE  Started(m) \in TaskStates
  BY Zenon DEF Started, IdleTask, TaskStates

LEMMA TypeStep == TypeInv /\ [Next]_vars => TypeOK'
  <1> SUFFICES ASSUME TypeInv, [Next]_vars PROVE TypeOK'
    OBVIOUS
  <1>0. TypeOK /\ Refs
    BY Zenon DEF TypeInv
  <1>k. /\ "crash" \in Kinds /\ "redis" \in Kinds /\ "db" \in Kinds /\ "loss" \in Kinds
        /\ "endpoint" \in Kinds /\ "defer" \in Kinds /\ "slow" \in Kinds /\ "retry" \in Kinds
        /\ "trim" \in Kinds
    BY Zenon DEF Kinds
  <1>c. /\ "late_mark" \in Causes /\ "write_failed" \in Causes /\ "undeliverable" \in Causes
        /\ "trimmed" \in Causes /\ "data_loss" \in Causes /\ "group_start" \in Causes
    BY Zenon DEF Causes
  <1>r. \A j \in Jobs : jobs[j] \in JobRows
    BY Zenon, <1>0 DEF TypeOK
  <1>1. ASSUME NEW c \in Callers, NEW j \in Jobs, CreateJob(c, j) \/ FireJob(c, j) PROVE TypeOK'
    <2>1. jobs' \in [Jobs -> JobRows]
      BY Zenon, <1>0, <1>1, <1>r, SetRowType, RowTypes DEF CreateJob, FireJob
    <2>2. \A pc \in {"xadd", "xadd_fire"} : [pc |-> pc, job |-> j, msg |-> 0] \in PublisherStates
      BY Zenon DEF PublisherStates
    <2>3. pub' \in [Publishers -> PublisherStates]
      BY Zenon, <1>0, <1>1, <2>2 DEF TypeOK, registry, CreateJob, FireJob
    <2> QED
      BY Zenon, <1>0, <1>1, <2>1, <2>3 DEF TypeOK, registry, CreateJob, FireJob
  <1>2. ASSUME NEW c \in Callers, NEW j \in Jobs, RetryJob(c, j) PROVE TypeOK'
    <2>1. spent' \in [Kinds -> Nat]
      BY Zenon, <1>0, <1>2, <1>k, SpendType DEF RetryJob
    <2>2. jobs' \in [Jobs -> JobRows]
      BY Zenon, <1>0, <1>2, <1>r, SetRowType, RowTypes DEF RetryJob
    <2>3. pub' \in [Publishers -> PublisherStates]
      BY Zenon, <1>0, <1>2 DEF TypeOK, RetryJob, PublisherStates, Publishers
    <2>4. cause' \in [Jobs -> SUBSET Causes]
      BY Zenon, <1>0, <1>2, RearmedType DEF RetryJob
    <2> QED
      BY Zenon, <1>0, <1>2, <2>1, <2>2, <2>3, <2>4 DEF TypeOK, registry, RetryJob
  <1>3. ASSUME NEW o \in Outboxes, OutboxList(o) PROVE TypeOK'
    BY Zenon, <1>0, <1>3 DEF TypeOK, registry, OutboxList
  <1>4. ASSUME NEW o \in Outboxes, NEW j \in Jobs, OutboxNext(o, j) PROVE TypeOK'
    BY Zenon, <1>0, <1>4 DEF TypeOK, registry, OutboxNext, Publishers, PublisherStates
  <1>5. ASSUME NEW p \in Publishers, PublisherStep(p) PROVE TypeOK'
    <2>1. pub[p].pc # "idle" => pub[p].job \in Jobs
      BY Zenon, <1>0 DEF Refs
    <2>2. pub[p].job \in Jobs => Enqueue(stream, pub[p].job) \in Streams(Jobs)
      BY Zenon, <1>0, AppendEntry DEF TypeOK, Streams, Enqueue
    <2>m. pub[p].msg \in Nat /\ 0 \in Nat
      BY Zenon, <1>0 DEF TypeOK, PublisherStates
    <2>3. CASE EnqueueOk(p)
      <3>1. NextId(stream) \in Nat
        BY <1>0, StreamFields DEF NextId
      <3>2. pub[p].pc # "idle"
        BY Zenon, <2>3 DEF EnqueueOk, Adding
      <3>3. pub' \in [Publishers -> PublisherStates]
        BY Zenon, <1>0, <2>3, <3>1, GoOnType DEF EnqueueOk
      <3>4. stream' \in Streams(Jobs)
        BY Zenon, <2>1, <2>2, <2>3, <3>2 DEF EnqueueOk
      <3> QED
        BY Zenon, <1>0, <2>3, <3>3, <3>4 DEF TypeOK, EnqueueOk, registry
    <2>4. CASE EnqueueFails(p)
      <3>1. spent' \in [Kinds -> Nat]
        BY Zenon, <1>0, <2>4, <1>k, SpendType DEF EnqueueFails
      <3>2. pub[p].pc # "idle"
        BY Zenon, <2>4 DEF EnqueueFails, Adding
      <3>3. pub' \in [Publishers -> PublisherStates]
        BY Zenon, <1>0, <2>m, <2>4, GoOnType, IdlePublisherType DEF EnqueueFails, TypeOK
      <3>4. stream' \in Streams(Jobs)
        BY Zenon, <1>0, <2>1, <2>2, <2>4, <3>2 DEF EnqueueFails, TypeOK
      <3> QED
        BY Zenon, <1>0, <2>4, <3>1, <3>3, <3>4 DEF TypeOK, EnqueueFails, registry
    <2>5. CASE MarkEnqueued(p)
      <3>0. pub[p].pc # "idle"
        BY Zenon, <2>5 DEF MarkEnqueued, Marking
      <3>1. cause' \in [Jobs -> SUBSET Causes]
        BY Zenon, <1>0, <1>c, <2>5, BlameType DEF MarkEnqueued, TypeOK
      <3>2. jobs' \in [Jobs -> JobRows]
        BY Zenon, <1>0, <1>r, <2>1, <2>5, <3>0, SetRowType, RowTypes DEF MarkEnqueued
      <3>3. pub' \in [Publishers -> PublisherStates]
        BY Zenon, <1>0, <2>m, <2>5, GoOnType DEF MarkEnqueued
      <3> QED
        BY Zenon, <1>0, <2>5, <3>1, <3>2, <3>3 DEF TypeOK, MarkEnqueued, registry
    <2>6. CASE MarkEnqueuedFails(p) \/ RegisterFails(p)
      <3>1. spent' \in [Kinds -> Nat]
        BY Zenon, <1>0, <2>6, <1>k, SpendType DEF MarkEnqueuedFails, RegisterFails
      <3>2. pub' \in [Publishers -> PublisherStates]
        BY Zenon, <1>0, <2>m, <2>6, GoOnType DEF MarkEnqueuedFails, RegisterFails
      <3>3. listed' \in BOOLEAN /\ forgotten' \in BOOLEAN
        BY Zenon, <1>0, <2>6
        DEF TypeOK, MarkEnqueuedFails, RegisterFails, Registered, RegistrationLost, registry
      <3> QED
        BY Zenon, <1>0, <2>6, <3>1, <3>2, <3>3 DEF TypeOK, MarkEnqueuedFails, RegisterFails
    <2>7. CASE PublisherCrash(p)
      <3>1. spent' \in [Kinds -> Nat]
        BY Zenon, <1>0, <2>7, <1>k, SpendType DEF PublisherCrash
      <3>2. todo' \in [Outboxes -> SUBSET Jobs]
        BY Zenon, <1>0, <2>7 DEF TypeOK, PublisherCrash
      <3>3. listed' \in BOOLEAN /\ forgotten' \in BOOLEAN
        BY Zenon, <1>0, <2>7 DEF TypeOK, PublisherCrash, RegistrationLost, registry
      <3> QED
        BY Zenon, <1>0, <2>7, <3>1, <3>2, <3>3, IdlePublisherType DEF TypeOK, PublisherCrash
    <2>8. CASE Register(p)
      <3>1. pub' \in [Publishers -> PublisherStates]
        BY Zenon, <1>0, <2>m, <2>8, GoOnType DEF Register
      <3> QED
        BY Zenon, <1>0, <2>8, <3>1 DEF TypeOK, Register, Registered
    <2> QED
      BY Zenon, <1>5, <2>3, <2>4, <2>5, <2>6, <2>7, <2>8 DEF PublisherStep
  <1>6. ASSUME NEW t \in Tasks, ReadEntry(t) PROVE TypeOK'
    <2>0. stream.last + 1 \in Nat /\ stream.pel \cup {stream.last + 1} \in SUBSET Nat
      BY <1>0, StreamFields
    <2>1. Started(stream.last + 1) \in TaskStates
      BY Zenon, <2>0, StartedType
    <2>2. stream' \in Streams(Jobs)
      BY Zenon, <1>0, <1>6, <2>0 DEF TypeOK, Streams, ReadEntry, XReadGroup
    <2> QED
      BY Zenon, <1>0, <1>6, <2>1, <2>2 DEF TypeOK, registry, ReadEntry
  <1>7. ASSUME NEW t \in Tasks, NEW m \in stream.pel, Reclaim(t, m) PROVE TypeOK'
    <2>1. spent' \in [Kinds -> Nat]
      BY Zenon, <1>0, <1>7, <1>k, SpendType DEF Reclaim, TypeOK
    <2>2. Started(m) \in TaskStates
      BY Zenon, <1>0, StreamFields, StartedType
    <2>3. stream' \in Streams(Jobs)
      BY Zenon, <1>0, <1>7 DEF TypeOK, Streams, Reclaim, Claimable, XAutoClaim
    <2> QED
      BY Zenon, <1>0, <1>7, <2>1, <2>2, <2>3 DEF TypeOK, registry, Reclaim
  <1>8. ASSUME NEW t \in Tasks, TaskStep(t) PROVE TypeOK'
    <2>1. task[t].pc # "idle" => TaskJob(t) \in Jobs
      BY Zenon, TaskJobType
    <2>2. CASE FetchJob(t)
      <3>1. jobs[TaskJob(t)].attempt \in Nat
        BY Zenon, <1>r, <2>1, <2>2 DEF FetchJob, JobRows
      <3>2. task[t] \in TaskStates
        BY Zenon, <1>0 DEF TypeOK
      <3>3. [task[t] EXCEPT !.pc = "guard", !.attempt = jobs[TaskJob(t)].attempt] \in TaskStates
        BY Zenon, <3>1, <3>2, FetchType
      <3>4. task' = [task EXCEPT ![t] =
                       [task[t] EXCEPT !.pc = "guard", !.attempt = jobs[TaskJob(t)].attempt]]
        BY Zenon, <2>2 DEF FetchJob
      <3>5. task' \in [Tasks -> TaskStates]
        BY Zenon, <1>0, <3>3, <3>4 DEF TypeOK
      <3> QED
        BY Zenon, <1>0, <2>2, <3>5 DEF TypeOK, registry, FetchJob
    <2>3. CASE FetchNone(t)
      <3>1. cause' \in [Jobs -> SUBSET Causes]
        BY Zenon, <1>0, <1>c, <2>3, BlameType DEF FetchNone, TypeOK
      <3> QED
        BY Zenon, <1>0, <2>3, <3>1, GotoType DEF TypeOK, registry, FetchNone
    <2>4. CASE FetchFails(t) \/ AcknowledgeFails(t) \/ TaskCrash(t)
      <3>1. spent' \in [Kinds -> Nat]
        BY Zenon, <1>0, <2>4, <1>k, SpendType DEF FetchFails, AcknowledgeFails, TaskCrash
      <3>2. task' \in [Tasks -> TaskStates]
        BY Zenon, <1>0, <2>4, FinishType DEF FetchFails, AcknowledgeFails, TaskCrash
      <3> QED
        BY Zenon, <1>0, <2>4, <3>1, <3>2 DEF TypeOK, registry, FetchFails, AcknowledgeFails, TaskCrash
    <2>5. CASE Defer(t)
      <3>1. spent' \in [Kinds -> Nat]
        BY Zenon, <1>0, <2>5, <1>k, SpendType DEF Defer
      <3>2. jobs' \in [Jobs -> JobRows]
        BY Zenon, <1>0, <1>r, <2>1, <2>5, SetRowType, RowTypes DEF Defer
      <3>3. cause' \in [Jobs -> SUBSET Causes]
        BY Zenon, <1>0, <2>1, <2>5, RearmedType DEF Defer
      <3> QED
        BY Zenon, <1>0, <2>5, <3>1, <3>2, <3>3, GotoType DEF TypeOK, registry, Defer
    <2>6. CASE DeferFails(t) \/ WriteOutcomeFails(t)
      <3>1. spent' \in [Kinds -> Nat]
        BY Zenon, <1>0, <2>6, <1>k, SpendType DEF DeferFails, WriteOutcomeFails
      <3>2. cause' \in [Jobs -> SUBSET Causes]
        BY Zenon, <1>0, <1>c, <2>6, BlameType DEF DeferFails, WriteOutcomeFails
      <3>3. task' \in [Tasks -> TaskStates]
        BY Zenon, <1>0, <2>6, GotoType DEF DeferFails, WriteOutcomeFails
      <3> QED
        BY Zenon, <1>0, <2>6, <3>1, <3>2, <3>3 DEF TypeOK, registry, DeferFails, WriteOutcomeFails
    <2>7. ASSUME NEW ok \in BOOLEAN, Deliver(t, ok) PROVE TypeOK'
      <3>1. task[t] \in TaskStates
        BY Zenon, <1>0 DEF TypeOK
      <3>2. task' = [task EXCEPT ![t] = [task[t] EXCEPT !.pc = "record", !.ok = ok]]
        BY Zenon, <2>7 DEF Deliver
      <3>3. task' \in [Tasks -> TaskStates]
        BY Zenon, <1>0, <2>7, <3>1, <3>2, DeliverType DEF TypeOK
      <3> QED
        BY Zenon, <1>0, <2>7, <3>3 DEF TypeOK, registry, Deliver
    <2>8. CASE RecordAttempt(t)
      <3>1. rows[TaskJob(t)].ok + 1 \in Nat /\ rows[TaskJob(t)].bad + 1 \in Nat
        BY <1>0, <2>1, <2>8 DEF TypeOK, registry, RecordAttempt
      <3>2. rows' \in [Jobs -> [ok: Nat, bad: Nat]]
        BY ZenonT(40), <1>0, <2>8, <3>1 DEF TypeOK, registry, RecordAttempt
      <3> QED
        BY Zenon, <1>0, <2>8, <3>2, GotoType DEF TypeOK, registry, RecordAttempt
    <2>9. CASE RecordAttemptFails(t)
      <3>1. spent' \in [Kinds -> Nat]
        BY Zenon, <1>0, <2>9, <1>k, SpendType DEF RecordAttemptFails
      <3> QED
        BY Zenon, <1>0, <2>9, <3>1, GotoType DEF TypeOK, registry, RecordAttemptFails
    <2>10. CASE WriteOutcome(t)
      <3>1. jobs[TaskJob(t)] \in JobRows
        BY Zenon, <1>0, <2>1, <2>10 DEF WriteOutcome, TypeOK
      <3>2. Outcome(t, jobs[TaskJob(t)]) \in JobRows
        BY Zenon, <3>1, RowTypes DEF Outcome
      <3>3. jobs' \in [Jobs -> JobRows]
        BY Zenon, <1>0, <2>1, <2>10, <3>2, SetRowType DEF WriteOutcome
      <3>4. cause' \in [Jobs -> SUBSET Causes]
        BY Zenon, <1>0, <2>1, <2>10, RearmedType DEF TypeOK, registry, WriteOutcome
      <3> QED
        BY Zenon, <1>0, <2>10, <3>3, <3>4, GotoType DEF TypeOK, registry, WriteOutcome
    <2>11. CASE Acknowledge(t)
      <3>1. stream' \in Streams(Jobs)
        BY Zenon, <1>0, <2>11 DEF TypeOK, Streams, Acknowledge, XAck
      <3> QED
        BY Zenon, <1>0, <2>11, <3>1, FinishType DEF TypeOK, registry, Acknowledge
    <2> QED
      BY Zenon, <1>8, <2>2, <2>3, <2>4, <2>5, <2>6, <2>7, <2>8, <2>9, <2>10, <2>11 DEF TaskStep
  <1>9. CASE TrimPending
    <2>1. spent' \in [Kinds -> Nat]
      BY Zenon, <1>0, <1>9, <1>k, SpendType DEF TrimPending
    <2> QED
      BY <1>0, <1>9, <2>1 DEF TypeOK, registry, Streams, TrimPending
  <1>10. CASE TrimInfo
    BY Zenon, <1>0, <1>10, StreamFields DEF TypeOK, registry, TrimInfo, IdleTrimmer
  <1>11. CASE TrimApply
    <2>1. PICK upTo \in TrimTargets(stream, trimmer.cut) :
            /\ stream' = XTrim(stream, upTo)
            /\ Blame({stream.log[m] : m \in {i \in Claimable(stream) : i <= upTo}}, "trimmed")
      BY Zenon, <1>11 DEF TrimApply
    <2>2. cause' \in [Jobs -> SUBSET Causes]
      BY Zenon, <1>0, <1>c, <2>1, BlameType
    <2>3. upTo \in Nat
      BY <1>0, <2>1, StreamFields DEF TrimTargets, TypeOK
    <2>4. stream' \in Streams(Jobs)
      BY Zenon, <1>0, <2>1, <2>3 DEF TypeOK, Streams, XTrim
    <2> QED
      BY Zenon, <1>0, <1>11, <2>2, <2>4 DEF TypeOK, registry, TrimApply, IdleTrimmer
  <1>12. CASE EnsureGroup
    <2>1. cause' \in [Jobs -> SUBSET Causes]
      BY Zenon, <1>0, <1>c, <1>12, BlameType DEF EnsureGroup, TypeOK
    <2>2. stream' \in Streams(Jobs)
      BY Zenon, <1>0, <1>12, StreamFields DEF TypeOK, Streams, EnsureGroup, EnsureConsumerGroup
    <2> QED
      BY Zenon, <1>0, <1>12, <2>1, <2>2 DEF TypeOK, registry, EnsureGroup
  <1>13. CASE RedisLoss
    <2>1. cause' \in [Jobs -> SUBSET Causes]
      BY Zenon, <1>0, <1>c, <1>13, BlameType DEF RedisLoss
    <2>2. stream' \in Streams(Jobs)
      BY Zenon, <1>0, <1>13, StreamFields DEF TypeOK, Streams, RedisLoss, LoseData
    <2>3. spent' \in [Kinds -> Nat]
      BY Zenon, <1>0, <1>13, <1>k, SpendType DEF RedisLoss
    <2> QED
      BY Zenon, <1>0, <1>13, <2>1, <2>2, <2>3 DEF TypeOK, RedisLoss
  <1>14. ASSUME NEW j \in Jobs, RetryDue(j) PROVE TypeOK'
    BY Zenon, <1>0, <1>r, <1>14, SetRowType, RowTypes DEF TypeOK, registry, RetryDue
  <1>15. CASE EndpointDown
    <2>1. spent' \in [Kinds -> Nat]
      BY Zenon, <1>0, <1>15, <1>k, SpendType DEF EndpointDown
    <2> QED
      BY Zenon, <1>0, <1>15, <2>1 DEF TypeOK, registry, EndpointDown
  <1>16. CASE EndpointUp \/ UNCHANGED vars
    BY Zenon, <1>0, <1>16 DEF TypeOK, registry, EndpointUp, vars
  <1>17. CASE RegisterAtStart \/ RemoveStreamIfEmpty
    BY Zenon, <1>0, <1>17 DEF TypeOK, RegisterAtStart, RemoveStreamIfEmpty, Registered
  <1> QED
    BY Zenon, <1>1, <1>2, <1>3, <1>4, <1>5, <1>6, <1>7, <1>8, <1>9, <1>10, <1>11, <1>12, <1>13,
       <1>14, <1>15, <1>16, <1>17 DEF Next

\* The log only grows: no step changes or removes an entry of it.
LEMMA LogStep ==
    TypeInv /\ [Next]_vars =>
        \A i \in 1..Len(stream.log) : i \in 1..Len(stream'.log) /\ stream'.log[i] = stream.log[i]
  <1> SUFFICES ASSUME TypeInv, [Next]_vars
               PROVE  \A i \in 1..Len(stream.log) :
                          i \in 1..Len(stream'.log) /\ stream'.log[i] = stream.log[i]
    OBVIOUS
  <1>0. /\ stream \in Streams(Jobs) /\ stream.log \in Seq(Jobs) /\ Len(stream.log) \in Nat
        /\ \A p \in Publishers : pub[p].pc # "idle" => pub[p].job \in Jobs
    BY Zenon, StreamFields DEF TypeInv, TypeOK, Refs
  <1>1. ASSUME NEW p \in Publishers, PublisherStep(p)
        PROVE  \A i \in 1..Len(stream.log) :
                   i \in 1..Len(stream'.log) /\ stream'.log[i] = stream.log[i]
    <2>1. CASE pub[p].pc # "idle" /\ stream' = Enqueue(stream, pub[p].job)
      <3>1. stream'.log = Append(stream.log, pub[p].job)
        BY Zenon, <1>0, <2>1 DEF Enqueue, Streams
      <3> QED
        BY <1>0, <2>1, <3>1, AppendEntry
    <2>2. CASE stream' = stream
      BY Zenon, <2>2
    <2> QED
      BY Zenon, <1>1, <2>1, <2>2
      DEF PublisherStep, EnqueueOk, EnqueueFails, MarkEnqueued, MarkEnqueuedFails, Register,
          RegisterFails, PublisherCrash, Adding
  <1>2. ASSUME stream'.log = stream.log
        PROVE  \A i \in 1..Len(stream.log) :
                   i \in 1..Len(stream'.log) /\ stream'.log[i] = stream.log[i]
    BY Zenon, <1>2
  <1>3. ASSUME NEW t \in Tasks, TaskStep(t) PROVE stream'.log = stream.log
    BY Zenon, <1>0, <1>3
    DEF TaskStep, FetchJob, FetchNone, FetchFails, Defer, DeferFails, Deliver, RecordAttempt,
        RecordAttemptFails, WriteOutcome, WriteOutcomeFails, Acknowledge, AcknowledgeFails,
        TaskCrash, XAck, Streams
  <1>4. ASSUME NEW t \in Tasks, ReadEntry(t) \/ \E m \in stream.pel : Reclaim(t, m)
        PROVE  stream'.log = stream.log
    BY Zenon, <1>0, <1>4 DEF ReadEntry, XReadGroup, Reclaim, XAutoClaim, Streams
  <1>5. ASSUME \/ \E c \in Callers, j \in Jobs : CreateJob(c, j) \/ FireJob(c, j) \/ RetryJob(c, j)
               \/ \E o \in Outboxes : OutboxList(o) \/ (\E j \in Jobs : OutboxNext(o, j))
               \/ \E j \in Jobs : RetryDue(j)
               \/ EndpointDown \/ EndpointUp \/ TrimPending \/ TrimInfo \/ UNCHANGED vars
               \/ RegisterAtStart \/ RemoveStreamIfEmpty
        PROVE  stream'.log = stream.log
    BY Zenon, <1>5
    DEF CreateJob, FireJob, RetryJob, OutboxList, OutboxNext, RetryDue, EndpointDown, EndpointUp,
        TrimPending, TrimInfo, RegisterAtStart, RemoveStreamIfEmpty, vars
  <1>6. ASSUME TrimApply \/ EnsureGroup \/ RedisLoss PROVE stream'.log = stream.log
    BY Zenon, <1>0, <1>6
    DEF TrimApply, XTrim, EnsureGroup, EnsureConsumerGroup, RedisLoss, LoseData, Streams
  <1> QED
    BY Zenon, <1>1, <1>2, <1>3, <1>4, <1>5, <1>6 DEF Next

\* A task that is not idle after a step works on an entry that was in the
\* stream before it.
LEMMA TaskStepRefs ==
    TypeInv /\ [Next]_vars =>
        \A t \in Tasks : task'[t].pc # "idle" => task'[t].msg \in 1..Len(stream.log)
  <1> SUFFICES ASSUME TypeInv, [Next]_vars, NEW u \in Tasks, task'[u].pc # "idle"
               PROVE  task'[u].msg \in 1..Len(stream.log)
    OBVIOUS
  <1>0. /\ task \in [Tasks -> TaskStates]
        /\ \A t \in Tasks : task[t].pc # "idle" => task[t].msg \in 1..Len(stream.log)
        /\ stream.last \in Nat /\ Len(stream.log) \in Nat
    BY Zenon, StreamFields DEF TypeInv, TypeOK, Refs
  <1>1. ASSUME NEW t \in Tasks, TaskStep(t) PROVE task'[u].msg \in 1..Len(stream.log)
    <2>1. CASE Finish(t)
      BY Zenon, <1>0, <2>1 DEF Finish, IdleTask
    <2>2. CASE task[t].pc # "idle" /\ \E pc : Goto(t, pc)
      BY Zenon, <1>0, <2>2 DEF Goto, TaskStates
    <2>3. CASE FetchJob(t)
      BY Zenon, <1>0, <2>3 DEF FetchJob, TaskStates
    <2>4. CASE \E ok \in BOOLEAN : Deliver(t, ok)
      BY <1>0, <2>4 DEF Deliver, TaskStates
    <2> QED
      BY Zenon, <1>1, <2>1, <2>2, <2>3, <2>4
      DEF TaskStep, FetchNone, FetchFails, Defer, DeferFails, RecordAttempt, RecordAttemptFails,
          WriteOutcome, WriteOutcomeFails, Acknowledge, AcknowledgeFails, TaskCrash
  <1>2. ASSUME NEW t \in Tasks, ReadEntry(t) PROVE task'[u].msg \in 1..Len(stream.log)
    BY <1>0, <1>2 DEF ReadEntry, CanRead, Started, IdleTask
  <1>3. ASSUME NEW t \in Tasks, NEW m \in stream.pel, Reclaim(t, m)
        PROVE  task'[u].msg \in 1..Len(stream.log)
    BY Zenon, <1>0, <1>3 DEF Reclaim, Claimable, Readable, Started, IdleTask
  <1>4. ASSUME UNCHANGED task PROVE task'[u].msg \in 1..Len(stream.log)
    BY Zenon, <1>0, <1>4
  <1> QED
    BY Zenon, <1>1, <1>2, <1>3, <1>4
    DEF Next, vars, CreateJob, FireJob, RetryJob, OutboxList, OutboxNext, PublisherStep, EnqueueOk,
        EnqueueFails, MarkEnqueued, MarkEnqueuedFails, Register, RegisterFails, PublisherCrash,
        TrimPending, TrimInfo, TrimApply, EnsureGroup, RegisterAtStart,
        RemoveStreamIfEmpty, RedisLoss, RetryDue, EndpointDown, EndpointUp

\* A publisher about to run mark_enqueued holds the id its XADD returned.
LEMMA PublisherStepRefs ==
    TypeInv /\ [Next]_vars =>
        \A q \in Publishers :
            /\ pub'[q].pc # "idle" => pub'[q].job \in Jobs
            /\ pub'[q].pc \in HasMsg =>
                  /\ pub'[q].msg \in 1..Len(stream'.log)
                  /\ stream'.log[pub'[q].msg] = pub'[q].job
  <1> DEFINE Ref(q) == /\ pub'[q].pc # "idle" => pub'[q].job \in Jobs
                       /\ pub'[q].pc \in HasMsg =>
                             /\ pub'[q].msg \in 1..Len(stream'.log)
                             /\ stream'.log[pub'[q].msg] = pub'[q].job
  <1> SUFFICES ASSUME TypeInv, [Next]_vars, NEW q \in Publishers PROVE Ref(q)
    OBVIOUS
  <1>0. /\ pub \in [Publishers -> PublisherStates]
        /\ pub[q].pc # "idle" => pub[q].job \in Jobs
        /\ pub[q].pc \in HasMsg => pub[q].msg \in 1..Len(stream.log) /\ stream.log[pub[q].msg] = pub[q].job
        /\ \A i \in 1..Len(stream.log) : i \in 1..Len(stream'.log) /\ stream'.log[i] = stream.log[i]
    BY Zenon, LogStep DEF TypeInv, TypeOK, Refs
  <1>1. ASSUME pub'[q] = pub[q] PROVE Ref(q)
    BY Zenon, <1>0, <1>1
  <1>2. ASSUME pub'[q].pc \notin HasMsg, pub'[q].job \in Jobs PROVE Ref(q)
    BY Zenon, <1>2
  <1>3. ASSUME pub'[q] = IdlePublisher PROVE Ref(q)
    BY <1>3 DEF IdlePublisher, HasMsg
  <1>4. ASSUME NEW c \in Callers, NEW j \in Jobs, CreateJob(c, j) \/ FireJob(c, j) \/ RetryJob(c, j)
        PROVE  Ref(q)
    <2>1. CASE q = c
      <3>1. pub'[q].pc \in {"xadd", "xadd_fire", "xadd_again"} /\ pub'[q].job = j
        BY <1>0, <1>4, <2>1 DEF CreateJob, FireJob, RetryJob
      <3> QED
        BY Zenon, <1>2, <3>1 DEF HasMsg
    <2>2. CASE q # c
      BY Zenon, <1>0, <1>1, <1>4, <2>2 DEF CreateJob, FireJob, RetryJob
    <2> QED
      BY Zenon, <2>1, <2>2
  <1>5. ASSUME NEW o \in Outboxes, OutboxList(o) \/ \E j \in Jobs : OutboxNext(o, j) PROVE Ref(q)
    BY <1>0, <1>1, <1>2, <1>5 DEF OutboxList, OutboxNext, HasMsg
  <1>6. ASSUME NEW p \in Publishers, PublisherStep(p) PROVE Ref(q)
    <2>1. CASE pub' = [pub EXCEPT ![p] = IdlePublisher]
      BY Zenon, <1>0, <1>1, <1>3, <2>1
    <2>t. TypeOK
      BY Zenon DEF TypeInv
    <2>2. CASE EnqueueOk(p)
      <3>1. CASE q = p /\ pub'[q] # IdlePublisher
        <4>0. pub[q].job \in Jobs
          BY Zenon, <1>0, <2>2, <3>1 DEF EnqueueOk, Adding
        <4>1. pub'[q] = [pc |-> After(pub[q].pc), job |-> pub[q].job, msg |-> NextId(stream)]
          BY <2>t, <2>2, <3>1, GoOnEffect DEF EnqueueOk
        <4>2. pub'[q].msg = NextId(stream) /\ pub'[q].job = pub[q].job
          BY <4>1
        <4>3. stream'.log = Append(stream.log, pub[q].job)
          BY Zenon, <2>2, <3>1 DEF EnqueueOk, Enqueue, TypeInv, TypeOK, Streams
        <4> QED
          BY <1>0, <4>0, <4>2, <4>3, AppendEntry, StreamFields DEF NextId, TypeInv
      <3>3. CASE q # p
        BY Zenon, <1>1, <2>t, <2>2, <3>3, GoOnEffect DEF EnqueueOk
      <3> QED
        BY Zenon, <1>3, <3>1, <3>3
    <2>3. CASE /\ pub[p].pc \in Marking \cup Registering /\ GoOn(p, pub[p].msg) /\ stream' = stream
      <3>1. CASE q = p /\ pub'[q] # IdlePublisher
        <4>1. pub'[q] = [pc |-> After(pub[q].pc), job |-> pub[q].job, msg |-> pub[q].msg]
          BY Zenon, <2>t, <2>3, <3>1, GoOnEffect
        <4>2. /\ pub'[q].pc = After(pub[q].pc) /\ pub'[q].job = pub[q].job
              /\ pub'[q].msg = pub[q].msg
          BY <4>1
        <4>3. pub[q].pc # "idle"
          BY Zenon, <2>3, <3>1 DEF Marking, Registering
        <4>4. pub'[q].pc \in HasMsg => pub[q].pc \in HasMsg
          BY <2>3, <3>1, <4>2, AfterType
        <4> QED
          BY Zenon, <1>0, <2>3, <4>2, <4>3, <4>4
      <3>3. CASE q # p
        BY Zenon, <1>1, <2>t, <2>3, <3>3, GoOnEffect
      <3> QED
        BY Zenon, <1>3, <3>1, <3>3
    <2>4. CASE pub[p].pc = "xadd_fire" /\ GoOn(p, 0)
      <3>1. CASE q = p /\ pub'[q] # IdlePublisher
        <4>1. pub'[q] = [pc |-> After(pub[q].pc), job |-> pub[q].job, msg |-> 0]
          BY <2>t, <2>4, <3>1, GoOnEffect
        <4>2. pub'[q].pc = "register" /\ pub'[q].job = pub[q].job
          BY <2>4, <3>1, <4>1, AfterType
        <4> QED
          BY Zenon, <1>0, <1>2, <2>4, <3>1, <4>2 DEF HasMsg
      <3>3. CASE q # p
        BY Zenon, <1>1, <2>t, <2>4, <3>3, GoOnEffect
      <3> QED
        BY Zenon, <1>3, <3>1, <3>3
    <2> QED
      BY Zenon, <1>6, <2>1, <2>2, <2>3, <2>4
      DEF PublisherStep, EnqueueFails, MarkEnqueued, MarkEnqueuedFails, Register, RegisterFails,
          PublisherCrash
  <1>7. ASSUME NEW t \in Tasks, TaskStep(t) \/ ReadEntry(t) \/ \E m \in stream.pel : Reclaim(t, m)
        PROVE  pub' = pub
    BY Zenon, <1>7
    DEF TaskStep, FetchJob, FetchNone, FetchFails, Defer, DeferFails, Deliver, RecordAttempt,
        RecordAttemptFails, WriteOutcome, WriteOutcomeFails, Acknowledge, AcknowledgeFails,
        TaskCrash, ReadEntry, Reclaim
  <1> QED
    BY Zenon, <1>1, <1>4, <1>5, <1>6, <1>7
    DEF Next, vars, TrimPending, TrimInfo, TrimApply, EnsureGroup, RegisterAtStart,
        RemoveStreamIfEmpty, RedisLoss, RetryDue, EndpointDown, EndpointUp

LEMMA NextTypeInv == TypeInv /\ [Next]_vars => TypeInv'
  <1> SUFFICES ASSUME TypeInv, [Next]_vars PROVE TypeInv'
    OBVIOUS
  <1>1. \A t \in Tasks : task'[t].pc # "idle" => task'[t].msg \in 1..Len(stream'.log)
    BY Zenon, TaskStepRefs, LogStep
  <1>2. Refs'
    BY Zenon, <1>1, PublisherStepRefs DEF Refs
  <1> QED
    BY Zenon, <1>2, TypeStep DEF TypeInv

LEMMA TypeInvariance == Spec => []TypeInv
  BY InitTypeInv, NextTypeInv, PTL DEF Spec

\* Type correctness: whatever the publishers, tasks, trimmer and environment do,
\* every column keeps its type and every process a valid program counter.
THEOREM TypeCorrect == Spec => []TypeOK
  BY TypeInvariance, PTL DEF TypeInv

-----------------------------------------------------------------------------
(* Where the group's cursor, the PEL and the trimmed prefix lie            *)

Cursor ==
    /\ stream.last <= Len(stream.log)
    /\ stream.trimmed <= stream.last
    /\ \A m \in stream.pel : m >= 1 /\ m <= stream.last
    /\ trimmer.pc = "xtrim" => trimmer.cut <= stream.last
    /\ ~stream.group => stream.pel = {} /\ stream.last = stream.trimmed

LEMMA InitCursor == Init => Cursor
  BY DEF Init, Cursor, EmptyStream, IdleTrimmer

LEMMA NextCursor == TypeInv /\ Cursor /\ [Next]_vars => Cursor'
  <1> SUFFICES ASSUME TypeInv, Cursor, [Next]_vars PROVE Cursor'
    OBVIOUS
  <1>0. /\ stream \in Streams(Jobs) /\ stream.log \in Seq(Jobs) /\ Len(stream.log) \in Nat
        /\ stream.trimmed \in Nat /\ stream.last \in Nat /\ stream.pel \in SUBSET Nat
        /\ stream.group \in BOOLEAN
        /\ trimmer \in [pc: {"idle", "xinfo", "xtrim"}, cut: Nat]
        /\ \A p \in Publishers : pub[p].pc # "idle" => pub[p].job \in Jobs
    BY Zenon, StreamFields DEF TypeInv, TypeOK, Refs
  <1>1. ASSUME UNCHANGED <<stream, trimmer>> PROVE Cursor'
    BY Zenon, <1>1 DEF Cursor
  <1>2. ASSUME NEW p \in Publishers, PublisherStep(p) PROVE Cursor'
    <2>1. CASE pub[p].pc # "idle" /\ stream' = Enqueue(stream, pub[p].job) /\ UNCHANGED trimmer
      <3>1. /\ stream'.log = Append(stream.log, pub[p].job)
            /\ stream'.trimmed = stream.trimmed /\ stream'.last = stream.last
            /\ stream'.pel = stream.pel /\ stream'.group = stream.group
        BY Zenon, <1>0, <2>1 DEF Enqueue, Streams
      <3>2. Len(stream'.log) = Len(stream.log) + 1
        BY <1>0, <2>1, <3>1, AppendEntry
      <3> QED
        BY <1>0, <2>1, <3>1, <3>2 DEF Cursor
    <2> QED
      BY Zenon, <1>1, <1>2, <2>1
      DEF PublisherStep, EnqueueOk, EnqueueFails, MarkEnqueued, MarkEnqueuedFails, Register,
          RegisterFails, PublisherCrash, Adding
  <1>3. ASSUME NEW t \in Tasks, ReadEntry(t) PROVE Cursor'
    <2>1. /\ stream'.log = stream.log /\ stream'.trimmed = stream.trimmed
          /\ stream'.last = stream.last + 1 /\ stream'.pel = stream.pel \cup {stream.last + 1}
          /\ stream'.group = stream.group /\ trimmer' = trimmer
          /\ stream.group /\ stream.last < Len(stream.log)
      BY Zenon, <1>0, <1>3 DEF ReadEntry, CanRead, XReadGroup, Streams
    <2> QED
      BY <1>0, <2>1 DEF Cursor
  <1>4. ASSUME NEW t \in Tasks, NEW m \in stream.pel, Reclaim(t, m) PROVE Cursor'
    <2>1. /\ stream'.log = stream.log /\ stream'.trimmed = stream.trimmed
          /\ stream'.last = stream.last /\ stream'.pel \subseteq stream.pel
          /\ stream'.group = stream.group /\ trimmer' = trimmer
      BY Zenon, <1>0, <1>4 DEF Reclaim, XAutoClaim, Claimable, Streams
    <2> QED
      BY Zenon, <1>0, <2>1 DEF Cursor
  <1>5. ASSUME NEW t \in Tasks, TaskStep(t) PROVE Cursor'
    <2>1. CASE Acknowledge(t)
      <3>1. /\ stream'.log = stream.log /\ stream'.trimmed = stream.trimmed
            /\ stream'.last = stream.last /\ stream'.pel \subseteq stream.pel
            /\ stream'.group = stream.group /\ trimmer' = trimmer
        BY Zenon, <1>0, <2>1 DEF Acknowledge, XAck, Streams
      <3> QED
        BY Zenon, <1>0, <3>1 DEF Cursor
    <2> QED
      BY ZenonT(40), <1>1, <1>5, <2>1
      DEF TaskStep, FetchJob, FetchNone, FetchFails, Defer, DeferFails, Deliver, RecordAttempt,
          RecordAttemptFails, WriteOutcome, WriteOutcomeFails, AcknowledgeFails, TaskCrash
  <1>6. CASE TrimPending \/ TrimInfo
    BY <1>0, <1>6 DEF Cursor, TrimPending, TrimInfo, IdleTrimmer
  <1>7. CASE TrimApply
    <2>1. PICK upTo \in TrimTargets(stream, trimmer.cut) : stream' = XTrim(stream, upTo)
      BY Zenon, <1>7 DEF TrimApply
    <2>2. /\ stream'.log = stream.log /\ stream'.trimmed = upTo
          /\ stream'.last = stream.last /\ stream'.pel = stream.pel
          /\ stream'.group = stream.group /\ trimmer' = IdleTrimmer
      BY ZenonT(40), <1>0, <1>7, <2>1 DEF TrimApply, XTrim, Streams
    <2>3. /\ trimmer.cut \in Nat /\ trimmer.cut <= stream.last
          /\ upTo \in Int /\ upTo >= stream.trimmed /\ upTo <= stream.last
      BY <1>0, <1>7, <2>1 DEF Cursor, TrimApply, TrimTargets
    <2> QED
      BY <1>0, <2>2, <2>3 DEF Cursor, IdleTrimmer
  <1>8. CASE EnsureGroup
    <2>1. /\ stream'.log = stream.log /\ stream'.trimmed = stream.trimmed
          /\ stream'.last \in {Len(stream.log), stream.trimmed} /\ stream'.pel = {}
          /\ stream'.group = TRUE /\ trimmer' = trimmer /\ ~stream.group
      BY Zenon, <1>0, <1>8 DEF EnsureGroup, EnsureConsumerGroup, Streams
    <2> QED
      BY <1>0, <2>1 DEF Cursor
  <1>9. CASE RedisLoss
    <2>1. /\ stream'.log = stream.log /\ stream'.trimmed = Len(stream.log)
          /\ stream'.last = Len(stream.log) /\ stream'.pel = {}
          /\ stream'.group = FALSE /\ trimmer' = trimmer
      BY Zenon, <1>0, <1>9 DEF RedisLoss, LoseData, Streams
    <2> QED
      BY <1>0, <2>1 DEF Cursor
  <1>10. ASSUME \/ \E c \in Callers, j \in Jobs : CreateJob(c, j) \/ FireJob(c, j) \/ RetryJob(c, j)
                \/ \E o \in Outboxes : OutboxList(o) \/ (\E j \in Jobs : OutboxNext(o, j))
                \/ \E j \in Jobs : RetryDue(j)
                \/ RegisterAtStart \/ RemoveStreamIfEmpty
                \/ EndpointDown \/ EndpointUp \/ UNCHANGED vars
         PROVE  Cursor'
    BY Zenon, <1>1, <1>10
    DEF CreateJob, FireJob, RetryJob, OutboxList, OutboxNext, RetryDue, RegisterAtStart,
        RemoveStreamIfEmpty, EndpointDown, EndpointUp, vars
  <1> QED
    BY Zenon, <1>2, <1>3, <1>4, <1>5, <1>6, <1>7, <1>8, <1>9, <1>10 DEF Next

LEMMA CursorInvariance == Spec => []Cursor
  BY InitCursor, NextCursor, TypeInvariance, PTL DEF Spec

\* xtrim_safe never deletes an entry that no worker has been given, although it
\* reads the cutoff in one call and trims in another.
THEOREM TrimSafety == Spec => []NeverTrimsUnread
  BY CursorInvariance, PTL DEF Cursor, NeverTrimsUnread

-----------------------------------------------------------------------------
(* No job is lost without a named event                                    *)

Unsettled(j) == \E m \in 1..Len(stream.log) : stream.log[m] = j /\ ~Settled(m)

ReachableJob(j) ==
    Live(jobs[j]) /\ jobs[j].enqueued => cause[j] # {} \/ Unsettled(j)

Reachable == \A j \in Jobs : ReachableJob(j)

\* What is not settled is readable.
LEMMA UnsettledIsInStream ==
    ASSUME NEW j \in Jobs, Unsettled(j)
    PROVE  HasEntry(j) /\ j \in JobsInStream
  BY Zenon DEF Unsettled, Settled, HasEntry, JobsInStream

LEMMA InitReachable == Init => Reachable
  BY DEF Init, Reachable, ReachableJob, NoRow

\* A job stays reachable through a step that neither enqueues nor revives it,
\* forgets no cause, and settles none of its entries without adding a cause.
LEMMA ReachableFrame ==
    ASSUME TypeInv, [Next]_vars, NEW j \in Jobs, ReachableJob(j),
           Live(jobs'[j]) /\ jobs'[j].enqueued => Live(jobs[j]) /\ jobs[j].enqueued,
           cause[j] # {} => cause'[j] # {},
           \A m \in 1..Len(stream.log) :
               stream.log[m] = j /\ ~Settled(m) => ~Settled(m)' \/ cause'[j] # {}
    PROVE  ReachableJob(j)'
  <1> SUFFICES ASSUME Live(jobs'[j]), jobs'[j].enqueued, cause'[j] = {}
               PROVE  Unsettled(j)'
    BY Zenon DEF ReachableJob
  <1>1. PICK m \in 1..Len(stream.log) : stream.log[m] = j /\ ~Settled(m)
    BY Zenon DEF ReachableJob, Unsettled
  <1>2. m \in 1..Len(stream'.log) /\ stream'.log[m] = j
    BY Zenon, <1>1, LogStep
  <1> QED
    BY Zenon, <1>1, <1>2 DEF Unsettled

\* Reads, reclaims and XADDs leave every readable entry readable.
LEMMA SettledFrame ==
    ASSUME TypeInv, NEW m \in 1..Len(stream.log), ~Settled(m),
           Readable(stream, m) => Readable(stream', m),
           \A t \in Tasks : task'[t].pc = "ack" => task[t].pc = "ack" /\ task'[t].msg = task[t].msg
    PROVE  ~Settled(m)'
  BY Zenon DEF Settled

\* An execution that goes on to XACK settles its own entry and no other.
LEMMA GotoAck ==
    ASSUME TypeInv, NEW t \in Tasks, Goto(t, "ack"), UNCHANGED stream,
           NEW m \in 1..Len(stream.log), ~Settled(m), stream.log[m] # TaskJob(t)
    PROVE  ~Settled(m)'
  <1>1. task \in [Tasks -> TaskStates]
    BY Zenon DEF TypeInv, TypeOK
  <1>2. \A u \in Tasks : task'[u].msg = task[u].msg /\ (u # t => task'[u] = task[u])
    BY ZenonT(40), <1>1 DEF Goto, TaskStates
  <1>3. m # task[t].msg
    BY Zenon DEF TaskJob
  <1> QED
    BY ZenonT(40), <1>2, <1>3 DEF Settled

LEMMA NextReachable == TypeInv /\ Cursor /\ Reachable /\ [Next]_vars => Reachable'
  <1> SUFFICES ASSUME TypeInv, Cursor, Reachable, [Next]_vars, NEW i \in Jobs
               PROVE  ReachableJob(i)'
    BY Zenon DEF Reachable
  <1>0. /\ stream \in Streams(Jobs) /\ stream.log \in Seq(Jobs) /\ Len(stream.log) \in Nat
        /\ stream.trimmed \in Nat /\ stream.last \in Nat /\ stream.pel \in SUBSET Nat
        /\ stream.group \in BOOLEAN
        /\ jobs \in [Jobs -> JobRows] /\ cause \in [Jobs -> SUBSET Causes]
        /\ pub \in [Publishers -> PublisherStates] /\ task \in [Tasks -> TaskStates]
    BY Zenon, StreamFields DEF TypeInv, TypeOK
  <1>r. ReachableJob(i)
    BY Zenon DEF Reachable
  <1>s. ASSUME UNCHANGED <<stream, task>>
        PROVE  \A m \in 1..Len(stream.log) : ~Settled(m) => ~Settled(m)'
    BY Zenon, <1>s DEF Settled
  <1>q. ASSUME ~jobs'[i].enqueued \/ ~Live(jobs'[i]) \/ cause'[i] # {} PROVE ReachableJob(i)'
    BY ZenonT(40), <1>q DEF ReachableJob
  \* The jobs of the stream are blamed.
  <1>b. ASSUME NEW why, Blame(JobsInStream, why), UNCHANGED jobs PROVE ReachableJob(i)'
    <2>1. ASSUME Live(jobs[i]), jobs[i].enqueued PROVE cause'[i] # {}
      <3>1. cause[i] # {} \/ i \in JobsInStream
        BY Zenon, <1>r, <2>1, UnsettledIsInStream DEF ReachableJob
      <3> QED
        BY Zenon, <1>0, <1>b, <3>1 DEF Blame
    <2> QED
      BY Zenon, <1>b, <1>q, <2>1
  <1>f. ASSUME UNCHANGED <<stream, task>>, jobs'[i] = jobs[i], cause'[i] = cause[i]
        PROVE  ReachableJob(i)'
    BY ZenonT(40), <1>f, <1>r, <1>s, ReachableFrame
  <1>1. ASSUME NEW c \in Callers, NEW j \in Jobs, CreateJob(c, j) \/ FireJob(c, j)
        PROVE  ReachableJob(i)'
    <2>1. CASE i = j
      BY <1>0, <1>1, <1>q, <2>1 DEF CreateJob, FireJob, SetRow, CreatedRow, NoRow
    <2>2. CASE i # j
      BY Zenon, <1>0, <1>1, <1>f, <2>2 DEF CreateJob, FireJob, SetRow
    <2> QED
      BY ZenonT(40), <2>1, <2>2
  <1>2. ASSUME NEW c \in Callers, NEW j \in Jobs, RetryJob(c, j) PROVE ReachableJob(i)'
    <2>1. CASE i = j
      BY ZenonT(40), <1>0, <1>2, <1>q, <2>1 DEF RetryJob, SetRow, ResetForRetry, JobRows
    <2>2. CASE i # j
      BY ZenonT(40), <1>0, <1>2, <1>f, <2>2 DEF RetryJob, SetRow, Rearmed
    <2> QED
      BY <2>1, <2>2
  <1>3. ASSUME NEW o \in Outboxes, OutboxList(o) \/ \E j \in Jobs : OutboxNext(o, j)
        PROVE  ReachableJob(i)'
    BY ZenonT(40), <1>3, <1>f DEF OutboxList, OutboxNext
  <1>4. ASSUME NEW p \in Publishers, PublisherStep(p) PROVE ReachableJob(i)'
    <2>1. CASE stream' = Enqueue(stream, pub[p].job) /\ pub[p].pc # "idle"
               /\ UNCHANGED <<jobs, task, cause>>
      <3>1. pub[p].job \in Jobs
        BY ZenonT(40), <2>1 DEF TypeInv, Refs
      <3>2. /\ stream'.log = Append(stream.log, pub[p].job)
            /\ stream'.trimmed = stream.trimmed /\ stream'.last = stream.last
            /\ stream'.pel = stream.pel
        BY ZenonT(40), <1>0, <2>1 DEF Enqueue, Streams
      <3>3. \A m \in 1..Len(stream.log) : Readable(stream, m) => Readable(stream', m)
        BY <1>0, <3>1, <3>2, AppendEntry DEF Readable
      <3>4. \A m \in 1..Len(stream.log) : ~Settled(m) => ~Settled(m)'
        BY Zenon, <2>1, <3>3, SettledFrame
      <3> QED
        BY ZenonT(40), <1>r, <2>1, <3>4, ReachableFrame
    <2>2. CASE MarkEnqueued(p)
      <3>0. /\ pub[p].job \in Jobs /\ pub[p].msg \in 1..Len(stream.log)
            /\ stream.log[pub[p].msg] = pub[p].job
        BY ZenonT(40), <2>2 DEF MarkEnqueued, TypeInv, Refs, Marking, HasMsg
      <3>1. CASE i = pub[p].job /\ Settled(pub[p].msg)
        BY Zenon, <1>0, <1>q, <2>2, <3>1 DEF MarkEnqueued, Blame
      <3>2. CASE i = pub[p].job /\ ~Settled(pub[p].msg)
        <4>1. PICK n \in 1..Len(stream.log) : n = pub[p].msg
          BY ZenonT(40), <3>0
        <4>2. ~Settled(n)'
          BY ZenonT(40), <1>s, <2>2, <3>2, <4>1 DEF MarkEnqueued
        <4>3. stream' = stream
          BY ZenonT(40), <2>2 DEF MarkEnqueued
        <4> QED
          BY Zenon, <3>0, <3>2, <4>1, <4>2, <4>3 DEF ReachableJob, Unsettled
      <3>3. CASE i # pub[p].job
        <4>1. cause'[i] = cause[i] /\ jobs'[i] = jobs[i]
          BY ZenonT(40), <1>0, <2>2, <3>3 DEF MarkEnqueued, Blame, SetRow
        <4> QED
          BY ZenonT(40), <1>f, <2>2, <4>1 DEF MarkEnqueued
      <3> QED
        BY ZenonT(40), <3>1, <3>2, <3>3
    <2> QED
      BY ZenonT(40), <1>4, <1>f, <2>1, <2>2
      DEF PublisherStep, EnqueueOk, EnqueueFails, MarkEnqueuedFails, Register, RegisterFails,
          PublisherCrash, Adding
  <1>5. ASSUME NEW t \in Tasks, ReadEntry(t) PROVE ReachableJob(i)'
    <2>1. /\ stream'.log = stream.log /\ stream'.trimmed = stream.trimmed
          /\ stream'.last = stream.last + 1 /\ stream'.pel = stream.pel \cup {stream.last + 1}
      BY ZenonT(40), <1>0, <1>5 DEF ReadEntry, XReadGroup, Streams
    <2>2. \A m \in 1..Len(stream.log) : Readable(stream, m) => Readable(stream', m)
      BY <1>0, <2>1 DEF Readable
    <2>3. \A u \in Tasks : task'[u].pc = "ack" => task[u].pc = "ack" /\ task'[u].msg = task[u].msg
      BY Zenon, <1>0, <1>5 DEF ReadEntry, Started, IdleTask
    <2>4. \A m \in 1..Len(stream.log) : ~Settled(m) => ~Settled(m)'
      BY ZenonT(40), <2>2, <2>3, SettledFrame
    <2> QED
      BY ZenonT(40), <1>r, <1>5, <2>4, ReachableFrame DEF ReadEntry
  <1>6. ASSUME NEW t \in Tasks, NEW n \in stream.pel, Reclaim(t, n) PROVE ReachableJob(i)'
    <2>1. /\ stream'.log = stream.log /\ stream'.trimmed = stream.trimmed
          /\ stream'.last = stream.last /\ stream'.pel = Claimable(stream)
      BY ZenonT(40), <1>0, <1>6 DEF Reclaim, XAutoClaim, Streams
    <2>2. \A m \in 1..Len(stream.log) : Readable(stream, m) => Readable(stream', m)
      BY ZenonT(40), <1>0, <2>1 DEF Readable, Claimable
    <2>3. \A u \in Tasks : task'[u].pc = "ack" => task[u].pc = "ack" /\ task'[u].msg = task[u].msg
      BY ZenonT(40), <1>0, <1>6 DEF Reclaim, Started, IdleTask
    <2>4. \A m \in 1..Len(stream.log) : ~Settled(m) => ~Settled(m)'
      BY ZenonT(40), <2>2, <2>3, SettledFrame
    <2> QED
      BY ZenonT(40), <1>r, <1>6, <2>4, ReachableFrame DEF Reclaim
  <1>7. ASSUME NEW t \in Tasks, TaskStep(t) PROVE ReachableJob(i)'
    <2>0. task[t].pc # "idle" => TaskJob(t) \in Jobs
      BY ZenonT(40), TaskJobType
    \* The steps that go on to XACK leave the entries of other jobs unsettled.
    <2>g. ASSUME Goto(t, "ack"), UNCHANGED stream, i # TaskJob(t),
                 jobs'[i] = jobs[i], cause'[i] = cause[i]
          PROVE  ReachableJob(i)'
      BY ZenonT(40), <1>r, <2>g, GotoAck, ReachableFrame
    <2>1. CASE /\ UNCHANGED <<jobs, stream, cause>>
               /\ \A u \in Tasks : task'[u].pc = "ack" =>
                      task[u].pc = "ack" /\ task'[u].msg = task[u].msg
      BY ZenonT(40), <1>r, <2>1, SettledFrame, ReachableFrame
    <2>2. CASE FetchFails(t) \/ AcknowledgeFails(t) \/ TaskCrash(t)
      BY <1>0, <2>1, <2>2 DEF FetchFails, AcknowledgeFails, TaskCrash, Finish, IdleTask
    <2>a. CASE FetchJob(t)
      BY Zenon, <1>0, <2>1, <2>a DEF FetchJob, TaskStates
    <2>b. CASE RecordAttempt(t) \/ RecordAttemptFails(t)
      BY Zenon, <1>0, <2>1, <2>b DEF RecordAttempt, RecordAttemptFails, Goto, TaskStates
    <2>c. CASE \E ok \in BOOLEAN : Deliver(t, ok)
      BY <1>0, <2>1, <2>c DEF Deliver, TaskStates
    <2>3. CASE FetchNone(t)
      <3>1. CASE i = TaskJob(t)
        <4>1. Live(jobs[i]) => cause'[i] # {}
          BY Zenon, <1>0, <2>3, <3>1 DEF FetchNone, Blame
        <4> QED
          BY ZenonT(40), <1>q, <2>3, <4>1 DEF FetchNone
      <3>2. CASE i # TaskJob(t)
        <4>1. cause'[i] = cause[i]
          BY ZenonT(40), <2>3, <3>2 DEF FetchNone, Blame
        <4> QED
          BY Zenon, <2>3, <2>g, <3>2, <4>1 DEF FetchNone
      <3> QED
        BY Zenon, <3>1, <3>2
    <2>4. CASE Defer(t)
      <3>1. CASE i = TaskJob(t)
        BY ZenonT(40), <1>0, <1>q, <2>4, <3>1 DEF Defer, SetRow, Deferred, JobRows
      <3>2. CASE i # TaskJob(t)
        BY ZenonT(40), <1>0, <2>4, <2>g, <3>2 DEF Defer, SetRow, Rearmed
      <3> QED
        BY <3>1, <3>2
    <2>5. CASE DeferFails(t) \/ WriteOutcomeFails(t)
      <3>1. CASE i = TaskJob(t)
        BY ZenonT(40), <1>q, <2>5, <3>1 DEF DeferFails, WriteOutcomeFails, Blame
      <3>2. CASE i # TaskJob(t)
        <4>1. cause'[i] = cause[i]
          BY ZenonT(40), <2>5, <3>2 DEF DeferFails, WriteOutcomeFails, Blame
        <4> QED
          BY ZenonT(40), <2>5, <2>g, <3>2, <4>1 DEF DeferFails, WriteOutcomeFails
      <3> QED
        BY <3>1, <3>2
    <2>6. CASE WriteOutcome(t)
      <3>1. CASE i = TaskJob(t)
        <4>1. jobs'[i] = Outcome(t, jobs[i])
          BY ZenonT(40), <1>0, <2>6, <3>1 DEF WriteOutcome, SetRow
        <4>2. ~Live(jobs'[i]) \/ ~jobs'[i].enqueued
          BY <1>0, <4>1 DEF Outcome, Completed, Failed, RetryScheduled, JobRows, Live
        <4> QED
          BY ZenonT(40), <1>q, <4>2
      <3>2. CASE i # TaskJob(t)
        <4>1. cause'[i] = cause[i] /\ jobs'[i] = jobs[i]
          BY ZenonT(40), <1>0, <2>6, <3>2 DEF WriteOutcome, Rearmed, SetRow
        <4> QED
          BY Zenon, <2>6, <2>g, <3>2, <4>1 DEF WriteOutcome
      <3> QED
        BY <3>1, <3>2
    <2>7. CASE Acknowledge(t)
      <3>1. /\ stream'.log = stream.log /\ stream'.trimmed = stream.trimmed
            /\ stream'.last = stream.last /\ stream'.pel = stream.pel \ {task[t].msg}
        BY ZenonT(40), <1>0, <2>7 DEF Acknowledge, XAck, Streams
      <3>2. \A m \in 1..Len(stream.log) : ~Settled(m) => m # task[t].msg
        BY ZenonT(40), <2>7 DEF Acknowledge, Settled
      <3>3. \A m \in 1..Len(stream.log) :
              ~Settled(m) => (Readable(stream, m) => Readable(stream', m))
        BY ZenonT(40), <1>0, <3>1, <3>2 DEF Readable
      <3>4. \A u \in Tasks : task'[u].pc = "ack" => task[u].pc = "ack" /\ task'[u].msg = task[u].msg
        BY ZenonT(40), <1>0, <2>7 DEF Acknowledge, Finish, IdleTask
      <3>5. \A m \in 1..Len(stream.log) : ~Settled(m) => ~Settled(m)'
        BY ZenonT(40), <3>3, <3>4, SettledFrame
      <3> QED
        BY ZenonT(40), <1>r, <2>7, <3>5, ReachableFrame DEF Acknowledge
    <2> QED
      BY ZenonT(40), <1>7, <2>2, <2>a, <2>b, <2>c, <2>3, <2>4, <2>5, <2>6, <2>7 DEF TaskStep
  <1>8. CASE TrimApply
    <2>1. PICK upTo \in TrimTargets(stream, trimmer.cut) :
            /\ stream' = XTrim(stream, upTo)
            /\ Blame({stream.log[m] : m \in {k \in Claimable(stream) : k <= upTo}}, "trimmed")
      BY Zenon, <1>8 DEF TrimApply
    <2>2. /\ stream'.log = stream.log /\ stream'.trimmed = upTo
          /\ stream'.last = stream.last /\ stream'.pel = stream.pel
      BY ZenonT(40), <1>0, <2>1 DEF XTrim, Streams
    <2>3. upTo \in Int /\ upTo <= stream.last
      BY <1>0, <1>8, <2>1 DEF TypeInv, TypeOK, Cursor, TrimApply, TrimTargets
    <2>4. ASSUME NEW m \in 1..Len(stream.log), stream.log[m] = i, ~Settled(m)
          PROVE  ~Settled(m)' \/ cause'[i] # {}
      <3>1. CASE m <= upTo
        <4>1. m \in Claimable(stream)
          BY <1>0, <2>3, <2>4, <3>1 DEF Settled, Readable, Claimable
        <4> QED
          BY Zenon, <1>0, <2>1, <2>4, <3>1, <4>1 DEF Blame
      <3>2. CASE ~(m <= upTo)
        <4>1. Readable(stream, m) => Readable(stream', m)
          BY <1>0, <2>2, <2>3, <3>2 DEF Readable
        <4> QED
          BY Zenon, <1>8, <2>4, <4>1, SettledFrame DEF TrimApply
      <3> QED
        BY Zenon, <3>1, <3>2
    <2>5. cause[i] # {} => cause'[i] # {}
      BY ZenonT(40), <2>1 DEF Blame
    <2> QED
      BY ZenonT(40), <1>8, <1>r, <2>4, <2>5, ReachableFrame DEF TrimApply
  <1>9. CASE EnsureGroup
    <2>1. CASE StartId = "$"
      BY Zenon, <1>9, <1>b, <2>1 DEF EnsureGroup
    <2>2. CASE StartId # "$"
      <3>1. /\ stream'.log = stream.log /\ stream'.trimmed = stream.trimmed
            /\ stream'.last = stream.last /\ stream'.pel = stream.pel
        BY ZenonT(40), <1>0, <1>9, <2>2 DEF EnsureGroup, EnsureConsumerGroup, Cursor, Streams
      <3>2. \A m \in 1..Len(stream.log) : Readable(stream, m) => Readable(stream', m)
        BY ZenonT(40), <3>1 DEF Readable
      <3>3. \A m \in 1..Len(stream.log) : ~Settled(m) => ~Settled(m)'
        BY ZenonT(40), <1>9, <3>2, SettledFrame DEF EnsureGroup
      <3> QED
        BY ZenonT(40), <1>9, <1>r, <2>2, <3>3, ReachableFrame DEF EnsureGroup
    <2> QED
      BY ZenonT(40), <2>1, <2>2
  <1>10. CASE RedisLoss
    BY Zenon, <1>10, <1>b DEF RedisLoss
  <1>11. ASSUME NEW j \in Jobs, RetryDue(j) PROVE ReachableJob(i)'
    <2>1. Live(jobs'[i]) /\ jobs'[i].enqueued => Live(jobs[i]) /\ jobs[i].enqueued
      BY ZenonT(40), <1>0, <1>11 DEF RetryDue, SetRow, JobRows, Live
    <2>2. \A m \in 1..Len(stream.log) : ~Settled(m) => ~Settled(m)'
      BY ZenonT(40), <1>11, <1>s DEF RetryDue
    <2> QED
      BY ZenonT(40), <1>11, <1>r, <2>1, <2>2, ReachableFrame DEF RetryDue
  <1>12. CASE \/ TrimPending \/ TrimInfo \/ EndpointDown \/ EndpointUp \/ RegisterAtStart
              \/ RemoveStreamIfEmpty \/ UNCHANGED vars
    BY ZenonT(40), <1>12, <1>f
    DEF TrimPending, TrimInfo, EndpointDown, EndpointUp, RegisterAtStart, RemoveStreamIfEmpty, vars
  <1> QED
    BY ZenonT(40), <1>1, <1>2, <1>3, <1>4, <1>5, <1>6, <1>7, <1>8, <1>9, <1>10, <1>11, <1>12 DEF Next

LEMMA ReachableInvariance == Spec => []Reachable
  BY InitReachable, NextReachable, TypeInvariance, CursorInvariance, PTL DEF Spec

\* A live job of which nothing happened but its mark is in a stream the workers
\* look at, or a registration is to come or was lost: enqueue_delivery registers
\* after the mark, and the others, before it, an entry that is still there.
SetInv ==
    /\ \A j \in Jobs : Live(jobs[j]) /\ jobs[j].enqueued /\ cause[j] = {} => Announced
    /\ \A p \in Publishers : pub[p].pc = "mark_again" /\ pub[p].msg > stream.trimmed => Announced

LEMMA InitSet == Init => SetInv
  BY DEF Init, SetInv, NoRow, IdlePublisher

\* Deleted entries stay deleted.
LEMMA TrimmedStep ==
    ASSUME TypeInv, Cursor, [Next]_vars
    PROVE  stream'.trimmed \in Nat /\ stream'.trimmed >= stream.trimmed
  <1>0. /\ stream \in Streams(Jobs) /\ Len(stream.log) \in Nat
        /\ stream.trimmed \in Nat /\ stream.last \in Nat
        /\ stream.trimmed <= stream.last /\ stream.last <= Len(stream.log)
    BY Zenon, StreamFields DEF TypeInv, TypeOK, Cursor
  <1>1. CASE RedisLoss
    <2>1. stream'.trimmed = Len(stream.log)
      BY Zenon, <1>0, <1>1 DEF RedisLoss, LoseData, Streams
    <2> QED
      BY <1>0, <2>1
  <1>2. CASE TrimApply
    <2>1. PICK upTo \in TrimTargets(stream, trimmer.cut) : stream' = XTrim(stream, upTo)
      BY Zenon, <1>2 DEF TrimApply
    <2>2. stream'.trimmed = upTo
      BY Zenon, <1>0, <2>1 DEF XTrim, Streams
    <2> QED
      BY <1>0, <2>1, <2>2 DEF TrimTargets, TypeInv, TypeOK
  <1>3. ASSUME ~RedisLoss, ~TrimApply PROVE stream'.trimmed = stream.trimmed
    <2>1. ASSUME NEW p \in Publishers, PublisherStep(p) PROVE stream'.trimmed = stream.trimmed
      BY Zenon, <1>0, <2>1
      DEF PublisherStep, EnqueueOk, EnqueueFails, MarkEnqueued, MarkEnqueuedFails, Register,
          RegisterFails, PublisherCrash, Enqueue, Streams
    <2>2. ASSUME NEW t \in Tasks, TaskStep(t) PROVE stream'.trimmed = stream.trimmed
      BY Zenon, <1>0, <2>2
      DEF TaskStep, FetchJob, FetchNone, FetchFails, Defer, DeferFails, Deliver, RecordAttempt,
          RecordAttemptFails, WriteOutcome, WriteOutcomeFails, Acknowledge, AcknowledgeFails,
          TaskCrash, XAck, Streams
    <2>3. ASSUME NEW t \in Tasks, ReadEntry(t) \/ \E m \in stream.pel : Reclaim(t, m)
          PROVE  stream'.trimmed = stream.trimmed
      BY Zenon, <1>0, <2>3 DEF ReadEntry, XReadGroup, Reclaim, XAutoClaim, Streams
    <2>4. CASE EnsureGroup
      BY Zenon, <1>0, <2>4 DEF EnsureGroup, EnsureConsumerGroup, Streams
    <2> QED
      BY Zenon, <1>3, <2>1, <2>2, <2>3, <2>4
      DEF Next, CreateJob, FireJob, RetryJob, OutboxList, OutboxNext, RetryDue, EndpointDown,
          EndpointUp, TrimPending, TrimInfo, RegisterAtStart, RemoveStreamIfEmpty, vars
  <1> QED
    BY <1>0, <1>1, <1>2, <1>3

\* A call of register_stream leaves the stream listed or its loss on record.
LEMMA RegisterEffect ==
    ASSUME TypeOK, Registered \/ RegistrationLost
    PROVE  Announced'
  <1>1. ASSUME RegistrationLost, listed PROVE listed'
    BY Zenon, <1>1 DEF RegistrationLost
  <1>2. ASSUME RegistrationLost, ~listed PROVE forgotten'
    BY Zenon, <1>2 DEF RegistrationLost
  <1> QED
    BY Zenon, <1>1, <1>2 DEF Registered, Announced

\* Only emptying the stream, or losing it, takes it out of sight: a publisher
\* leaves its call of register_stream registered or lost.
LEMMA StaysAnnounced ==
    ASSUME TypeInv, [Next]_vars, Announced, ~RemoveStreamIfEmpty, ~RedisLoss
    PROVE  Announced'
  <1>0. pub \in [Publishers -> PublisherStates] /\ TypeOK
    BY Zenon DEF TypeInv, TypeOK
  <1>l. ASSUME Registered \/ RegistrationLost PROVE Announced'
    BY Zenon, <1>0, <1>l, RegisterEffect
  <1>f. ASSUME UNCHANGED registry,
               \A q \in Publishers : pub[q].pc \in Registering => pub'[q] = pub[q]
        PROVE  Announced'
    BY Zenon, <1>f DEF registry, Announced
  <1>1. ASSUME NEW p \in Publishers, PublisherStep(p) PROVE Announced'
    <2>1. CASE pub[p].pc \in Registering
      BY Zenon, <1>1, <1>l, <2>1
      DEF PublisherStep, EnqueueOk, EnqueueFails, MarkEnqueued, MarkEnqueuedFails, Register,
          RegisterFails, PublisherCrash, Adding, Marking, Registering
    <2>2. CASE pub[p].pc \notin Registering
      <3>1. ASSUME NEW m, GoOn(p, m) PROVE \A q \in Publishers : q # p => pub'[q] = pub[q]
        BY Zenon, <1>0, <3>1, GoOnEffect
      <3>2. ASSUME pub' = [pub EXCEPT ![p] = IdlePublisher]
            PROVE  \A q \in Publishers : q # p => pub'[q] = pub[q]
        BY Zenon, <1>0, <3>2
      <3>3. UNCHANGED registry /\ \A q \in Publishers : q # p => pub'[q] = pub[q]
        BY Zenon, <1>1, <2>2, <3>1, <3>2
        DEF PublisherStep, EnqueueOk, EnqueueFails, MarkEnqueued, MarkEnqueuedFails, Register,
            RegisterFails, PublisherCrash
      <3> QED
        BY Zenon, <1>f, <2>2, <3>3
    <2> QED
      BY Zenon, <2>1, <2>2
  <1>2. ASSUME NEW c \in Publishers, NEW s, pub[c].pc = "idle", UNCHANGED registry,
               pub' = [pub EXCEPT ![c] = s]
        PROVE  Announced'
    BY Zenon, <1>0, <1>2, <1>f DEF Registering
  <1>3. ASSUME NEW c \in Callers, NEW j \in Jobs, CreateJob(c, j) \/ FireJob(c, j) \/ RetryJob(c, j)
        PROVE  Announced'
    BY Zenon, <1>2, <1>3 DEF CreateJob, FireJob, RetryJob, Publishers
  <1>4. ASSUME NEW o \in Outboxes, NEW j \in Jobs, OutboxNext(o, j) PROVE Announced'
    BY Zenon, <1>2, <1>4 DEF OutboxNext, Publishers
  <1>5. CASE RegisterAtStart
    BY Zenon, <1>5, <1>l DEF RegisterAtStart
  <1>6. ASSUME NEW t \in Tasks, TaskStep(t) PROVE Announced'
    BY Zenon, <1>6, <1>f
    DEF TaskStep, FetchJob, FetchNone, FetchFails, Defer, DeferFails, Deliver, RecordAttempt,
        RecordAttemptFails, WriteOutcome, WriteOutcomeFails, Acknowledge, AcknowledgeFails,
        TaskCrash
  <1>7. ASSUME NEW t \in Tasks, ReadEntry(t) \/ \E m \in stream.pel : Reclaim(t, m)
        PROVE  Announced'
    BY Zenon, <1>7, <1>f DEF ReadEntry, Reclaim
  <1>8. ASSUME NEW o \in Outboxes, OutboxList(o) PROVE Announced'
    BY Zenon, <1>8, <1>f DEF OutboxList
  <1>9. ASSUME NEW j \in Jobs, RetryDue(j) PROVE Announced'
    BY Zenon, <1>9, <1>f DEF RetryDue
  <1>10. CASE \/ TrimPending \/ TrimInfo \/ TrimApply \/ EnsureGroup
              \/ EndpointDown \/ EndpointUp \/ UNCHANGED vars
    BY Zenon, <1>10, <1>f
    DEF TrimPending, TrimInfo, TrimApply, EnsureGroup, EndpointDown, EndpointUp, vars
  <1> QED
    BY Zenon, <1>1, <1>3, <1>4, <1>5, <1>6, <1>7, <1>8, <1>9, <1>10 DEF Next

\* A job of which nothing happened but its mark was so before, unless the step
\* is that mark.
LEMMA BecomesMarked ==
    ASSUME TypeInv, [Next]_vars, NEW i \in Jobs,
           Live(jobs'[i]), jobs'[i].enqueued, cause'[i] = {}
    PROVE  \/ Live(jobs[i]) /\ jobs[i].enqueued /\ cause[i] = {}
           \/ \E p \in Publishers : MarkEnqueued(p) /\ pub[p].job = i
  <1> DEFINE Goal == \/ Live(jobs[i]) /\ jobs[i].enqueued /\ cause[i] = {}
                     \/ \E p \in Publishers : MarkEnqueued(p) /\ pub[p].job = i
  <1> SUFFICES Goal
    OBVIOUS
  <1>0. /\ jobs \in [Jobs -> JobRows] /\ cause \in [Jobs -> SUBSET Causes]
        /\ \A p \in Publishers : pub[p].pc # "idle" => pub[p].job \in Jobs
    BY Zenon DEF TypeInv, TypeOK, Refs
  <1>f. ASSUME jobs'[i] = jobs[i], cause'[i] = cause[i] PROVE Goal
    BY Zenon, <1>f
  <1>b. ASSUME NEW J, NEW why, Blame(J, why), jobs'[i] = jobs[i] PROVE Goal
    BY Zenon, <1>b DEF Blame
  <1> HIDE DEF Goal
  <1>n. ASSUME ~jobs'[i].enqueued PROVE Goal
    BY Zenon, <1>n
  <1>s. ASSUME NEW j \in Jobs, NEW r, SetRow(j, r)
        PROVE  IF i = j THEN jobs'[i] = r ELSE jobs'[i] = jobs[i]
    BY Zenon, <1>0, <1>s DEF SetRow
  <1>c. ASSUME NEW j \in Jobs, Rearmed(j), i # j PROVE cause'[i] = cause[i]
    BY Zenon, <1>0, <1>c DEF Rearmed
  <1>1. ASSUME NEW c \in Callers, NEW j \in Jobs, CreateJob(c, j) \/ FireJob(c, j)
        PROVE  Goal
    <2>1. CreatedRow.enqueued = FALSE
      BY DEF CreatedRow, NoRow
    <2> QED
      BY Zenon, <1>1, <1>f, <1>n, <1>s, <2>1 DEF CreateJob, FireJob
  <1>2. ASSUME NEW c \in Callers, NEW j \in Jobs, RetryJob(c, j) PROVE Goal
    <2>1. ResetForRetry(jobs[j]).enqueued = FALSE
      BY Zenon, <1>0 DEF ResetForRetry, JobRows
    <2> QED
      BY Zenon, <1>2, <1>f, <1>n, <1>s, <1>c, <2>1 DEF RetryJob
  <1>3. ASSUME NEW p \in Publishers, PublisherStep(p) PROVE Goal
    <2>1. CASE MarkEnqueued(p)
      <3>1. CASE i = pub[p].job
        BY Zenon, <2>1, <3>1 DEF Goal
      <3>2. CASE i # pub[p].job
        <4>1. jobs'[i] = jobs[i] /\ cause'[i] = cause[i]
          BY Zenon, <1>0, <2>1, <3>2 DEF MarkEnqueued, SetRow, Blame
        <4> QED
          BY Zenon, <1>f, <4>1
      <3> QED
        BY Zenon, <3>1, <3>2
    <2> QED
      BY Zenon, <1>3, <1>f, <2>1
      DEF PublisherStep, EnqueueOk, EnqueueFails, MarkEnqueuedFails, Register, RegisterFails,
          PublisherCrash
  <1>4. ASSUME NEW t \in Tasks, TaskStep(t) PROVE Goal
    <2>0. task[t].pc # "idle" => TaskJob(t) \in Jobs
      BY Zenon, TaskJobType
    <2>1. CASE Defer(t)
      <3>1. TaskJob(t) \in Jobs
        BY Zenon, <2>0, <2>1 DEF Defer
      <3>2. Deferred(jobs[TaskJob(t)]).enqueued = FALSE
        BY Zenon, <1>0, <3>1 DEF Deferred, JobRows
      <3> QED
        BY Zenon, <2>1, <1>f, <1>n, <1>s, <1>c, <3>1, <3>2 DEF Defer
    <2>2. CASE WriteOutcome(t)
      <3>1. TaskJob(t) \in Jobs
        BY Zenon, <2>0, <2>2 DEF WriteOutcome
      <3>2. CASE i = TaskJob(t)
        <4>1. jobs'[i] = Outcome(t, jobs[i])
          BY Zenon, <1>s, <2>2, <3>1, <3>2 DEF WriteOutcome
        <4>2. ~Live(jobs'[i]) \/ ~jobs'[i].enqueued
          BY <1>0, <4>1 DEF Outcome, Completed, Failed, RetryScheduled, JobRows, Live
        <4> QED
          BY Zenon, <4>2
      <3>3. CASE i # TaskJob(t)
        BY Zenon, <1>c, <1>f, <1>s, <2>2, <3>1, <3>3 DEF WriteOutcome
      <3> QED
        BY Zenon, <3>2, <3>3
    <2> QED
      BY Zenon, <1>4, <1>f, <1>b, <2>1, <2>2
      DEF TaskStep, FetchJob, FetchNone, FetchFails, DeferFails, Deliver, RecordAttempt,
          RecordAttemptFails, WriteOutcomeFails, Acknowledge, AcknowledgeFails, TaskCrash
  <1>5. ASSUME NEW j \in Jobs, RetryDue(j) PROVE Goal
    <2>1. Live(jobs[i]) /\ jobs[i].enqueued
      BY ZenonT(40), <1>0, <1>5 DEF RetryDue, SetRow, JobRows, Live
    <2> QED
      BY Zenon, <1>5, <2>1 DEF RetryDue, Goal
  <1>6. ASSUME NEW t \in Tasks, ReadEntry(t) \/ \E m \in stream.pel : Reclaim(t, m)
        PROVE  Goal
    BY Zenon, <1>6, <1>f DEF ReadEntry, Reclaim
  <1>7. ASSUME NEW o \in Outboxes, OutboxList(o) \/ \E j \in Jobs : OutboxNext(o, j)
        PROVE  Goal
    BY Zenon, <1>7, <1>f DEF OutboxList, OutboxNext
  <1>8. CASE TrimApply \/ EnsureGroup \/ RedisLoss
    BY Zenon, <1>8, <1>f, <1>b DEF TrimApply, EnsureGroup, RedisLoss
  <1>9. CASE \/ TrimPending \/ TrimInfo \/ RegisterAtStart \/ RemoveStreamIfEmpty
             \/ EndpointDown \/ EndpointUp \/ UNCHANGED vars
    BY Zenon, <1>9, <1>f
    DEF TrimPending, TrimInfo, RegisterAtStart, RemoveStreamIfEmpty, EndpointDown, EndpointUp, vars
  <1> QED
    BY Zenon, <1>1, <1>2, <1>3, <1>4, <1>5, <1>6, <1>7, <1>8, <1>9 DEF Next

\* A publisher comes to the mark of a retry through register_stream.
LEMMA BecomesMarking ==
    ASSUME TypeInv, [Next]_vars, NEW p \in Publishers, pub'[p].pc = "mark_again"
    PROVE  pub'[p] = pub[p] \/ Announced'
  <1>0. pub \in [Publishers -> PublisherStates] /\ TypeOK
    BY Zenon DEF TypeInv, TypeOK
  <1>1. ASSUME NEW q \in Publishers, NEW m, GoOn(q, m), pub[q].pc \notin Registering
        PROVE  pub'[p] = pub[p]
    <2>1. CASE p = q
      <3>1. \/ pub'[p] = IdlePublisher
            \/ pub'[p] = [pc |-> After(pub[p].pc), job |-> pub[p].job, msg |-> m]
        BY <1>0, <1>1, <2>1, GoOnEffect
      <3>2. IdlePublisher.pc = "idle" /\ After(pub[p].pc) # "mark_again"
        BY <1>1, <2>1 DEF IdlePublisher, After, Registering
      <3>3. pub'[p].pc # "mark_again"
        BY <3>1, <3>2
      <3> QED
        BY Zenon, <3>3
    <2> QED
      BY Zenon, <1>0, <1>1, <2>1, GoOnEffect
  <1>2. ASSUME NEW q \in Publishers, NEW s, s.pc # "mark_again", pub' = [pub EXCEPT ![q] = s]
        PROVE  pub'[p] = pub[p]
    BY Zenon, <1>0, <1>2
  <1>3. IdlePublisher.pc # "mark_again"
    BY DEF IdlePublisher
  <1>4. ASSUME NEW q \in Publishers, PublisherStep(q) PROVE pub'[p] = pub[p] \/ Announced'
    <2>1. CASE pub[q].pc \in Registering
      BY Zenon, <1>0, <1>4, <2>1, RegisterEffect
      DEF PublisherStep, EnqueueOk, EnqueueFails, MarkEnqueued, MarkEnqueuedFails, Register,
          RegisterFails, PublisherCrash, Adding, Marking, Registering
    <2>2. CASE pub[q].pc \notin Registering
      BY Zenon, <1>1, <1>2, <1>3, <1>4, <2>2
      DEF PublisherStep, EnqueueOk, EnqueueFails, MarkEnqueued, MarkEnqueuedFails, Register,
          RegisterFails, PublisherCrash
    <2> QED
      BY Zenon, <2>1, <2>2
  <1>5. ASSUME NEW q \in Publishers, NEW pc \in Adding, NEW j \in Jobs,
               pub' = [pub EXCEPT ![q] = [pc |-> pc, job |-> j, msg |-> 0]]
        PROVE  pub'[p] = pub[p]
    <2>1. [pc |-> pc, job |-> j, msg |-> 0].pc # "mark_again"
      BY DEF Adding
    <2> QED
      BY Zenon, <1>2, <1>5, <2>1
  <1>6. ASSUME NEW c \in Callers, NEW j \in Jobs, CreateJob(c, j) \/ FireJob(c, j) \/ RetryJob(c, j)
        PROVE  pub'[p] = pub[p]
    BY Zenon, <1>5, <1>6 DEF CreateJob, FireJob, RetryJob, Publishers, Adding
  <1>7. ASSUME NEW o \in Outboxes, NEW j \in Jobs, OutboxNext(o, j) PROVE pub'[p] = pub[p]
    BY Zenon, <1>5, <1>7 DEF OutboxNext, Publishers, Adding
  <1>8. ASSUME NEW t \in Tasks, TaskStep(t) PROVE pub' = pub
    BY Zenon, <1>8
    DEF TaskStep, FetchJob, FetchNone, FetchFails, Defer, DeferFails, Deliver, RecordAttempt,
        RecordAttemptFails, WriteOutcome, WriteOutcomeFails, Acknowledge, AcknowledgeFails,
        TaskCrash
  <1>9. ASSUME NEW t \in Tasks, ReadEntry(t) \/ \E m \in stream.pel : Reclaim(t, m)
        PROVE  pub' = pub
    BY Zenon, <1>9 DEF ReadEntry, Reclaim
  <1> QED
    BY Zenon, <1>4, <1>6, <1>7, <1>8, <1>9
    DEF Next, OutboxList, RetryDue, TrimPending, TrimInfo, TrimApply, EnsureGroup,
        RegisterAtStart, RemoveStreamIfEmpty, RedisLoss, EndpointDown, EndpointUp, vars

LEMMA NextSet == TypeInv /\ Cursor /\ Reachable /\ SetInv /\ [Next]_vars => SetInv'
  <1> SUFFICES ASSUME TypeInv, Cursor, Reachable, SetInv, [Next]_vars PROVE SetInv'
    OBVIOUS
  <1>0. /\ stream \in Streams(Jobs) /\ Len(stream.log) \in Nat /\ stream.trimmed \in Nat
        /\ pub \in [Publishers -> PublisherStates] /\ TypeOK
    BY Zenon, StreamFields DEF TypeInv, TypeOK
  <1>t. stream'.trimmed \in Nat /\ stream'.trimmed >= stream.trimmed
    BY Zenon, TrimmedStep
  <1>1. ASSUME NEW i \in Jobs, Live(jobs'[i]), jobs'[i].enqueued, cause'[i] = {}
        PROVE  Announced'
    <2>1. /\ ~RemoveStreamIfEmpty /\ ~RedisLoss
      <3>1. ReachableJob(i)'
        BY Zenon, NextReachable DEF Reachable
      <3>2. PICK m \in 1..Len(stream'.log) : Readable(stream', m)
        BY Zenon, <1>1, <3>1 DEF ReachableJob, Unsettled, Settled
      <3>3. m > stream'.trimmed
        BY Zenon, <3>2 DEF Readable
      <3>4. ASSUME RemoveStreamIfEmpty PROVE FALSE
        BY <1>0, <3>3, <3>4 DEF RemoveStreamIfEmpty, XLen
      <3>5. ASSUME RedisLoss PROVE FALSE
        <4>1. stream'.trimmed = Len(stream.log) /\ stream'.log = stream.log
          BY Zenon, <1>0, <3>5 DEF RedisLoss, LoseData, Streams
        <4> QED
          BY <1>0, <3>3, <4>1
      <3> QED
        BY Zenon, <3>4, <3>5
    <2>2. CASE Live(jobs[i]) /\ jobs[i].enqueued /\ cause[i] = {}
      BY Zenon, <2>1, <2>2, StaysAnnounced DEF SetInv
    <2>3. ASSUME NEW p \in Publishers, MarkEnqueued(p), pub[p].job = i PROVE Announced'
      <3>1. CASE pub[p].pc = "mark"
        <4>1. pub'[p] = [pc |-> "register", job |-> pub[p].job, msg |-> pub[p].msg]
          <5>1. After("mark") = "register"
            BY AfterType
          <5> QED
            BY <1>0, <2>3, <3>1, <5>1, GoOnEffect DEF MarkEnqueued
        <4>2. pub'[p].pc = "register"
          BY <4>1
        <4> QED
          BY Zenon, <4>2 DEF Announced, Registering
      <3>2. CASE pub[p].pc = "mark_again"
        <4>1. ~Settled(pub[p].msg)
          <5>1. ASSUME Blame({i}, "late_mark") PROVE cause'[i] # {}
            BY Zenon, <5>1 DEF Blame
          <5> QED
            BY Zenon, <1>1, <2>3, <5>1 DEF MarkEnqueued
        <4>2. pub[p].msg > stream.trimmed
          BY Zenon, <4>1 DEF Settled, Readable
        <4> QED
          BY Zenon, <2>1, <3>2, <4>2, StaysAnnounced DEF SetInv
      <3> QED
        BY Zenon, <2>3, <3>1, <3>2 DEF MarkEnqueued, Marking
    <2> QED
      BY Zenon, <1>1, <2>2, <2>3, BecomesMarked
  <1>2. ASSUME NEW p \in Publishers, pub'[p].pc = "mark_again", pub'[p].msg > stream'.trimmed
        PROVE  Announced'
    <2>1. CASE pub'[p] = pub[p]
      <3>1. pub[p].msg \in 1..Len(stream.log)
        BY Zenon, <1>2, <2>1 DEF TypeInv, Refs, HasMsg
      <3>2. pub[p].msg > stream.trimmed
        BY <1>0, <1>t, <1>2, <2>1, <3>1
      <3>3. ~RemoveStreamIfEmpty
        BY <1>0, <3>1, <3>2 DEF RemoveStreamIfEmpty, XLen
      <3>4. ~RedisLoss
        <4>1. RedisLoss => stream'.trimmed = Len(stream.log)
          BY Zenon, <1>0 DEF RedisLoss, LoseData, Streams
        <4> QED
          BY <1>0, <1>2, <2>1, <3>1, <4>1
      <3> QED
        BY Zenon, <1>2, <2>1, <3>2, <3>3, <3>4, StaysAnnounced DEF SetInv
    <2> QED
      BY Zenon, <1>2, <2>1, BecomesMarking
  <1> QED
    BY Zenon, <1>1, <1>2 DEF SetInv

LEMMA SetInvariance == Spec => []SetInv
  BY InitSet, NextSet, TypeInvariance, CursorInvariance, ReachableInvariance, PTL DEF Spec

LEMMA ReachableIsEnough == Reachable /\ SetInv => NoUnexplainedLoss
  BY Zenon, UnsettledIsInStream DEF Reachable, ReachableJob, SetInv, NoUnexplainedLoss

\* At-least-once delivery: between the row, the stream, the set of streams,
\* enqueued_at, the PEL, the outbox, reclaims, trims and removals of an empty
\* stream from the set, a live job leaves the reach of both the outbox and the
\* workers only through one of the seven named events.
THEOREM NoLoss == Spec => []NoUnexplainedLoss
  BY ReachableInvariance, SetInvariance, ReachableIsEnough, PTL

-----------------------------------------------------------------------------
(* Dead-lettering                                                          *)

\* A task that fetched its job decides from an attempt the column has reached.
AttemptInv ==
    /\ \A j \in Jobs : jobs[j].status = "none" => jobs[j].attempt = 0
    /\ \A j \in Jobs : jobs[j].status = "failed" => jobs[j].attempt >= MaxAttempts
    /\ \A t \in Tasks : task[t].pc \in {"guard", "record", "write"} =>
           task[t].attempt <= jobs[TaskJob(t)].attempt

LEMMA InitAttempt == Init => AttemptInv
  BY DEF Init, AttemptInv, NoRow, IdleTask

\* What a step does to a row, as far as AttemptInv is concerned.
RowStep(j) ==
    /\ jobs'[j].attempt >= jobs[j].attempt
    /\ jobs'[j].status = "none" => jobs'[j].attempt = 0
    /\ jobs'[j].status = "failed" => jobs'[j].attempt >= MaxAttempts

LEMMA RowSteps == TypeInv /\ AttemptInv /\ [Next]_vars => \A j \in Jobs : RowStep(j)
  <1> SUFFICES ASSUME TypeInv, AttemptInv, [Next]_vars, NEW i \in Jobs PROVE RowStep(i)
    OBVIOUS
  <1>0. /\ jobs \in [Jobs -> JobRows] /\ task \in [Tasks -> TaskStates]
        /\ jobs[i] \in JobRows /\ jobs[i].attempt \in Nat
        /\ \A p \in Publishers : pub[p].pc # "idle" => pub[p].job \in Jobs
        /\ MaxAttempts \in Nat
    BY ZenonT(40), DeliveryAssumption DEF TypeInv, TypeOK, Refs, JobRows
  <1>f. ASSUME jobs'[i] = jobs[i] PROVE RowStep(i)
    BY <1>0, <1>f DEF RowStep, AttemptInv
  <1>1. ASSUME NEW c \in Callers, NEW j \in Jobs, CreateJob(c, j) \/ FireJob(c, j) PROVE RowStep(i)
    BY <1>0, <1>f, <1>1 DEF CreateJob, FireJob, SetRow, CreatedRow, NoRow, RowStep, AttemptInv
  <1>2. ASSUME NEW c \in Callers, NEW j \in Jobs, RetryJob(c, j) PROVE RowStep(i)
    BY <1>0, <1>f, <1>2 DEF RetryJob, SetRow, ResetForRetry, RowStep, JobRows
  <1>3. ASSUME NEW p \in Publishers, PublisherStep(p) PROVE RowStep(i)
    <2>1. CASE MarkEnqueued(p)
      BY <1>0, <1>f, <2>1 DEF MarkEnqueued, MarkedEnqueued, SetRow, RowStep, JobRows, AttemptInv
    <2> QED
      BY ZenonT(40), <1>3, <1>f, <2>1
      DEF PublisherStep, EnqueueOk, EnqueueFails, MarkEnqueuedFails, Register, RegisterFails,
          PublisherCrash, Adding
  <1>4. ASSUME NEW t \in Tasks, TaskStep(t) PROVE RowStep(i)
    <2>0. task[t].pc # "idle" => TaskJob(t) \in Jobs
      BY Zenon, TaskJobType
    <2>1. CASE Defer(t)
      BY <1>0, <1>f, <2>0, <2>1 DEF Defer, Deferred, SetRow, RowStep, JobRows
    <2>2. CASE WriteOutcome(t)
      <3>1. CASE i = TaskJob(t)
        <4>1. jobs'[i] = Outcome(t, jobs[i])
          BY ZenonT(40), <1>0, <2>2, <3>1 DEF WriteOutcome, SetRow
        <4>2. task[t].attempt \in Nat /\ task[t].attempt <= jobs[i].attempt
          BY ZenonT(40), <1>0, <2>2, <3>1 DEF WriteOutcome, AttemptInv, TaskStates
        <4>3. CASE task[t].ok
          BY <1>0, <4>1, <4>3 DEF Outcome, Completed, RowStep, JobRows
        <4>4. CASE ~task[t].ok /\ task[t].attempt + 1 < MaxAttempts
          BY <1>0, <4>1, <4>4 DEF Outcome, RetryScheduled, RowStep, JobRows
        <4>5. CASE ~task[t].ok /\ ~(task[t].attempt + 1 < MaxAttempts)
          <5>1. jobs'[i].status = "failed" /\ jobs'[i].attempt = jobs[i].attempt + 1
            BY ZenonT(40), <1>0, <4>1, <4>5 DEF Outcome, Failed, JobRows
          <5> QED
            BY <1>0, <4>2, <4>5, <5>1 DEF RowStep
        <4> QED
          BY Zenon, <4>3, <4>4, <4>5
      <3>2. CASE i # TaskJob(t)
        BY ZenonT(40), <1>0, <1>f, <2>2, <3>2 DEF WriteOutcome, SetRow
      <3> QED
        BY Zenon, <3>1, <3>2
    <2> QED
      BY Zenon, <1>4, <1>f, <2>1, <2>2
      DEF TaskStep, FetchJob, FetchNone, FetchFails, DeferFails, Deliver, RecordAttempt,
          RecordAttemptFails, WriteOutcomeFails, Acknowledge, AcknowledgeFails, TaskCrash
  <1>5. ASSUME NEW j \in Jobs, RetryDue(j) PROVE RowStep(i)
    BY SMTT(30), <1>0, <1>f, <1>5 DEF RetryDue, SetRow, RowStep, JobRows, AttemptInv
  <1>6. ASSUME \/ \E o \in Outboxes : OutboxList(o) \/ (\E j \in Jobs : OutboxNext(o, j))
               \/ \E t \in Tasks : ReadEntry(t) \/ (\E m \in stream.pel : Reclaim(t, m))
               \/ TrimPending \/ TrimInfo \/ TrimApply \/ EnsureGroup \/ RedisLoss
               \/ RegisterAtStart \/ RemoveStreamIfEmpty
               \/ EndpointDown \/ EndpointUp \/ UNCHANGED vars
        PROVE  RowStep(i)
    BY Zenon, <1>f, <1>6
    DEF OutboxList, OutboxNext, ReadEntry, Reclaim, TrimPending, TrimInfo, TrimApply, EnsureGroup,
        RedisLoss, RegisterAtStart, RemoveStreamIfEmpty, EndpointDown, EndpointUp, vars
  <1> QED
    BY Zenon, <1>1, <1>2, <1>3, <1>4, <1>5, <1>6 DEF Next

LEMMA NextAttempt == TypeInv /\ AttemptInv /\ [Next]_vars => AttemptInv'
  <1> SUFFICES ASSUME TypeInv, AttemptInv, [Next]_vars PROVE AttemptInv'
    OBVIOUS
  <1>0. /\ task \in [Tasks -> TaskStates] /\ jobs \in [Jobs -> JobRows]
        /\ jobs' \in [Jobs -> JobRows]
    BY ZenonT(40), TypeStep DEF TypeInv, TypeOK
  <1>r. \A j \in Jobs : RowStep(j)
    BY Zenon, RowSteps
  <1> SUFFICES ASSUME NEW u \in Tasks, task'[u].pc \in {"guard", "record", "write"}
               PROVE  task'[u].attempt <= jobs'[stream'.log[task'[u].msg]].attempt
    BY ZenonT(40), <1>r DEF RowStep, AttemptInv, TaskJob
  \* A task that only moves on keeps its entry and the attempt it fetched.
  <1>k. ASSUME task[u].pc \in {"guard", "record", "write"},
               task'[u].msg = task[u].msg, task'[u].attempt = task[u].attempt
        PROVE  task'[u].attempt <= jobs'[stream'.log[task'[u].msg]].attempt
    <2>1. TaskJob(u) \in Jobs /\ task[u].msg \in 1..Len(stream.log)
      BY Zenon, <1>k, TaskJobType
    <2>2. stream'.log[task'[u].msg] = TaskJob(u)
      BY <1>k, <2>1, LogStep DEF TaskJob
    <2>3. /\ task[u].attempt \in Nat /\ jobs[TaskJob(u)].attempt \in Nat
          /\ jobs'[TaskJob(u)].attempt \in Nat
      BY Zenon, <1>0, <2>1 DEF TaskStates, JobRows
    <2> QED
      BY <1>k, <1>r, <2>1, <2>2, <2>3 DEF AttemptInv, RowStep
  <1>1. ASSUME NEW t \in Tasks, TaskStep(t)
        PROVE  task'[u].attempt <= jobs'[stream'.log[task'[u].msg]].attempt
    <2>1. CASE u # t
      <3>1. task'[u] = task[u]
        BY ZenonT(40), <1>0, <1>1, <2>1
        DEF TaskStep, FetchJob, FetchNone, FetchFails, Defer, DeferFails, Deliver, RecordAttempt,
            RecordAttemptFails, WriteOutcome, WriteOutcomeFails, Acknowledge, AcknowledgeFails,
            TaskCrash, Goto, Finish
      <3> QED
        BY ZenonT(40), <1>k, <3>1
    <2>2. CASE u = t /\ FetchJob(t)
      <3>1. TaskJob(t) \in Jobs
        BY Zenon, <2>2, TaskJobType DEF FetchJob
      <3>2. /\ task'[t].attempt = jobs[TaskJob(t)].attempt /\ task'[t].msg = task[t].msg
            /\ jobs' = jobs /\ stream' = stream
        BY ZenonT(40), <1>0, <2>2 DEF FetchJob, TaskStates
      <3> QED
        BY <1>0, <2>2, <3>1, <3>2 DEF TaskJob, JobRows
    <2>3. CASE u = t /\ \E ok \in BOOLEAN : Deliver(t, ok)
      BY <1>0, <1>k, <2>3 DEF Deliver, TaskStates
    <2>4. CASE u = t /\ (RecordAttempt(t) \/ RecordAttemptFails(t))
      BY ZenonT(40), <1>0, <1>k, <2>4 DEF RecordAttempt, RecordAttemptFails, Goto, TaskStates
    <2>5. ASSUME u = t, Goto(t, "ack") \/ Finish(t) PROVE FALSE
      <3>1. CASE Goto(t, "ack")
        BY ZenonT(40), <1>0, <2>5, <3>1 DEF Goto, TaskStates
      <3>2. CASE Finish(t)
        BY ZenonT(40), <1>0, <2>5, <3>2 DEF Finish, IdleTask, TaskStates
      <3> QED
        BY Zenon, <2>5, <3>1, <3>2
    <2> QED
      BY Zenon, <1>1, <2>1, <2>2, <2>3, <2>4, <2>5
      DEF TaskStep, FetchNone, FetchFails, Defer, DeferFails, WriteOutcome, WriteOutcomeFails,
          Acknowledge, AcknowledgeFails, TaskCrash
  <1>2. ASSUME NEW t \in Tasks, ReadEntry(t) \/ \E m \in stream.pel : Reclaim(t, m)
        PROVE  task'[u] = task[u]
    BY ZenonT(40), <1>0, <1>2 DEF ReadEntry, Reclaim, Started, IdleTask
  <1> QED
    BY ZenonT(40), <1>1, <1>2, <1>k
    DEF Next, vars, CreateJob, FireJob, RetryJob, OutboxList, OutboxNext, PublisherStep, EnqueueOk,
        EnqueueFails, MarkEnqueued, MarkEnqueuedFails, Register, RegisterFails, PublisherCrash,
        TrimPending, TrimInfo, TrimApply, EnsureGroup, RegisterAtStart,
        RemoveStreamIfEmpty, RedisLoss, RetryDue, EndpointDown, EndpointUp

\* No job is dead-lettered before max_attempts outcomes were recorded, however
\* stale the attempt was that an execution decided from.
THEOREM NoEarlyDeadLetter == Spec => []DeadLetterAfterMaxAttempts
  <1>1. Spec => []AttemptInv
    BY InitAttempt, NextAttempt, TypeInvariance, PTL DEF Spec
  <1>2. AttemptInv => DeadLetterAfterMaxAttempts
    BY Zenon DEF AttemptInv, DeadLetterAfterMaxAttempts
  <1> QED
    BY <1>1, <1>2, PTL

-----------------------------------------------------------------------------
(* The PEL                                                                 *)

LEMMA InitPel == Init => PelOnlyForRecovery
  BY DEF Init, PelOnlyForRecovery, EmptyStream

\* The events PelOnlyForRecovery makes an exception for.
Faults == spent["crash"] + spent["redis"] + spent["db"]

LEMMA FaultsGrow ==
    ASSUME TypeInv, NEW k \in Kinds, Spend(k)
    PROVE  Faults' = 0 => Faults = 0 /\ k \notin {"crash", "redis", "db"}
  BY SMTT(30) DEF TypeInv, TypeOK, Spend, Faults, Kinds

LEMMA NextPel == TypeInv /\ PelOnlyForRecovery /\ [Next]_vars => PelOnlyForRecovery'
  <1> SUFFICES ASSUME TypeInv, PelOnlyForRecovery, [Next]_vars, Faults' = 0
               PROVE  \A m \in stream'.pel : \E u \in Tasks : task'[u].pc # "idle" /\ task'[u].msg = m
    BY Zenon DEF PelOnlyForRecovery, Faults, Held
  <1> DEFINE Kept == \A m \in stream'.pel : \E u \in Tasks : task'[u].pc # "idle" /\ task'[u].msg = m
  <1>0. /\ stream \in Streams(Jobs) /\ task \in [Tasks -> TaskStates]
        /\ "crash" \in Kinds /\ "redis" \in Kinds /\ "db" \in Kinds /\ "loss" \in Kinds
        /\ "endpoint" \in Kinds /\ "defer" \in Kinds /\ "slow" \in Kinds /\ "retry" \in Kinds
        /\ "trim" \in Kinds
    BY Zenon DEF TypeInv, TypeOK, Kinds
  \* Before the step every pending entry was held, since no fault had happened.
  <1>h. ASSUME Faults = 0
        PROVE  \A m \in stream.pel : \E u \in Tasks : task[u].pc # "idle" /\ task[u].msg = m
    BY ZenonT(40), <1>h DEF PelOnlyForRecovery, Faults, Held
  <1>s. ASSUME NEW k \in Kinds, Spend(k) PROVE Faults = 0 /\ k \notin {"crash", "redis", "db"}
    BY ZenonT(40), <1>s, FaultsGrow
  <1>z. ASSUME UNCHANGED spent PROVE Faults = 0
    BY ZenonT(40), <1>z DEF Faults
  <1>f. ASSUME Faults = 0, stream'.pel \subseteq stream.pel, UNCHANGED task PROVE Kept
    BY ZenonT(40), <1>f, <1>h
  <1>1. ASSUME NEW c \in Callers, NEW j \in Jobs, CreateJob(c, j) \/ FireJob(c, j) \/ RetryJob(c, j)
        PROVE  Kept
    BY ZenonT(40), <1>0, <1>1, <1>f, <1>s, <1>z DEF CreateJob, FireJob, RetryJob
  <1>2. ASSUME NEW o \in Outboxes, OutboxList(o) \/ \E j \in Jobs : OutboxNext(o, j) PROVE Kept
    BY ZenonT(40), <1>2, <1>f, <1>z DEF OutboxList, OutboxNext
  <1>3. ASSUME NEW p \in Publishers, PublisherStep(p) PROVE Kept
    <2>1. CASE EnqueueOk(p)
      BY ZenonT(40), <1>0, <1>f, <1>z, <2>1 DEF EnqueueOk, Enqueue, Streams
    <2>2. CASE MarkEnqueued(p) \/ Register(p)
      BY ZenonT(40), <1>f, <1>z, <2>2 DEF MarkEnqueued, Register
    <2> QED
      BY ZenonT(40), <1>0, <1>3, <1>s, <2>1, <2>2
      DEF PublisherStep, EnqueueFails, MarkEnqueuedFails, RegisterFails, PublisherCrash
  <1>4. ASSUME NEW t \in Tasks, ReadEntry(t) PROVE Kept
    <2>1. stream'.pel = stream.pel \cup {stream.last + 1} /\ Faults = 0
      BY Zenon, <1>0, <1>4, <1>z DEF ReadEntry, XReadGroup, Streams
    <2>2. /\ task[t].pc = "idle" /\ task'[t].pc # "idle" /\ task'[t].msg = stream.last + 1
          /\ \A u \in Tasks : u # t => task'[u] = task[u]
      BY ZenonT(40), <1>0, <1>4 DEF ReadEntry, Started, IdleTask
    <2> QED
      BY <1>h, <2>1, <2>2
  <1>5. ASSUME NEW t \in Tasks, NEW n \in stream.pel, Reclaim(t, n) PROVE Kept
    <2>1. stream'.pel \subseteq stream.pel /\ Faults = 0
      BY ZenonT(40), <1>0, <1>5, <1>s, <1>z DEF Reclaim, XAutoClaim, Claimable, Streams
    <2>2. task[t].pc = "idle" /\ \A u \in Tasks : u # t => task'[u] = task[u]
      BY ZenonT(40), <1>0, <1>5 DEF Reclaim
    <2> QED
      BY ZenonT(40), <1>h, <2>1, <2>2
  <1>6. ASSUME NEW t \in Tasks, TaskStep(t) PROVE Kept
    <2>1. ASSUME Faults = 0, UNCHANGED stream,
                 \A u \in Tasks : task[u].pc # "idle" => task'[u].pc # "idle" /\ task'[u].msg = task[u].msg
          PROVE  Kept
      BY ZenonT(40), <1>h, <2>1
    <2>2. CASE FetchJob(t)
      BY ZenonT(40), <1>0, <1>z, <2>1, <2>2 DEF FetchJob, TaskStates
    <2>3. ASSUME Goto(t, "ack") \/ Goto(t, "write")
          PROVE  \A u \in Tasks : task[u].pc # "idle" => task'[u].pc # "idle" /\ task'[u].msg = task[u].msg
      BY <1>0, <2>3 DEF Goto, TaskStates
    <2>4. CASE FetchNone(t) \/ RecordAttempt(t) \/ WriteOutcome(t)
      BY ZenonT(40), <1>z, <2>1, <2>3, <2>4 DEF FetchNone, RecordAttempt, WriteOutcome
    <2>5. CASE Defer(t)
      BY ZenonT(40), <1>0, <1>s, <2>1, <2>3, <2>5 DEF Defer
    <2>6. CASE \E ok \in BOOLEAN : Deliver(t, ok)
      BY <1>0, <1>z, <2>1, <2>6 DEF Deliver, TaskStates
    <2>7. CASE Acknowledge(t)
      <3>1. stream'.pel = stream.pel \ {task[t].msg} /\ Faults = 0
        BY ZenonT(40), <1>0, <1>z, <2>7 DEF Acknowledge, XAck, Streams
      <3>2. \A u \in Tasks : u # t => task'[u] = task[u]
        BY ZenonT(40), <1>0, <2>7 DEF Acknowledge, Finish
      <3> QED
        BY Zenon, <1>h, <3>1, <3>2
    <2> QED
      BY ZenonT(40), <1>0, <1>6, <1>s, <2>2, <2>4, <2>5, <2>6, <2>7
      DEF TaskStep, FetchFails, DeferFails, RecordAttemptFails, WriteOutcomeFails, AcknowledgeFails,
          TaskCrash
  <1>7. CASE TrimPending \/ TrimInfo
    BY ZenonT(40), <1>0, <1>7, <1>f, <1>s, <1>z DEF TrimPending, TrimInfo
  <1>8. CASE TrimApply
    BY ZenonT(40), <1>0, <1>8, <1>f, <1>z DEF TrimApply, XTrim, Streams
  <1>9. CASE EnsureGroup \/ RedisLoss
    BY Zenon, <1>0, <1>9 DEF EnsureGroup, EnsureConsumerGroup, RedisLoss, LoseData, Streams
  <1>10. CASE \/ \E j \in Jobs : RetryDue(j)
              \/ EndpointUp \/ RegisterAtStart \/ RemoveStreamIfEmpty \/ UNCHANGED vars
    BY Zenon, <1>10, <1>f, <1>z DEF RetryDue, EndpointUp, RegisterAtStart, RemoveStreamIfEmpty, vars
  <1>11. CASE EndpointDown
    BY ZenonT(40), <1>0, <1>11, <1>f, <1>s DEF EndpointDown
  <1> QED
    BY Zenon, <1>1, <1>2, <1>3, <1>4, <1>5, <1>6, <1>7, <1>8, <1>9, <1>10, <1>11 DEF Next

\* Every path of process_one ends in XACK: an entry without a running task is
\* the trace of a crash or of a failed call, never of normal processing.
THEOREM PelIsForRecovery == Spec => []PelOnlyForRecovery
  BY InitPel, NextPel, TypeInvariance, PTL DEF Spec

-----------------------------------------------------------------------------
(* Outcomes and the attempts logged for them                               *)

\* The tasks that have logged an attempt and not yet written what it means.
Writing(j) == {t \in Tasks : task[t].pc = "write" /\ TaskJob(t) = j}

\* Every outcome written, and every one about to be, has a row of its own.
LoggedOf(j) ==
    /\ IsFiniteSet(Writing(j))
    /\ spent["db"] = 0 =>
          /\ jobs[j].attempt + Cardinality(Writing(j)) <= rows[j].ok + rows[j].bad
          /\ jobs[j].status = "success" \/ (\E t \in Writing(j) : task[t].ok) => rows[j].ok > 0
LoggedInv == \A j \in Jobs : LoggedOf(j)

LEMMA InitLogged == Init => LoggedInv
  <1> SUFFICES ASSUME Init, NEW j \in Jobs PROVE LoggedOf(j)
    BY ZenonT(40) DEF LoggedInv
  <1>1. jobs[j].attempt = 0 /\ jobs[j].status # "success" /\ rows[j].ok = 0 /\ rows[j].bad = 0
    BY Zenon DEF Init, NoRow
  <1>2. Writing(j) = {}
    BY ZenonT(40) DEF Init, Writing, IdleTask
  <1>3. IsFiniteSet(Writing(j)) /\ Cardinality(Writing(j)) = 0
    BY Zenon, <1>2, FS_EmptySet
  <1> QED
    BY <1>1, <1>2, <1>3 DEF LoggedOf

\* A task that is about to write was so before, or logs its attempt.
LEMMA Writers ==
    ASSUME TypeInv, [Next]_vars, NEW u \in Tasks, task'[u].pc = "write"
    PROVE  \/ task'[u] = task[u]
           \/ /\ RecordAttempt(u) \/ RecordAttemptFails(u)
              /\ task'[u].msg = task[u].msg /\ task'[u].ok = task[u].ok
  <1> DEFINE Goal == \/ task'[u] = task[u]
                     \/ /\ RecordAttempt(u) \/ RecordAttemptFails(u)
                        /\ task'[u].msg = task[u].msg /\ task'[u].ok = task[u].ok
  <1>0. task \in [Tasks -> TaskStates]
    BY Zenon DEF TypeInv, TypeOK
  <1>1. ASSUME NEW t \in Tasks, TaskStep(t) PROVE Goal
    <2>1. CASE u # t
      BY ZenonT(40), <1>0, <1>1, <2>1
      DEF TaskStep, FetchJob, FetchNone, FetchFails, Defer, DeferFails, Deliver, RecordAttempt,
          RecordAttemptFails, WriteOutcome, WriteOutcomeFails, Acknowledge, AcknowledgeFails,
          TaskCrash, Goto, Finish
    <2>2. CASE u = t /\ (RecordAttempt(t) \/ RecordAttemptFails(t))
      BY ZenonT(40), <1>0, <2>2 DEF RecordAttempt, RecordAttemptFails, Goto, TaskStates
    <2>3. ASSUME u = t, \/ Goto(t, "ack") \/ Finish(t) \/ FetchJob(t)
                        \/ \E ok \in BOOLEAN : Deliver(t, ok)
          PROVE FALSE
      BY <1>0, <2>3 DEF Goto, Finish, IdleTask, FetchJob, Deliver, TaskStates
    <2> QED
      BY Zenon, <1>1, <2>1, <2>2, <2>3
      DEF TaskStep, FetchNone, FetchFails, Defer, DeferFails, WriteOutcome, WriteOutcomeFails,
          Acknowledge, AcknowledgeFails, TaskCrash
  <1>2. ASSUME NEW t \in Tasks, ReadEntry(t) \/ \E m \in stream.pel : Reclaim(t, m) PROVE Goal
    <2>1. PICK m : task' = [task EXCEPT ![t] = Started(m)]
      BY Zenon, <1>2 DEF ReadEntry, Reclaim
    <2>2. Started(m).pc = "fetch"
      BY Zenon DEF Started, IdleTask
    <2> QED
      BY Zenon, <1>0, <2>1, <2>2
  <1>3. ASSUME task' = task PROVE Goal
    BY Zenon, <1>3
  <1> QED
    BY ZenonT(40), <1>1, <1>2, <1>3
    DEF Next, vars, CreateJob, FireJob, RetryJob, OutboxList, OutboxNext, PublisherStep, EnqueueOk,
        EnqueueFails, MarkEnqueued, MarkEnqueuedFails, Register, RegisterFails, PublisherCrash,
        TrimPending, TrimInfo, TrimApply, EnsureGroup, RegisterAtStart,
        RemoveStreamIfEmpty, RedisLoss, RetryDue, EndpointDown, EndpointUp

\* What a step does to the tasks that are about to write, for any job.
LEMMA WritingStep ==
    ASSUME TypeInv, [Next]_vars, NEW i \in Jobs, NEW u \in Writing(i)'
    PROVE  \/ u \in Writing(i) /\ task'[u].ok = task[u].ok
           \/ /\ RecordAttempt(u) \/ RecordAttemptFails(u)
              /\ TaskJob(u) = i /\ task'[u].ok = task[u].ok
  <1>1. u \in Tasks /\ task'[u].pc = "write" /\ TaskJob(u)' = i
    BY Zenon DEF Writing
  <1>2. task[u].pc # "idle" /\ task'[u].msg = task[u].msg /\ task'[u].ok = task[u].ok
    BY ZenonT(40), <1>1, Writers DEF RecordAttempt, RecordAttemptFails
  <1>3. task[u].msg \in 1..Len(stream.log)
    BY Zenon, <1>1, <1>2, TaskJobType
  <1>4. stream'.log[task[u].msg] = stream.log[task[u].msg]
    BY Zenon, <1>3, LogStep
  <1>5. TaskJob(u) = i
    BY Zenon, <1>1, <1>2, <1>4 DEF TaskJob
  <1> QED
    BY Zenon, <1>1, <1>2, <1>5, Writers DEF Writing

\* A row keeps its attempt and gains no success, but by the outcome of a task.
RowKept(i) ==
    jobs'[i].attempt = jobs[i].attempt /\ (jobs'[i].status = "success" => jobs[i].status = "success")

LEMMA RowEffect ==
    ASSUME TypeInv, AttemptInv, [Next]_vars, NEW i \in Jobs
    PROVE  RowKept(i) \/ \E t \in Tasks : WriteOutcome(t) /\ TaskJob(t) = i
  <1>0. /\ jobs \in [Jobs -> JobRows] /\ jobs[i] \in JobRows
        /\ \A p \in Publishers : pub[p].pc # "idle" => pub[p].job \in Jobs
    BY Zenon DEF TypeInv, TypeOK, Refs
  <1>f. ASSUME jobs'[i] = jobs[i] PROVE RowKept(i)
    BY Zenon, <1>f DEF RowKept
  \* The row that is set is another job's, or this one's.
  <1>s. ASSUME NEW j \in Jobs, NEW r, SetRow(j, r) PROVE jobs'[i] = IF i = j THEN r ELSE jobs[i]
    BY Zenon, <1>0, <1>s DEF SetRow
  <1>1. ASSUME NEW c \in Callers, NEW j \in Jobs, CreateJob(c, j) \/ FireJob(c, j) PROVE RowKept(i)
    <2>1. jobs'[i] = (IF i = j THEN CreatedRow ELSE jobs[i]) /\ jobs[j].status = "none"
      BY Zenon, <1>1, <1>s DEF CreateJob, FireJob
    <2>2. CreatedRow.attempt = 0 /\ CreatedRow.status = "pending"
      BY Zenon DEF CreatedRow, NoRow
    <2>3. jobs[j].attempt = 0
      BY Zenon, <2>1 DEF AttemptInv
    <2> QED
      BY ZenonT(40), <1>f, <2>1, <2>2, <2>3 DEF RowKept
  <1>2. ASSUME NEW r \in JobRows
        PROVE  \A x \in {ResetForRetry(r), MarkedEnqueued(r), Deferred(r), [r EXCEPT !.due = TRUE]} :
                   x.attempt = r.attempt /\ (x.status = "success" => r.status = "success")
    <2>1. ResetForRetry(r).attempt = r.attempt /\ ResetForRetry(r).status # "success"
      BY Zenon DEF ResetForRetry, JobRows
    <2>2. MarkedEnqueued(r).attempt = r.attempt /\ MarkedEnqueued(r).status = r.status
      BY Zenon DEF MarkedEnqueued, JobRows
    <2>3. Deferred(r).attempt = r.attempt /\ Deferred(r).status # "success"
      BY Zenon DEF Deferred, JobRows
    <2>4. [r EXCEPT !.due = TRUE].attempt = r.attempt /\ [r EXCEPT !.due = TRUE].status = r.status
      BY Zenon DEF JobRows
    <2> QED
      BY Zenon, <2>1, <2>2, <2>3, <2>4
  <1>k. ASSUME NEW j \in Jobs,
               \/ SetRow(j, ResetForRetry(jobs[j])) \/ SetRow(j, MarkedEnqueued(jobs[j]))
               \/ SetRow(j, Deferred(jobs[j])) \/ SetRow(j, [jobs[j] EXCEPT !.due = TRUE])
        PROVE  RowKept(i)
    <2>1. CASE i = j
      <3>1. jobs'[i] \in {ResetForRetry(jobs[i]), MarkedEnqueued(jobs[i]), Deferred(jobs[i]), [jobs[i] EXCEPT !.due = TRUE]}
        BY Zenon, <1>k, <1>s, <2>1
      <3> QED
        BY Zenon, <1>0, <1>2, <3>1 DEF RowKept
    <2>2. CASE i # j
      BY Zenon, <1>f, <1>k, <1>s, <2>2
    <2> QED
      BY Zenon, <2>1, <2>2
  <1>3. ASSUME NEW c \in Callers, NEW j \in Jobs, RetryJob(c, j) PROVE RowKept(i)
    BY Zenon, <1>3, <1>k DEF RetryJob
  <1>4. ASSUME NEW p \in Publishers, PublisherStep(p) PROVE RowKept(i)
    <2>1. CASE MarkEnqueued(p)
      <3>1. pub[p].job \in Jobs
        BY ZenonT(40), <1>0, <2>1 DEF MarkEnqueued, Marking
      <3> QED
        BY Zenon, <1>k, <2>1, <3>1 DEF MarkEnqueued
    <2> QED
      BY Zenon, <1>4, <1>f, <2>1
      DEF PublisherStep, EnqueueOk, EnqueueFails, MarkEnqueuedFails, Register, RegisterFails,
          PublisherCrash, Adding
  <1>5. ASSUME NEW t \in Tasks, TaskStep(t)
        PROVE  RowKept(i) \/ (WriteOutcome(t) /\ TaskJob(t) = i)
    <2>1. task[t].pc # "idle" => TaskJob(t) \in Jobs
      BY TaskJobType
    <2>2. CASE Defer(t)
      <3>1. TaskJob(t) \in Jobs
        BY ZenonT(40), <2>1, <2>2 DEF Defer
      <3> QED
        BY Zenon, <1>k, <2>2, <3>1 DEF Defer
    <2>3. CASE WriteOutcome(t)
      <3>1. TaskJob(t) \in Jobs
        BY ZenonT(40), <2>1, <2>3 DEF WriteOutcome
      <3> QED
        BY Zenon, <1>f, <1>s, <2>3, <3>1 DEF WriteOutcome
    <2> QED
      BY Zenon, <1>5, <1>f, <2>2, <2>3
      DEF TaskStep, FetchJob, FetchNone, FetchFails, DeferFails, Deliver, RecordAttempt,
          RecordAttemptFails, WriteOutcomeFails, Acknowledge, AcknowledgeFails, TaskCrash
  <1>6. ASSUME NEW j \in Jobs, RetryDue(j) PROVE RowKept(i)
    BY Zenon, <1>6, <1>k DEF RetryDue
  <1>7. ASSUME \/ \E o \in Outboxes : OutboxList(o) \/ (\E j \in Jobs : OutboxNext(o, j))
               \/ \E t \in Tasks : ReadEntry(t) \/ (\E m \in stream.pel : Reclaim(t, m))
               \/ TrimPending \/ TrimInfo \/ TrimApply \/ EnsureGroup \/ RedisLoss
               \/ RegisterAtStart \/ RemoveStreamIfEmpty
               \/ EndpointDown \/ EndpointUp \/ UNCHANGED vars
        PROVE  RowKept(i)
    BY Zenon, <1>f, <1>7
    DEF OutboxList, OutboxNext, ReadEntry, Reclaim, TrimPending, TrimInfo, TrimApply, EnsureGroup,
        RedisLoss, RegisterAtStart, RemoveStreamIfEmpty, EndpointDown, EndpointUp, vars
  <1> QED
    BY Zenon, <1>1, <1>3, <1>4, <1>5, <1>6, <1>7 DEF Next

\* Attempts are logged by insert_attempt alone, and a failed statement is not
\* forgotten.
LEMMA LogEffect ==
    ASSUME TypeInv, [Next]_vars
    PROVE  /\ rows' = rows \/ \E t \in Tasks : RecordAttempt(t)
           /\ spent'["db"] = 0 => spent["db"] = 0 /\ \A t \in Tasks : ~RecordAttemptFails(t)
  <1>1. rows' = rows \/ \E t \in Tasks : RecordAttempt(t)
    BY Zenon
    DEF Next, vars, CreateJob, FireJob, RetryJob, OutboxList, OutboxNext, PublisherStep, EnqueueOk,
        EnqueueFails, MarkEnqueued, MarkEnqueuedFails, Register, RegisterFails, PublisherCrash,
        TrimPending, TrimInfo, TrimApply, EnsureGroup, RegisterAtStart,
        RemoveStreamIfEmpty, RedisLoss, RetryDue, EndpointDown, EndpointUp, ReadEntry, Reclaim,
        TaskStep, FetchJob, FetchNone, FetchFails, Defer, DeferFails, Deliver, RecordAttemptFails,
        WriteOutcome, WriteOutcomeFails, Acknowledge, AcknowledgeFails, TaskCrash
  <1>2. {"crash", "redis", "db", "loss", "endpoint", "defer", "slow", "retry", "trim"} \subseteq Kinds
    BY ZenonT(40) DEF Kinds
  <1>3. spent' = spent \/ \E k \in Kinds : Spend(k)
    <2>1. /\ "crash" \in Kinds /\ "redis" \in Kinds /\ "db" \in Kinds /\ "loss" \in Kinds
          /\ "endpoint" \in Kinds /\ "defer" \in Kinds /\ "slow" \in Kinds /\ "retry" \in Kinds /\ "trim" \in Kinds
      BY Zenon, <1>2
    <2> QED
      BY ZenonT(40), <2>1
      DEF Next, vars, CreateJob, FireJob, RetryJob, OutboxList, OutboxNext, PublisherStep, EnqueueOk,
          EnqueueFails, MarkEnqueued, MarkEnqueuedFails, Register, RegisterFails, PublisherCrash,
        TrimPending, TrimInfo, TrimApply, EnsureGroup, RegisterAtStart,
        RemoveStreamIfEmpty, RedisLoss, RetryDue, EndpointDown, EndpointUp, ReadEntry, Reclaim,
          TaskStep, FetchJob, FetchNone, FetchFails, Defer, DeferFails, Deliver, RecordAttempt, RecordAttemptFails,
          WriteOutcome, WriteOutcomeFails, Acknowledge, AcknowledgeFails, TaskCrash
  <1>4. ASSUME NEW k \in Kinds, Spend(k) PROVE spent'["db"] = 0 => spent["db"] = 0 /\ k # "db"
    BY <1>4 DEF TypeInv, TypeOK, Spend, Kinds
  <1>5. ASSUME NEW t \in Tasks, RecordAttemptFails(t) PROVE Spend("db") /\ "db" \in Kinds
    BY Zenon, <1>2, <1>5 DEF RecordAttemptFails
  <1> QED
    BY ZenonT(40), <1>1, <1>3, <1>4, <1>5

LEMMA NextLogged ==
    ASSUME TypeInv, AttemptInv, LoggedInv, [Next]_vars
    PROVE  LoggedInv'
  <1> SUFFICES ASSUME NEW i \in Jobs PROVE LoggedOf(i)'
    BY Zenon DEF LoggedInv
  <1>0. /\ jobs[i] \in JobRows /\ rows \in [Jobs -> [ok: Nat, bad: Nat]] /\ rows[i] \in [ok: Nat, bad: Nat]
        /\ IsFiniteSet(Writing(i)) /\ LoggedOf(i)
    BY Zenon DEF TypeInv, TypeOK, LoggedInv, LoggedOf
  <1>1. /\ jobs[i].attempt \in Nat /\ rows[i].ok \in Nat /\ rows[i].bad \in Nat
        /\ Cardinality(Writing(i)) \in Nat
    <2>1. Cardinality(Writing(i)) \in Nat
      BY Zenon, <1>0, FS_CardinalityType
    <2> QED
      BY ZenonT(40), <1>0, <2>1 DEF JobRows
  <1>2. \/ Writing(i)' \subseteq Writing(i)
        \/ \E t \in Tasks : /\ RecordAttempt(t) \/ RecordAttemptFails(t)
                            /\ TaskJob(t) = i /\ Writing(i)' \subseteq Writing(i) \cup {t}
    <2>1. ASSUME NEW u \in Writing(i)', u \notin Writing(i)
          PROVE  \E t \in Tasks : /\ RecordAttempt(t) \/ RecordAttemptFails(t)
                                  /\ TaskJob(t) = i /\ Writing(i)' \subseteq Writing(i) \cup {t}
      <3>1. (RecordAttempt(u) \/ RecordAttemptFails(u)) /\ TaskJob(u) = i /\ u \in Tasks
        BY Zenon, <2>1, WritingStep DEF Writing
      <3>2. ASSUME NEW v \in Writing(i)', v # u PROVE v \in Writing(i)
        <4>1. v \in Tasks /\ task'[v] = task[v]
          BY Zenon, <3>1, <3>2 DEF RecordAttempt, RecordAttemptFails, Goto, Writing, TypeInv, TypeOK
        <4>2. task[v].pc = "write"
          BY Zenon, <3>2, <4>1 DEF Writing
        <4>3. ~RecordAttempt(v) /\ ~RecordAttemptFails(v)
          BY ZenonT(40), <4>2 DEF RecordAttempt, RecordAttemptFails
        <4> QED
          BY Zenon, <3>2, <4>3, WritingStep
      <3> QED
        BY Zenon, <3>1, <3>2
    <2> QED
      BY Zenon, <2>1
  <1>3. IsFiniteSet(Writing(i)')
    BY Zenon, <1>0, <1>2, FS_Subset, FS_AddElement
  <1>4. Cardinality(Writing(i)') \in Nat
    BY Zenon, <1>3, FS_CardinalityType
  <1> SUFFICES ASSUME spent'["db"] = 0
               PROVE  /\ jobs'[i].attempt + Cardinality(Writing(i)') <= rows'[i].ok + rows'[i].bad
                      /\ jobs'[i].status = "success" \/ (\E t \in Writing(i)' : task'[t].ok) => rows'[i].ok > 0
    BY Zenon, <1>3 DEF LoggedOf
  <1>5. /\ jobs[i].attempt + Cardinality(Writing(i)) <= rows[i].ok + rows[i].bad
        /\ jobs[i].status = "success" \/ (\E t \in Writing(i) : task[t].ok) => rows[i].ok > 0
        /\ \A t \in Tasks : ~RecordAttemptFails(t)
    BY Zenon, <1>0, LogEffect DEF LoggedOf
  <1>6. CASE \E t \in Tasks : RecordAttempt(t)
    <2>1. PICK t \in Tasks : RecordAttempt(t)
      BY Zenon, <1>6
    <2>2. PICK j \in Jobs : j = TaskJob(t)
      <3>1. task[t].pc # "idle"
        BY Zenon, <2>1 DEF RecordAttempt
      <3> QED
        BY Zenon, <3>1, TaskJobType
    <2>3. jobs' = jobs /\ task[t].pc = "record"
      BY Zenon, <2>1 DEF RecordAttempt
    <2>4. \A u \in Tasks : RecordAttempt(u) => u = t
      <3>1. ASSUME NEW u \in Tasks, u # t, RecordAttempt(u) PROVE FALSE
        <4>1. task'[t] = task[t] /\ task'[t].pc = "write"
          BY <2>1, <3>1 DEF RecordAttempt, Goto, TypeInv, TypeOK, TaskStates
        <4> QED
          BY ZenonT(40), <2>3, <4>1
      <3> QED
        BY Zenon, <3>1
    <2>5. CASE j # i
      <3>1. rows'[i] = rows[i]
        BY Zenon, <1>0, <2>1, <2>2, <2>5 DEF RecordAttempt
      <3>2. Writing(i)' \subseteq Writing(i)
        BY Zenon, <1>2, <1>5, <2>2, <2>4, <2>5
      <3>3. Cardinality(Writing(i)') <= Cardinality(Writing(i))
        BY Zenon, <1>0, <3>2, FS_Subset
      <3>4. jobs'[i].attempt + Cardinality(Writing(i)') <= rows'[i].ok + rows'[i].bad
        BY <1>1, <1>4, <1>5, <2>3, <3>1, <3>3
      <3>5. \A u \in Writing(i)' : task'[u].ok => \E v \in Writing(i) : task[v].ok
        BY Zenon, <3>2, WritingStep
      <3> QED
        BY Zenon, <1>5, <2>3, <3>1, <3>4, <3>5
    <2>6. CASE j = i
      <3>1. /\ rows'[i].ok = IF task[t].ok THEN rows[i].ok + 1 ELSE rows[i].ok
            /\ rows'[i].bad = IF task[t].ok THEN rows[i].bad ELSE rows[i].bad + 1
        BY ZenonT(40), <1>0, <2>1, <2>2, <2>6 DEF RecordAttempt
      <3>2. Writing(i)' \subseteq Writing(i) \cup {t}
        BY Zenon, <1>2, <1>5, <2>4
      <3>3. Cardinality(Writing(i)') <= Cardinality(Writing(i)) + 1
        <4>1. /\ IsFiniteSet(Writing(i) \cup {t})
              /\ Cardinality(Writing(i)') <= Cardinality(Writing(i) \cup {t})
          BY Zenon, <1>0, <3>2, FS_AddElement, FS_Subset
        <4>2. Cardinality(Writing(i) \cup {t}) \in {Cardinality(Writing(i)), Cardinality(Writing(i)) + 1}
          BY Zenon, <1>0, FS_AddElement
        <4> QED
          BY <1>1, <1>4, <4>1, <4>2
      <3>4. jobs'[i].attempt + Cardinality(Writing(i)') <= rows'[i].ok + rows'[i].bad
        BY SMTT(30), <1>1, <1>4, <1>5, <2>3, <3>1, <3>3
      <3>5. rows[i].ok > 0 \/ task[t].ok => rows'[i].ok > 0
        BY <1>1, <3>1
      <3>6. \A u \in Writing(i)' : task'[u].ok => (\E v \in Writing(i) : task[v].ok) \/ task[t].ok
        BY Zenon, <1>5, <2>4, WritingStep DEF Writing
      <3> QED
        BY Zenon, <1>5, <2>3, <3>4, <3>5, <3>6
    <2> QED
      BY Zenon, <2>5, <2>6
  <1>7. CASE ~\E t \in Tasks : RecordAttempt(t)
    <2>1. rows' = rows
      BY Zenon, <1>7, LogEffect
    <2>2. Writing(i)' \subseteq Writing(i) /\ \A u \in Writing(i)' : task'[u].ok = task[u].ok
      <3>1. ASSUME NEW u \in Writing(i)' PROVE u \in Tasks
        BY Zenon, <3>1 DEF Writing
      <3> QED
        BY Zenon, <1>5, <1>7, <3>1, WritingStep
    <2>3. CASE RowKept(i)
      <3>1. Cardinality(Writing(i)') <= Cardinality(Writing(i))
        BY Zenon, <1>0, <2>2, FS_Subset
      <3>2. jobs'[i].attempt + Cardinality(Writing(i)') <= rows'[i].ok + rows'[i].bad
        BY <1>1, <1>4, <1>5, <2>1, <2>3, <3>1 DEF RowKept
      <3> QED
        BY Zenon, <1>5, <2>1, <2>2, <2>3, <3>2 DEF RowKept
    <2>4. CASE \E t \in Tasks : WriteOutcome(t) /\ TaskJob(t) = i
      <3>1. PICK t \in Tasks : WriteOutcome(t) /\ TaskJob(t) = i
        BY Zenon, <2>4
      <3>2. t \in Writing(i) /\ task'[t].pc # "write"
        BY Zenon, <3>1 DEF WriteOutcome, Goto, Writing, TypeInv, TypeOK, TaskStates
      <3>3. Writing(i)' \subseteq Writing(i) \ {t}
        <4>1. t \notin Writing(i)'
          BY Zenon, <3>2 DEF Writing
        <4> QED
          BY Zenon, <2>2, <4>1
      <3>4. Cardinality(Writing(i)') + 1 <= Cardinality(Writing(i))
        <4>1. IsFiniteSet(Writing(i) \ {t}) /\ Cardinality(Writing(i) \ {t}) = Cardinality(Writing(i)) - 1
          BY Zenon, <1>0, <3>2, FS_RemoveElement
        <4>2. Cardinality(Writing(i)') <= Cardinality(Writing(i) \ {t})
          BY Zenon, <3>3, <4>1, FS_Subset
        <4> QED
          BY <1>1, <1>4, <4>1, <4>2
      <3>5. jobs'[i] = Outcome(t, jobs[i])
        BY Zenon, <3>1 DEF WriteOutcome, SetRow, TypeInv, TypeOK
      <3>6. /\ jobs'[i].attempt = jobs[i].attempt + 1
            /\ jobs'[i].status = "success" => task[t].ok
        BY Zenon, <1>0, <3>5 DEF Outcome, Completed, RetryScheduled, Failed, JobRows
      <3>7. jobs'[i].attempt + Cardinality(Writing(i)') <= rows'[i].ok + rows'[i].bad
        BY <1>1, <1>4, <1>5, <2>1, <3>4, <3>6
      <3> QED
        BY Zenon, <1>5, <2>1, <2>2, <3>2, <3>6, <3>7
    <2> QED
      BY Zenon, <2>3, <2>4, RowEffect
  <1> QED
    BY Zenon, <1>6, <1>7

\* While no statement fails, no outcome is written without an attempt of its
\* own in delivery_attempts, however many executions of process_one there are
\* for the job at once and wherever they crash.
THEOREM OutcomesHaveRows == Spec => []OutcomesAreLogged
  <1>1. Spec => []AttemptInv
    BY InitAttempt, NextAttempt, TypeInvariance, PTL DEF Spec
  <1>2. Spec => []LoggedInv
    BY <1>1, InitLogged, NextLogged, TypeInvariance, PTL DEF Spec
  <1>3. TypeInv /\ LoggedInv => OutcomesAreLogged
    <2> SUFFICES ASSUME TypeInv, LoggedInv, spent["db"] = 0, NEW j \in Jobs
                 PROVE  /\ jobs[j].attempt <= rows[j].ok + rows[j].bad
                        /\ jobs[j].status = "success" => rows[j].ok > 0
      BY Zenon DEF OutcomesAreLogged
    <2>1. /\ IsFiniteSet(Writing(j)) /\ jobs[j] \in JobRows /\ rows[j] \in [ok: Nat, bad: Nat]
          /\ jobs[j].attempt + Cardinality(Writing(j)) <= rows[j].ok + rows[j].bad
          /\ jobs[j].status = "success" => rows[j].ok > 0
      BY Zenon DEF LoggedInv, LoggedOf, TypeInv, TypeOK
    <2>2. Cardinality(Writing(j)) \in Nat
      BY Zenon, <2>1, FS_CardinalityType
    <2> QED
      BY <2>1, <2>2 DEF JobRows
  <1> QED
    BY <1>2, <1>3, TypeInvariance, PTL
=============================================================================
