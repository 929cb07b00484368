--------------------------- MODULE Dispatch_proofs ---------------------------
(***************************************************************************)
(* The properties of Dispatch that speak of streams, of the calls past a   *)
(* shut guard, of the rate limit and of what opens a circuit, proved for   *)
(* every number of streams, publishers, workers, permits, reclaim loops    *)
(* and endpoints.                                                          *)
(*                                                                         *)
(* NoOvertaking needs to know why a stream cannot be claimed again: it has *)
(* a higher score than the one it passed, or has to come back to the set   *)
(* first, which counts (TurnInv). LeakIsBounded is not                     *)
(* inductive: while a guard is shut, LeakInv counts the calls that were    *)
(* made together with the tasks that are past the guard and will call.     *)
(*                                                                         *)
(* RateHeld and TripIsEarned rest on MeterInv. A rate counter that is      *)
(* still there is the count of what was granted in its minute, since its   *)
(* TTL is longer than a minute (SlotOf); a failure counter that is still   *)
(* there counts no more than the failures within Window of its expiry      *)
(* (FailOf); and what a task has read of either stays true until it        *)
(* decides (Rated).                                                        *)
(***************************************************************************)
EXTENDS Dispatch, FiniteSetTheorems, TLAPS

N == Cardinality(Runners)
TaskFields == {"pc", "stream", "msg", "limit", "minute", "sure", "recent"}

DispatchTypes ==
    /\ now \in Nat /\ open \in [EndpointIds -> Nat] /\ blocked \in [EndpointIds -> Nat]
    /\ stream \in [StreamNames -> Streams(EndpointIds)]
    /\ IsSortedSet(scheduled, StreamNames)
    /\ registrant \in [Registrants -> StreamNames \cup {Nobody}]
    /\ worker \in [Workers -> WorkerStates]
    /\ DOMAIN task = Runners /\ task = [t \in Runners |-> task[t]] /\ \A t \in Runners : DOMAIN task[t] = TaskFields
    /\ passed \in [StreamNames -> [StreamNames -> Nat]]
    /\ rejoined \in [StreamNames -> [StreamNames -> Nat]]
    /\ leaked \in [EndpointIds -> [circuit: Nat, block: Nat]]

Ids(s) == 1..Len(stream[s].log)

\* Workers and tasks hold entries that exist, or have existed.
WorkerInv ==
    \A w \in Workers :
        /\ worker[w].pc \in {"read", "remove", "spawn"} => worker[w].stream \in StreamNames
        /\ worker[w].pc = "spawn" => worker[w].batch \subseteq Ids(worker[w].stream)
TaskInv ==
    \A t \in Runners :
        /\ task[t].pc # "idle" => task[t].stream \in StreamNames /\ task[t].msg \in Ids(task[t].stream)
        /\ task[t].pc \in {"fetch", "block"} => task[t].sure = {}
        /\ task[t].pc = "circuit" => task[t].sure \subseteq {"block"}

\* What y has used up, it cannot use again before it comes back or x is claimed.
TurnOf(x, y) ==
    \/ passed[x][y] <= rejoined[x][y]
    \/ /\ passed[x][y] = rejoined[x][y] + 1
       /\ x \in DOMAIN scheduled
       /\ y \in DOMAIN scheduled => scheduled[x] < scheduled[y]
TurnInv == \A x, y \in StreamNames : TurnOf(x, y)

Shut(g, e) == IF g = "circuit" THEN IsOpen(e) ELSE IsBlocked(e)
Past(g, t) == g \in task[t].sure /\ (task[t].pc \in {"slot", "send"} \/ (g = "block" /\ task[t].pc = "circuit"))
PastGuard(g, e) == {t \in Runners : Past(g, t) /\ EndpointOf(t) = e}
LeakOf(g, e) ==
    /\ leaked[e][g] < N
    /\ Shut(g, e) => leaked[e][g] + Cardinality(PastGuard(g, e)) < N
LeakInv == \A g \in {"circuit", "block"}, e \in EndpointIds : LeakOf(g, e)

DispatchInv == DispatchTypes /\ WorkerInv /\ TaskInv /\ TurnInv /\ NoStrandedStream /\ LeakInv

\* What a step other than an XADD may do to a stream: entries stay, and none
\* becomes readable again.
Shrinks(s, x) ==
    /\ stream' = [stream EXCEPT ![s] = x]
    /\ x \in Streams(EndpointIds) /\ x.log = stream[s].log
    /\ \A m : Readable(x, m) => Readable(stream[s], m)
Adds(r, s, e) ==
    /\ registrant[r] = Nobody /\ registrant' = [registrant EXCEPT ![r] = s]
    /\ stream' = [stream EXCEPT ![s] = Enqueue(@, e)] /\ UNCHANGED <<scheduled, forgotten>>

\* The commands a step sends to a stream, by what they leave of it.
LEMMA StreamEffect ==
  ASSUME DispatchTypes, WorkerInv, TaskInv, [Next]_vars
  PROVE  \/ stream' = stream
         \/ \E s \in StreamNames, x \in Streams(EndpointIds) : Shrinks(s, x)
         \/ \E r \in Registrants, s \in StreamNames, e \in EndpointIds : Adds(r, s, e)
<1> DEFINE Goal == \/ stream' = stream
                   \/ \E s \in StreamNames, x \in Streams(EndpointIds) : Shrinks(s, x)
                   \/ \E r \in Registrants, s \in StreamNames, e \in EndpointIds : Adds(r, s, e)
<1>0. \A s \in StreamNames : stream[s] \in Streams(EndpointIds)
  BY Zenon DEF DispatchTypes
<1>1. ASSUME NEW r \in Registrants, RegistrantStep(r) PROVE Goal
  BY Zenon, <1>1 DEF RegistrantStep, StartUp, Publish, RegisterStream, RegisterLost, Adds
<1>2. ASSUME NEW w \in Workers, WorkerStep(w) PROVE Goal
  <2>1. CASE ReadBatch(w)
    <3>1. PICK s \in StreamNames : s = worker[w].stream
      BY Zenon, <2>1 DEF ReadBatch, WorkerInv
    <3>2. PICK count \in Nat :
            stream' = [stream EXCEPT ![s].last = @ + count, ![s].pel = @ \cup (stream[s].last + 1 .. stream[s].last + count)]
      <4> DEFINE n == Len(stream[s].log) - stream[s].last
                 count == IF n < BatchSize THEN n ELSE BatchSize
      <4>1. stream[s].last \in Nat /\ stream[s].log \in Seq(EndpointIds)
        BY Zenon, <1>0 DEF Streams
      <4>2. stream[s].last < Len(stream[s].log)
        BY Zenon, <2>1, <3>1 DEF ReadBatch, CanRead
      <4>3. count \in Nat
        BY SMTT(30), <4>1, <4>2, DispatchAssumption
      <4>4. stream' = [stream EXCEPT ![s].last = @ + count, ![s].pel = @ \cup (stream[s].last + 1 .. stream[s].last + count)]
        BY Zenon, <2>1, <3>1 DEF ReadBatch
      <4> QED
        BY Zenon, <4>3, <4>4
    <3> DEFINE x == [stream[s] EXCEPT !.last = @ + count, !.pel = @ \cup (stream[s].last + 1 .. stream[s].last + count)]
    <3>3. stream' = [stream EXCEPT ![s] = x]
      BY Zenon, <3>2 DEF DispatchTypes
    <3>4. /\ x \in Streams(EndpointIds) /\ x.log = stream[s].log /\ x.trimmed = stream[s].trimmed
          /\ x.last = stream[s].last + count /\ x.pel = stream[s].pel \cup (stream[s].last + 1 .. stream[s].last + count)
          /\ stream[s].last \in Nat
      <4>1. stream[s].last \in Nat /\ stream[s].pel \subseteq Nat
        BY Zenon, <1>0 DEF Streams
      <4> DEFINE l == stream[s].last + count
                 q == stream[s].pel \cup (stream[s].last + 1 .. stream[s].last + count)
      <4>2. l \in Nat /\ q \subseteq Nat /\ x = [stream[s] EXCEPT !.last = l, !.pel = q]
        BY <4>1
      <4> HIDE DEF l, q, x
      <4>3. /\ x \in Streams(EndpointIds) /\ x.log = stream[s].log /\ x.trimmed = stream[s].trimmed /\ x.last = l /\ x.pel = q
        BY Zenon, <1>0, <4>2 DEF Streams
      <4> QED
        BY Zenon, <4>1, <4>3 DEF l, q
    <3> HIDE DEF x
    <3>5. \A m : Readable(x, m) => Readable(stream[s], m)
      BY <3>4 DEF Readable
    <3> QED
      BY ZenonT(40), <3>3, <3>4, <3>5 DEF Shrinks
  <2> QED
    BY Zenon, <1>2, <2>1 DEF WorkerStep, ReadClock, ClaimNextStream, ClaimNothing, ReadNothing, RemoveStreamIfEmpty, Spawn, WorkerStops
<1>3. ASSUME NEW s \in StreamNames, NEW P \in SUBSET stream[s].pel, stream' = [stream EXCEPT ![s] = [stream[s] EXCEPT !.pel = P]]
      PROVE  Goal
  <2> DEFINE x == [stream[s] EXCEPT !.pel = P]
  <2>1. /\ x \in Streams(EndpointIds) /\ x.log = stream[s].log /\ x.trimmed = stream[s].trimmed
        /\ x.last = stream[s].last /\ x.pel = P
    BY Zenon, <1>0 DEF Streams
  <2>2. stream' = [stream EXCEPT ![s] = x]
    BY Zenon, <1>3
  <2> HIDE DEF x
  <2>3. \A m : Readable(x, m) => Readable(stream[s], m)
    BY Zenon, <2>1 DEF Readable
  <2> QED
    BY Zenon, <2>1, <2>2, <2>3 DEF Shrinks
<1>4. ASSUME NEW t \in Runners, TaskStep(t) PROVE Goal
  <2>1. CASE Acknowledge(t)
    <3>1. PICK s \in StreamNames : s = task[t].stream
      BY Zenon, <2>1 DEF Acknowledge, TaskInv
    <3>2. stream' = [stream EXCEPT ![s] = [stream[s] EXCEPT !.pel = stream[s].pel \ {task[t].msg}]]
      BY Zenon, <2>1, <3>1 DEF Acknowledge, XAck, DispatchTypes
    <3> DEFINE P == stream[s].pel \ {task[t].msg}
    <3>3. P \in SUBSET stream[s].pel
      OBVIOUS
    <3> HIDE DEF P
    <3> QED
      BY Zenon, <1>3, <3>2, <3>3 DEF P
  <2> QED
    BY Zenon, <1>4, <2>1 DEF TaskStep, FetchJob, FetchNone, CheckBlocked, CheckCircuit, PastCircuit, TryAcquire, Send, NotSent, Answered, SetBlock,
                      RecordFault, OpenIt, ResetBreaker, BookkeepingFails, TaskStops, Goto, TaskGoes
<1>5. ASSUME NEW t \in Reclaimers, NEW s \in StreamNames, NEW m \in stream[s].pel, Reclaim(t, s, m) PROVE Goal
  <2>1. stream' = [stream EXCEPT ![s] = [stream[s] EXCEPT !.pel = Claimable(stream[s])]]
    BY Zenon, <1>5 DEF Reclaim, XAutoClaim, DispatchTypes
  <2>2. Claimable(stream[s]) \subseteq stream[s].pel
    BY Zenon DEF Claimable
  <2> QED
    BY Zenon, <1>3, <2>1, <2>2
<1>6. ASSUME NEW s \in StreamNames, Trim(s) PROVE Goal
  <2>1. PICK cut \in Nat : \E upTo \in TrimTargets(stream[s], cut) : stream' = [stream EXCEPT ![s] = XTrim(stream[s], upTo)]
    <3>1. stream[s].last \in Nat /\ stream[s].pel \subseteq Nat
      BY Zenon, <1>0 DEF Streams
    <3> QED
      BY Zenon, <1>6, <3>1 DEF Trim, Oldest, DispatchTypes
  <2>2. PICK upTo \in TrimTargets(stream[s], cut) : stream' = [stream EXCEPT ![s] = XTrim(stream[s], upTo)]
    BY Zenon, <2>1
  <2>3. upTo \in Nat /\ upTo >= stream[s].trimmed /\ stream[s].trimmed \in Nat
    BY <1>0 DEF TrimTargets, Streams
  <2> DEFINE x == XTrim(stream[s], upTo)
  <2>4. /\ x \in Streams(EndpointIds) /\ x.log = stream[s].log /\ x.trimmed = upTo
        /\ x.last = stream[s].last /\ x.pel = stream[s].pel
    BY Zenon, <1>0, <2>3 DEF Streams, XTrim
  <2> HIDE DEF x
  <2>5. \A m : Readable(x, m) => Readable(stream[s], m)
    BY <2>3, <2>4 DEF Readable
  <2> QED
    BY Zenon, <2>2, <2>4, <2>5 DEF Shrinks, x
<1>7. CASE Time \/ UNCHANGED vars
  BY Zenon, <1>7 DEF Time, vars
<1> QED
  BY Zenon, <1>1, <1>2, <1>4, <1>5, <1>6, <1>7 DEF Next

\* Streams keep their type, and an entry its place.
LEMMA LogStep ==
  ASSUME DispatchTypes, WorkerInv, TaskInv, [Next]_vars
  PROVE  /\ stream' \in [StreamNames -> Streams(EndpointIds)]
         /\ \A s \in StreamNames : Ids(s) \subseteq Ids(s)' /\ \A m \in Ids(s) : stream'[s].log[m] = stream[s].log[m]
<1>1. CASE stream' = stream
  BY Zenon, <1>1 DEF DispatchTypes, Ids
<1>2. ASSUME NEW s \in StreamNames, NEW x \in Streams(EndpointIds), Shrinks(s, x)
      PROVE  /\ stream' \in [StreamNames -> Streams(EndpointIds)]
             /\ \A z \in StreamNames : stream'[z].log = stream[z].log
  BY Zenon, <1>2 DEF DispatchTypes, Shrinks
<1>3. ASSUME NEW r \in Registrants, NEW s \in StreamNames, NEW e \in EndpointIds, Adds(r, s, e)
      PROVE  /\ stream' \in [StreamNames -> Streams(EndpointIds)]
             /\ \A z \in StreamNames : Ids(z) \subseteq Ids(z)' /\ \A m \in Ids(z) : stream'[z].log[m] = stream[z].log[m]
  <2> DEFINE x == Enqueue(stream[s], e)
  <2>0. stream[s] \in Streams(EndpointIds)
    BY Zenon DEF DispatchTypes
  <2>1. x \in Streams(EndpointIds) /\ x.log = Append(stream[s].log, e) /\ stream[s].log \in Seq(EndpointIds)
    <3>1. stream[s].log \in Seq(EndpointIds)
      BY Zenon, <2>0 DEF Streams
    <3> DEFINE q == Append(stream[s].log, e)
    <3>2. q \in Seq(EndpointIds) /\ x = [stream[s] EXCEPT !.log = q]
      BY <3>1 DEF Enqueue
    <3> HIDE DEF q, x
    <3>3. x \in Streams(EndpointIds) /\ x.log = q
      BY Zenon, <2>0, <3>2 DEF Streams
    <3> QED
      BY Zenon, <3>1, <3>3 DEF q
  <2>2. stream' = [stream EXCEPT ![s] = x]
    BY Zenon, <1>3 DEF Adds, DispatchTypes
  <2> HIDE DEF x
  <2>3. stream'[s] = x /\ \A z \in StreamNames : z # s => stream'[z] = stream[z]
    BY Zenon, <2>2 DEF DispatchTypes
  <2>4. Ids(s) \subseteq Ids(s)' /\ \A m \in Ids(s) : stream'[s].log[m] = stream[s].log[m]
    BY <2>1, <2>3 DEF Ids
  <2>5. \A z \in StreamNames : z # s => Ids(z) \subseteq Ids(z)' /\ \A m \in Ids(z) : stream'[z].log[m] = stream[z].log[m]
    BY Zenon, <2>3 DEF Ids
  <2> QED
    BY Zenon, <2>1, <2>2, <2>4, <2>5 DEF DispatchTypes
<1> QED
  BY Zenon, <1>1, <1>2, <1>3, StreamEffect DEF Ids

-----------------------------------------------------------------------------
\* Who knows of a stream: the set, the loser of a registration, or whoever is
\* about to register it.
Known(s) == s \in DOMAIN scheduled \cup forgotten \cup {registrant[r] : r \in Registrants}

\* A stream that was known still is, unless it was taken out of the set empty.
LEMMA KnownStep ==
  ASSUME DispatchTypes, WorkerInv, [Next]_vars, NEW s \in StreamNames, Known(s)
  PROVE  Known(s)' \/ (stream' = stream /\ XLen(stream[s]) = 0)
<1>0. DOMAIN registrant = Registrants /\ registrant \in [Registrants -> StreamNames \cup {Nobody}]
  BY Zenon DEF DispatchTypes
<1>1. ASSUME NEW r \in Registrants, RegistrantStep(r) PROVE Known(s)'
  <2>1. CASE \E z \in StreamNames : StartUp(r, z) \/ \E e \in EndpointIds : Publish(r, z, e)
    <3>1. PICK z \in StreamNames : registrant[r] = Nobody /\ registrant' = [registrant EXCEPT ![r] = z] /\ UNCHANGED <<scheduled, forgotten>>
      BY Zenon, <2>1 DEF StartUp, Publish
    <3>2. \A q \in Registrants : registrant[q] = s => registrant'[q] = s
      BY Zenon, <1>0, <3>1, DispatchAssumption
    <3> QED
      BY Zenon, <3>1, <3>2 DEF Known
  <2>2. CASE RegisterStream(r)
    <3>1. DOMAIN scheduled' = DOMAIN scheduled \cup {registrant[r]} /\ forgotten' = forgotten \ {registrant[r]}
      BY Zenon, <2>2 DEF RegisterStream, Register
    <3>2. \A q \in Registrants : q # r => registrant'[q] = registrant[q]
      BY Zenon, <1>0, <2>2 DEF RegisterStream
    <3> QED
      BY Zenon, <3>1, <3>2 DEF Known
  <2>3. CASE RegisterLost(r)
    <3>1. \A q \in Registrants : q # r => registrant'[q] = registrant[q]
      BY Zenon, <1>0, <2>3 DEF RegisterLost
    <3>2. scheduled' = scheduled /\ forgotten' = forgotten \cup {registrant[r]}
      BY Zenon, <2>3 DEF RegisterLost
    <3> QED
      BY Zenon, <3>1, <3>2 DEF Known
  <2> QED
    BY Zenon, <1>1, <2>1, <2>2, <2>3 DEF RegistrantStep
<1>2. ASSUME NEW w \in Workers, WorkerStep(w) PROVE Known(s)' \/ (stream' = stream /\ XLen(stream[s]) = 0)
  <2>1. UNCHANGED <<registrant, forgotten>>
    BY Zenon, <1>2 DEF WorkerStep, ReadClock, ClaimNextStream, ClaimNothing, ReadBatch, ReadNothing, RemoveStreamIfEmpty, Spawn, WorkerStops, WorkerGoes
  <2>2. CASE RemoveStreamIfEmpty(w)
    <3>1. CASE XLen(stream[worker[w].stream]) = 0 /\ Forget(worker[w].stream)
      <4>1. DOMAIN scheduled' = DOMAIN scheduled \ {worker[w].stream}
        BY Zenon, <3>1 DEF Forget, Remove, Restrict
      <4> QED
        BY Zenon, <2>1, <2>2, <3>1, <4>1 DEF Known, RemoveStreamIfEmpty
    <3>2. CASE UNCHANGED scheduled
      BY Zenon, <2>1, <3>2 DEF Known
    <3> QED
      BY Zenon, <2>2, <3>1, <3>2 DEF RemoveStreamIfEmpty
  <2>3. CASE \E z \in StreamNames : ClaimNextStream(w, z)
    <3>1. DOMAIN scheduled' = DOMAIN scheduled
      BY Zenon, <2>3 DEF ClaimNextStream, Claim
    <3> QED
      BY Zenon, <2>1, <3>1 DEF Known
  <2>4. CASE UNCHANGED scheduled
    BY <2>1, <2>4 DEF Known
  <2> QED
    BY Zenon, <1>2, <2>2, <2>3, <2>4 DEF WorkerStep, ReadClock, ClaimNothing, ReadBatch, ReadNothing, Spawn, WorkerStops
<1>3. ASSUME UNCHANGED <<scheduled, forgotten, registrant>> PROVE Known(s)'
  BY Zenon, <1>3 DEF Known
<1>4. ASSUME NEW t \in Runners, TaskStep(t) PROVE UNCHANGED <<scheduled, forgotten, registrant>>
  BY Zenon, <1>4 DEF TaskStep, FetchJob, FetchNone, CheckBlocked, CheckCircuit, PastCircuit, TryAcquire, Send, NotSent, Answered, SetBlock,
              RecordFault, OpenIt, ResetBreaker, BookkeepingFails, Acknowledge, TaskStops, Goto, TaskGoes
<1>5. ASSUME \/ \E t \in Reclaimers, z \in StreamNames : \E m \in stream[z].pel : Reclaim(t, z, m)
             \/ \E z \in StreamNames : Trim(z)
             \/ Time \/ UNCHANGED vars
      PROVE  UNCHANGED <<scheduled, forgotten, registrant>>
  BY Zenon, <1>5 DEF Reclaim, Trim, Time, vars
<1> QED
  BY Zenon, <1>1, <1>2, <1>3, <1>4, <1>5 DEF Next

\* An entry that can be read was there before, or whoever added it is about to
\* register its stream.
LEMMA StrandedStep ==
  ASSUME DispatchTypes, WorkerInv, TaskInv, NoStrandedStream, [Next]_vars
  PROVE  NoStrandedStream'
<1> SUFFICES ASSUME NEW s \in StreamNames, NEW m, m \in 1..Len(stream'[s].log), Readable(stream'[s], m)
             PROVE  Known(s)'
  BY Zenon DEF NoStrandedStream, Known
<1>1. ASSUME NEW r \in Registrants, NEW z \in StreamNames, NEW e \in EndpointIds, Adds(r, z, e) PROVE Known(s)'
  <2>1. registrant'[r] = z /\ \A q \in StreamNames : q # z => stream'[q] = stream[q]
    BY Zenon, <1>1 DEF Adds, DispatchTypes
  <2>2. CASE s = z
    BY Zenon, <2>1, <2>2 DEF Known
  <2>3. CASE s # z
    <3>1. stream'[s] = stream[s] /\ Known(s)
      BY Zenon, <2>1, <2>3 DEF NoStrandedStream, Known
    <3>2. XLen(stream[s]) # 0
      <4>1. stream[s] \in Streams(EndpointIds)
        BY Zenon DEF DispatchTypes
      <4>2. stream[s].trimmed \in Nat /\ Len(stream[s].log) \in Nat
        BY <4>1 DEF Streams
      <4> QED
        BY <3>1, <4>2 DEF XLen, Readable
    <3> QED
      BY Zenon, <3>1, <3>2, KnownStep
  <2> QED
    BY Zenon, <2>2, <2>3
<1>2. ASSUME Readable(stream[s], m) PROVE Known(s)'
  <2>1. stream[s] \in Streams(EndpointIds)
    BY Zenon DEF DispatchTypes
  <2>2. stream[s].trimmed \in Nat /\ Len(stream[s].log) \in Nat
    BY <2>1 DEF Streams
  <2>3. XLen(stream[s]) # 0 /\ m \in 1..Len(stream[s].log)
    BY <1>2, <2>2 DEF XLen, Readable
  <2>4. Known(s)
    BY Zenon, <1>2, <2>3 DEF NoStrandedStream, Known
  <2> QED
    BY Zenon, <2>3, <2>4, KnownStep
<1>3. ASSUME NEW z \in StreamNames, NEW x \in Streams(EndpointIds), Shrinks(z, x) PROVE Readable(stream[s], m)
  <2>1. stream'[s] = IF s = z THEN x ELSE stream[s]
    BY Zenon, <1>3 DEF Shrinks, DispatchTypes
  <2> QED
    BY Zenon, <1>3, <2>1 DEF Shrinks
<1> QED
  BY Zenon, <1>1, <1>2, <1>3, StreamEffect

-----------------------------------------------------------------------------
Turns == [StreamNames -> [StreamNames -> Nat]]

\* A claim gives the stream a score above that of every stream it passes, and
\* it is not the lowest again before they had their turn.
LEMMA ClaimStep ==
  ASSUME DispatchTypes, WorkerInv, TurnInv, NEW w \in Workers, NEW s \in StreamNames, ClaimNextStream(w, s)
  PROVE  IsSortedSet(scheduled, StreamNames)' /\ passed' \in Turns /\ rejoined' \in Turns /\ TurnInv'
<1>1. worker[w].at \in Nat
  BY Zenon DEF DispatchTypes, WorkerStates
<1>2. s \in DOMAIN scheduled /\ \A x \in DOMAIN scheduled : scheduled[s] <= scheduled[x]
  BY Zenon DEF ClaimNextStream, Lowest
<1>3. /\ DOMAIN scheduled \subseteq StreamNames /\ scheduled \in [DOMAIN scheduled -> Nat]
      /\ scheduled' = [scheduled EXCEPT ![s] = worker[w].at]
  BY Zenon DEF ClaimNextStream, Claim, DispatchTypes, IsSortedSet
<1>4. /\ DOMAIN scheduled' = DOMAIN scheduled /\ scheduled'[s] = worker[w].at
      /\ \A x \in DOMAIN scheduled : scheduled'[x] \in Nat /\ (x # s => scheduled'[x] = scheduled[x])
  BY Zenon, <1>1, <1>2, <1>3
<1>5. IsSortedSet(scheduled, StreamNames)'
  BY Zenon, <1>1, <1>3 DEF IsSortedSet
<1>6. passed \in Turns /\ rejoined \in Turns
  BY Zenon DEF DispatchTypes, Turns
<1>7. ASSUME NEW x \in StreamNames, NEW y \in StreamNames
      PROVE  passed'[x][y] = IF x = s THEN 0
                             ELSE IF x \in DOMAIN scheduled /\ scheduled[x] < worker[w].at /\ y = s THEN passed[x][y] + 1
                             ELSE passed[x][y]
  BY Zenon, <1>6 DEF ClaimNextStream, Turns
<1>r. rejoined' \in Turns /\ \A x, y \in StreamNames : rejoined'[x][y] = IF x = s THEN 0 ELSE rejoined[x][y]
  <2>1. [y \in StreamNames |-> 0] \in [StreamNames -> Nat]
    BY Zenon
  <2>2. rejoined' \in Turns
    BY Zenon, <1>6, <2>1 DEF ClaimNextStream, Turns
  <2>3. ASSUME NEW x \in StreamNames, NEW y \in StreamNames
        PROVE  rejoined'[x][y] = IF x = s THEN 0 ELSE rejoined[x][y]
    BY Zenon, <1>6 DEF ClaimNextStream, Turns
  <2> QED
    BY Zenon, <2>2, <2>3
<1>8. passed' \in Turns
  <2>1. \A x \in StreamNames : passed'[x] \in [StreamNames -> Nat]
    BY <1>6 DEF ClaimNextStream, Turns
  <2>2. passed' = [x \in StreamNames |-> passed'[x]]
    BY Zenon DEF ClaimNextStream
  <2> QED
    BY Zenon, <2>1, <2>2 DEF Turns
<1>9. ASSUME NEW x \in StreamNames, NEW y \in StreamNames PROVE TurnOf(x, y)'
  <2>0. passed[x][y] \in Nat /\ rejoined[x][y] \in Nat /\ TurnOf(x, y)
    BY Zenon, <1>6 DEF TurnInv, Turns
  <2>1. CASE x = s
    <3>1. passed'[x][y] = 0 /\ rejoined'[x][y] = 0
      BY Zenon, <1>7, <1>r, <2>1
    <3> QED
      BY <3>1 DEF TurnOf
  <2>2. CASE x # s /\ y = s
    <3>1. passed[x][y] <= rejoined[x][y]
      <4>1. x \in DOMAIN scheduled => scheduled[s] \in Nat /\ scheduled[x] \in Nat /\ scheduled[s] <= scheduled[x]
        BY Zenon, <1>2, <1>3
      <4> QED
        BY <1>2, <2>0, <2>2, <4>1 DEF TurnOf
    <3>2. rejoined'[x][y] = rejoined[x][y]
      BY Zenon, <1>r, <2>2
    <3>3. CASE x \in DOMAIN scheduled /\ scheduled[x] < worker[w].at
      <4>1. passed'[x][y] = passed[x][y] + 1 /\ scheduled'[x] < scheduled'[y]
        BY Zenon, <1>4, <1>7, <2>2, <3>3
      <4>2. passed'[x][y] <= rejoined'[x][y] \/ passed'[x][y] = rejoined'[x][y] + 1
        BY <2>0, <3>1, <3>2, <4>1
      <4> QED
        BY Zenon, <1>4, <3>3, <4>1, <4>2 DEF TurnOf
    <3>4. CASE ~(x \in DOMAIN scheduled /\ scheduled[x] < worker[w].at)
      <4>1. passed'[x][y] = passed[x][y]
        BY Zenon, <1>7, <2>2, <3>4
      <4> QED
        BY Zenon, <3>1, <3>2, <4>1 DEF TurnOf
    <3> QED
      BY Zenon, <3>3, <3>4
  <2>3. CASE x # s /\ y # s
    <3>1. passed'[x][y] = passed[x][y] /\ rejoined'[x][y] = rejoined[x][y]
      BY Zenon, <1>7, <1>r, <2>3
    <3> QED
      BY Zenon, <1>4, <2>0, <2>3, <3>1 DEF TurnOf
  <2> QED
    BY Zenon, <2>1, <2>2, <2>3
<1> QED
  BY Zenon, <1>5, <1>8, <1>9, <1>r DEF TurnInv

\* Dropping a stream disturbs the turn of no other; registering one that is
\* not in the set gives it one more turn ahead of the others.
LEMMA TurnStep ==
  ASSUME DispatchTypes, WorkerInv, TurnInv, [Next]_vars
  PROVE  IsSortedSet(scheduled, StreamNames)' /\ passed' \in Turns /\ rejoined' \in Turns /\ TurnInv'
<1> DEFINE Goal == IsSortedSet(scheduled, StreamNames)' /\ passed' \in Turns /\ rejoined' \in Turns /\ TurnInv'
<1>1. ASSUME UNCHANGED <<scheduled, passed, rejoined>> PROVE Goal
  BY Zenon, <1>1 DEF DispatchTypes, TurnInv, TurnOf, IsSortedSet, Turns
<1>2. /\ passed \in Turns /\ rejoined \in Turns
      /\ DOMAIN scheduled \subseteq StreamNames /\ scheduled \in [DOMAIN scheduled -> Nat]
  BY Zenon DEF DispatchTypes, Turns, IsSortedSet
<1>n. ASSUME NEW x \in StreamNames, NEW y \in StreamNames
      PROVE  passed[x][y] \in Nat /\ rejoined[x][y] \in Nat /\ TurnOf(x, y)
  BY Zenon, <1>2 DEF TurnInv, Turns
<1>3. ASSUME NEW r \in Registrants, RegisterStream(r) PROVE Goal
  <2>1. PICK z \in StreamNames : z = registrant[r]
    BY Zenon, <1>3 DEF RegisterStream, DispatchTypes
  <2>2. scheduled' = [x \in DOMAIN scheduled \cup {z} |-> IF x \in DOMAIN scheduled THEN scheduled[x] ELSE 0] /\ passed' = passed
    BY Zenon, <1>3, <2>1 DEF RegisterStream, Register
  <2>3. DOMAIN scheduled' = DOMAIN scheduled \cup {z} /\ \A x \in DOMAIN scheduled : scheduled'[x] = scheduled[x]
    BY Zenon, <2>2
  <2>4. IsSortedSet(scheduled, StreamNames)'
    BY Zenon, <1>2, <2>2 DEF IsSortedSet
  <2>5. ASSUME NEW x \in StreamNames
        PROVE  /\ rejoined'[x] \in [StreamNames -> Nat]
               /\ \A y \in StreamNames :
                    rejoined'[x][y] = IF x \in DOMAIN scheduled /\ z \notin DOMAIN scheduled /\ y = z
                                      THEN rejoined[x][y] + 1 ELSE rejoined[x][y]
    <3>1. rejoined'[x] = IF x \in DOMAIN scheduled /\ z \notin DOMAIN scheduled
                         THEN [rejoined[x] EXCEPT ![z] = rejoined[x][z] + 1] ELSE rejoined[x]
      BY Zenon, <1>3, <2>1 DEF RegisterStream
    <3>2. rejoined[x] \in [StreamNames -> Nat] /\ rejoined[x][z] + 1 \in Nat
      BY <1>2 DEF Turns
    <3> QED
      BY Zenon, <3>1, <3>2
  <2>6. rejoined' \in Turns
    <3>1. rejoined' = [x \in StreamNames |-> rejoined'[x]]
      BY Zenon, <1>3 DEF RegisterStream
    <3> QED
      BY Zenon, <2>5, <3>1 DEF Turns
  <2>7. ASSUME NEW x \in StreamNames, NEW y \in StreamNames PROVE TurnOf(x, y)'
    <3>1. CASE passed[x][y] <= rejoined[x][y]
      <4>1. passed'[x][y] <= rejoined'[x][y]
        BY <1>n, <2>2, <2>5, <3>1
      <4> QED
        BY Zenon, <4>1 DEF TurnOf
    <3>2. CASE passed[x][y] = rejoined[x][y] + 1 /\ x \in DOMAIN scheduled /\ y = z /\ z \notin DOMAIN scheduled
      <4>1. passed'[x][y] <= rejoined'[x][y]
        BY <1>n, <2>2, <2>5, <3>2
      <4> QED
        BY Zenon, <4>1 DEF TurnOf
    <3>3. CASE passed[x][y] = rejoined[x][y] + 1 /\ x \in DOMAIN scheduled /\ ~(y = z /\ z \notin DOMAIN scheduled)
      <4>1. passed'[x][y] = rejoined'[x][y] + 1
        BY Zenon, <2>2, <2>5, <3>3
      <4>2. y \in DOMAIN scheduled => scheduled[x] < scheduled[y]
        BY <1>n, <3>3 DEF TurnOf
      <4> QED
        BY Zenon, <2>3, <3>3, <4>1, <4>2 DEF TurnOf
    <3> QED
      BY Zenon, <1>n, <3>1, <3>2, <3>3 DEF TurnOf
  <2> QED
    BY Zenon, <1>2, <2>2, <2>4, <2>6, <2>7 DEF TurnInv
<1>4. ASSUME NEW z \in StreamNames, Forget(z) PROVE Goal
  <2>1. scheduled' = [x \in DOMAIN scheduled \ {z} |-> scheduled[x]]
    BY Zenon, <1>4 DEF Forget, Remove, Restrict
  <2>2. DOMAIN scheduled' = DOMAIN scheduled \ {z} /\ \A x \in DOMAIN scheduled : x # z => scheduled'[x] = scheduled[x]
    BY Zenon, <2>1
  <2>3. IsSortedSet(scheduled, StreamNames)'
    BY Zenon, <1>2, <2>1 DEF IsSortedSet
  <2>4. /\ passed' \in Turns /\ \A x, y \in StreamNames : passed'[x][y] = IF x = z THEN 0 ELSE passed[x][y]
        /\ rejoined' \in Turns /\ \A x, y \in StreamNames : rejoined'[x][y] = IF x = z THEN 0 ELSE rejoined[x][y]
    <3>1. [y \in StreamNames |-> 0] \in [StreamNames -> Nat]
      BY Zenon
    <3>2. passed' \in Turns /\ rejoined' \in Turns
      BY Zenon, <1>2, <1>4, <3>1 DEF Forget, Turns
    <3>3. ASSUME NEW x \in StreamNames, NEW y \in StreamNames
          PROVE  /\ passed'[x][y] = IF x = z THEN 0 ELSE passed[x][y]
                 /\ rejoined'[x][y] = IF x = z THEN 0 ELSE rejoined[x][y]
      BY Zenon, <1>2, <1>4 DEF Forget, Turns
    <3> QED
      BY Zenon, <3>2, <3>3
  <2>5. ASSUME NEW x \in StreamNames, NEW y \in StreamNames PROVE TurnOf(x, y)'
    <3>1. CASE x = z
      <4>1. passed'[x][y] = 0 /\ rejoined'[x][y] = 0
        BY Zenon, <2>4, <3>1
      <4> QED
        BY <4>1 DEF TurnOf
    <3>2. CASE x # z
      <4>1. passed'[x][y] = passed[x][y] /\ rejoined'[x][y] = rejoined[x][y]
        BY Zenon, <2>4, <3>2
      <4> QED
        BY Zenon, <1>n, <2>2, <3>2, <4>1 DEF TurnOf
    <3> QED
      BY Zenon, <3>1, <3>2
  <2> QED
    BY Zenon, <2>3, <2>4, <2>5 DEF TurnInv
<1>5. ASSUME NEW w \in Workers, WorkerStep(w) PROVE Goal
  <2>1. CASE RemoveStreamIfEmpty(w)
    <3>1. worker[w].stream \in StreamNames
      BY Zenon, <2>1 DEF RemoveStreamIfEmpty, WorkerInv
    <3> QED
      BY Zenon, <1>1, <1>4, <2>1, <3>1 DEF RemoveStreamIfEmpty
  <2>2. CASE \E z \in StreamNames : ClaimNextStream(w, z)
    BY Zenon, <2>2, ClaimStep
  <2> QED
    BY Zenon, <1>1, <1>5, <2>1, <2>2 DEF WorkerStep, ReadClock, ClaimNothing, ReadBatch, ReadNothing, Spawn, WorkerStops
<1>6. ASSUME NEW r \in Registrants, RegistrantStep(r) PROVE Goal
  BY Zenon, <1>1, <1>3, <1>6 DEF RegistrantStep, StartUp, Publish, RegisterLost
<1>7. ASSUME NEW t \in Runners, TaskStep(t) PROVE Goal
  BY Zenon, <1>1, <1>7 DEF TaskStep, FetchJob, FetchNone, CheckBlocked, CheckCircuit, PastCircuit, TryAcquire, Send, NotSent, Answered, SetBlock,
                    RecordFault, OpenIt, ResetBreaker, BookkeepingFails, Acknowledge, TaskStops, Goto, TaskGoes
<1>8. ASSUME \/ \E t \in Reclaimers, z \in StreamNames : \E m \in stream[z].pel : Reclaim(t, z, m)
             \/ \E z \in StreamNames : Trim(z)
             \/ Time \/ UNCHANGED vars
      PROVE  Goal
  BY Zenon, <1>1, <1>8 DEF Reclaim, Trim, Time, vars
<1> QED
  BY Zenon, <1>5, <1>6, <1>7, <1>8 DEF Next

-----------------------------------------------------------------------------
LogsKept ==
    \A s \in StreamNames : Ids(s) \subseteq Ids(s)' /\ \A m \in Ids(s) : stream'[s].log[m] = stream[s].log[m]

\* A worker goes on with a record that fits the streams.
LEMMA WorkerKept ==
  ASSUME DispatchTypes, WorkerInv, LogsKept, NEW w \in Workers, NEW x \in WorkerStates, worker' = [worker EXCEPT ![w] = x],
         x.pc \in {"read", "remove", "spawn"} => x.stream \in StreamNames,
         x.pc = "spawn" => x.batch \subseteq Ids(x.stream)
  PROVE  worker' \in [Workers -> WorkerStates] /\ WorkerInv'
<1>1. worker'[w] = x /\ \A u \in Workers : u # w => worker'[u] = worker[u]
  BY Zenon DEF DispatchTypes
<1>2. ASSUME NEW u \in Workers
      PROVE  /\ worker'[u].pc \in {"read", "remove", "spawn"} => worker'[u].stream \in StreamNames
             /\ worker'[u].pc = "spawn" => worker'[u].batch \subseteq Ids(worker'[u].stream)
  BY Zenon, <1>1 DEF WorkerInv
<1>3. WorkerInv'
  BY Zenon, <1>2 DEF WorkerInv, LogsKept, Ids
<1> QED
  BY Zenon, <1>3 DEF DispatchTypes

\* So do all the steps of consumer::run.
LEMMA WorkersStep ==
  ASSUME DispatchTypes, WorkerInv, TaskInv, [Next]_vars
  PROVE  worker' \in [Workers -> WorkerStates] /\ WorkerInv'
<1> DEFINE Goal == worker' \in [Workers -> WorkerStates] /\ WorkerInv'
<1>0. LogsKept
  BY Zenon, LogStep DEF LogsKept
<1>1. ASSUME UNCHANGED worker PROVE Goal
  BY Zenon, <1>0, <1>1 DEF DispatchTypes, WorkerInv, LogsKept, Ids
<1>2. IdleWorker \in WorkerStates /\ IdleWorker.pc = "idle"
  BY Zenon DEF IdleWorker, WorkerStates
<1>3. ASSUME NEW w \in Workers, WorkerStep(w) PROVE Goal
  <2>0. worker[w] \in WorkerStates
    BY Zenon DEF DispatchTypes
  <2>1. CASE worker' = [worker EXCEPT ![w] = IdleWorker]
    BY Zenon, <1>0, <1>2, <2>1, WorkerKept
  <2>2. CASE ReadClock(w)
    <3> DEFINE x == [IdleWorker EXCEPT !.pc = "claim", !.at = now]
    <3>1. x \in WorkerStates /\ x.pc = "claim"
      BY Zenon, <1>2 DEF IdleWorker, WorkerStates, DispatchTypes
    <3>2. worker' = [worker EXCEPT ![w] = x]
      BY Zenon, <2>2 DEF ReadClock, WorkerGoes
    <3> HIDE DEF x
    <3> QED
      BY Zenon, <1>0, <3>1, <3>2, WorkerKept
  <2>3. ASSUME NEW z \in StreamNames, ClaimNextStream(w, z) PROVE Goal
    <3> DEFINE x == [worker[w] EXCEPT !.pc = "read", !.stream = z]
    <3>1. x \in WorkerStates /\ x.pc = "read" /\ x.stream = z
      BY Zenon, <2>0 DEF WorkerStates
    <3>2. worker' = [worker EXCEPT ![w] = x]
      BY Zenon, <2>3 DEF ClaimNextStream, WorkerGoes
    <3> HIDE DEF x
    <3> QED
      BY Zenon, <1>0, <3>1, <3>2, WorkerKept
  <2>4. CASE ReadBatch(w)
    <3>1. PICK z \in StreamNames : z = worker[w].stream
      BY ZenonT(40), <2>4 DEF ReadBatch, WorkerInv
    <3> DEFINE n == Len(stream[z].log) - stream[z].last
               count == IF n < BatchSize THEN n ELSE BatchSize
               read == stream[z].last + 1 .. stream[z].last + count
               x == [worker[w] EXCEPT !.pc = "spawn", !.batch = read]
    <3>2. stream[z].last \in Nat /\ Len(stream[z].log) \in Nat
      <4>1. stream[z] \in Streams(EndpointIds)
        BY Zenon DEF DispatchTypes
      <4> QED
        BY <4>1 DEF Streams
    <3>3. stream[z].last < Len(stream[z].log)
      BY Zenon, <2>4, <3>1 DEF ReadBatch, CanRead
    <3>4. read \subseteq Ids(z) /\ read \subseteq Nat
      BY SMTT(30), <3>2, <3>3, DispatchAssumption DEF Ids
    <3>5. worker' = [worker EXCEPT ![w] = x]
      BY Zenon, <2>4, <3>1 DEF ReadBatch, WorkerGoes
    <3> HIDE DEF read
    <3>6. x \in WorkerStates /\ x.pc = "spawn" /\ x.stream = z /\ x.batch = read
      BY Zenon, <2>0, <3>1, <3>4 DEF WorkerStates
    <3> HIDE DEF x
    <3> QED
      BY ZenonT(40), <1>0, <3>4, <3>5, <3>6, WorkerKept
  <2>5. CASE ReadNothing(w)
    <3> DEFINE x == [worker[w] EXCEPT !.pc = "remove"]
    <3>1. x \in WorkerStates /\ x.pc = "remove" /\ x.stream = worker[w].stream
      BY Zenon, <2>0 DEF WorkerStates
    <3>2. worker' = [worker EXCEPT ![w] = x] /\ worker[w].stream \in StreamNames
      BY Zenon, <2>5 DEF ReadNothing, WorkerGoes, WorkerInv
    <3> HIDE DEF x
    <3> QED
      BY Zenon, <1>0, <3>1, <3>2, WorkerKept
  <2>6. ASSUME NEW t \in Permits, Spawn(w, t), worker' # [worker EXCEPT ![w] = IdleWorker] PROVE Goal
    <3>1. PICK m : worker' = [worker EXCEPT ![w] = [worker[w] EXCEPT !.batch = worker[w].batch \ {m}]]
      BY Zenon, <2>6 DEF Spawn, WorkerGoes
    <3> DEFINE rest == worker[w].batch \ {m}
               x == [worker[w] EXCEPT !.batch = rest]
    <3>2. worker[w].stream \in StreamNames /\ rest \subseteq Ids(worker[w].stream)
      BY Zenon, <2>6 DEF Spawn, WorkerInv
    <3>3. rest \subseteq Nat
      BY Zenon, <2>0 DEF WorkerStates
    <3>4. worker' = [worker EXCEPT ![w] = x]
      BY Zenon, <3>1
    <3> HIDE DEF rest
    <3>5. x \in WorkerStates /\ x.stream = worker[w].stream /\ x.batch = rest
      BY Zenon, <2>0, <3>3 DEF WorkerStates
    <3> HIDE DEF x
    <3> QED
      BY Zenon, <1>0, <3>2, <3>4, <3>5, WorkerKept
  <2> QED
    BY ZenonT(40), <1>3, <2>1, <2>2, <2>3, <2>4, <2>5, <2>6 DEF WorkerStep, ClaimNothing, RemoveStreamIfEmpty, WorkerStops, WorkerGoes
<1>4. ASSUME NEW t \in Runners, TaskStep(t) PROVE UNCHANGED worker
  BY Zenon, <1>4 DEF TaskStep, FetchJob, FetchNone, CheckBlocked, CheckCircuit, PastCircuit, TryAcquire, Send, NotSent, Answered, SetBlock,
              RecordFault, OpenIt, ResetBreaker, BookkeepingFails, Acknowledge, TaskStops, Goto, TaskGoes
<1>5. ASSUME NEW r \in Registrants, RegistrantStep(r) PROVE UNCHANGED worker
  BY Zenon, <1>5 DEF RegistrantStep, StartUp, Publish, RegisterStream, RegisterLost
<1>6. ASSUME \/ \E t \in Reclaimers, z \in StreamNames : \E m \in stream[z].pel : Reclaim(t, z, m)
             \/ \E z \in StreamNames : Trim(z)
             \/ Time \/ UNCHANGED vars
      PROVE  UNCHANGED worker
  BY Zenon, <1>6 DEF Reclaim, Trim, Time, vars
<1> QED
  BY Zenon, <1>1, <1>3, <1>4, <1>5, <1>6 DEF Next

-----------------------------------------------------------------------------
\* A task goes to another point of process_one, or is over.
TaskMove(t, c, S) ==
    /\ DOMAIN task' = Runners /\ task' = [u \in Runners |-> task'[u]]
    /\ \A u \in Runners : u # t => task'[u] = task[u]
    /\ DOMAIN task'[t] = TaskFields /\ task'[t].pc = c /\ task'[t].sure = S
    /\ c # "idle" => task'[t].stream = task[t].stream /\ task'[t].msg = task[t].msg

Quiet == UNCHANGED <<now, open, blocked, leaked>>

\* Where it may go from where it is, and which guards have answered by then.
Onward(t, c, S) ==
    \/ c \notin {"fetch", "block", "circuit", "slot", "send"}
    \/ c = "block" /\ S = {} /\ Quiet
    \/ c = "circuit" /\ S \subseteq {"block"} /\ ("block" \in S => ~IsBlocked(EndpointOf(t))) /\ Quiet
    \/ /\ task[t].pc = "circuit" /\ c \in {"slot", "send"}
       /\ S \subseteq task[t].sure \cup {"circuit"} /\ ("circuit" \in S => ~IsOpen(EndpointOf(t))) /\ Quiet
    \/ task[t].pc = "slot" /\ c = "send" /\ S = task[t].sure /\ Quiet

\* Goto changes nothing but the point.
LEMMA GotoMove ==
  ASSUME DispatchTypes, NEW t \in Runners, NEW c, Goto(t, c)
  PROVE  TaskMove(t, c, task[t].sure)
<1> DEFINE x == [task[t] EXCEPT !.pc = c]
<1>1. DOMAIN x = TaskFields /\ x.pc = c /\ x.sure = task[t].sure /\ x.stream = task[t].stream /\ x.msg = task[t].msg
  BY Zenon DEF DispatchTypes, TaskFields
<1>2. task' = [task EXCEPT ![t] = x]
  BY Zenon DEF Goto, TaskGoes
<1> HIDE DEF x
<1> QED
  BY Zenon, <1>1, <1>2 DEF DispatchTypes, TaskMove

\* A task that is over.
LEMMA IdleMove ==
  ASSUME DispatchTypes, NEW t \in Runners, task' = [task EXCEPT ![t] = IdleTask]
  PROVE  TaskMove(t, "idle", {})
<1>1. DOMAIN IdleTask = TaskFields /\ IdleTask.pc = "idle" /\ IdleTask.sure = {}
  BY ZenonT(40) DEF IdleTask, TaskFields
<1> QED
  BY Zenon, <1>1 DEF DispatchTypes, TaskMove

\* Every step of process_one.
LEMMA TaskMoves ==
  ASSUME DispatchTypes, TaskInv, NEW t \in Runners, TaskStep(t)
  PROVE  task[t].pc # "idle" /\ \E c, S : TaskMove(t, c, S) /\ Onward(t, c, S)
<1> DEFINE Goal == \E c, S : TaskMove(t, c, S) /\ Onward(t, c, S)
<1>0. DOMAIN task = Runners /\ task = [u \in Runners |-> task[u]] /\ DOMAIN task[t] = TaskFields
  BY Zenon DEF DispatchTypes
<1>1. task[t].pc # "idle"
  BY Zenon DEF TaskStep, FetchJob, FetchNone, CheckBlocked, CheckCircuit, TryAcquire, Send, NotSent, Answered, SetBlock, RecordFault, OpenIt,
         ResetBreaker, BookkeepingFails, Acknowledge, TaskStops
<1>2. ASSUME NEW c, c \notin {"fetch", "block", "circuit", "slot", "send"}, Goto(t, c) PROVE Goal
  BY Zenon, <1>2, GotoMove DEF Onward
<1>3. ASSUME task' = [task EXCEPT ![t] = IdleTask] PROVE Goal
  <2>1. TaskMove(t, "idle", {})
    BY Zenon, <1>3, IdleMove
  <2>2. Onward(t, "idle", {})
    BY Zenon DEF Onward
  <2> QED
    BY Zenon, <2>1, <2>2
<1>4. ASSUME NEW l \in Limits, FetchJob(t, l) PROVE Goal
  <2> DEFINE x == [task[t] EXCEPT !.pc = "block", !.limit = l]
  <2>1. DOMAIN x = TaskFields /\ x.pc = "block" /\ x.sure = task[t].sure /\ x.stream = task[t].stream /\ x.msg = task[t].msg
    BY Zenon, <1>0 DEF TaskFields
  <2>2. task' = [task EXCEPT ![t] = x] /\ task[t].sure = {} /\ Quiet
    BY Zenon, <1>4 DEF FetchJob, TaskGoes, TaskInv, Quiet, guards
  <2> HIDE DEF x
  <2>3. TaskMove(t, "block", {})
    BY Zenon, <1>0, <2>1, <2>2 DEF TaskMove
  <2> QED
    BY Zenon, <2>2, <2>3 DEF Onward
<1>5. ASSUME CheckBlocked(t) PROVE Goal
  <2>0. Quiet /\ task[t].sure = {}
    BY Zenon, <1>5 DEF CheckBlocked, Quiet, guards, TaskInv
  <2>1. CASE Goto(t, "defer")
    BY Zenon, <1>2, <2>1
  <2>2. CASE ~IsBlocked(EndpointOf(t)) /\ TaskGoes(t, [task[t] EXCEPT !.pc = "circuit", !.sure = {"block"}])
    <3> DEFINE x == [task[t] EXCEPT !.pc = "circuit", !.sure = {"block"}]
    <3>1. DOMAIN x = TaskFields /\ x.pc = "circuit" /\ x.sure = {"block"} /\ x.stream = task[t].stream /\ x.msg = task[t].msg
      BY Zenon, <1>0 DEF TaskFields
    <3>2. task' = [task EXCEPT ![t] = x]
      BY Zenon, <2>2 DEF TaskGoes
    <3> HIDE DEF x
    <3>3. TaskMove(t, "circuit", {"block"})
      BY Zenon, <1>0, <3>1, <3>2 DEF TaskMove
    <3> QED
      BY Zenon, <2>0, <2>2, <3>3 DEF Onward
  <2>3. CASE Goto(t, "circuit")
    BY Zenon, <2>0, <2>3, GotoMove DEF Onward
  <2> QED
    BY Zenon, <1>5, <2>1, <2>2, <2>3 DEF CheckBlocked
<1>6. ASSUME CheckCircuit(t) PROVE Goal
  <2>0. Quiet /\ task[t].pc = "circuit"
    BY Zenon, <1>6 DEF CheckCircuit, Quiet, guards
  <2>1. CASE Goto(t, "defer")
    BY <1>2, <2>1
  <2>2. ASSUME NEW S, PastCircuit(t, S), S \subseteq task[t].sure \cup {"circuit"}, "circuit" \in S => ~IsOpen(EndpointOf(t)) PROVE Goal
    <3>1. PICK c \in {"slot", "send"} : TaskGoes(t, [task[t] EXCEPT !.pc = c, !.minute = MinuteOf(now), !.sure = S])
      BY Zenon, <2>2 DEF PastCircuit
    <3> DEFINE x == [task[t] EXCEPT !.pc = c, !.minute = MinuteOf(now), !.sure = S]
    <3>2. DOMAIN x = TaskFields /\ x.pc = c /\ x.sure = S /\ x.stream = task[t].stream /\ x.msg = task[t].msg
      BY Zenon, <1>0 DEF TaskFields
    <3>3. task' = [task EXCEPT ![t] = x]
      BY Zenon, <3>1 DEF TaskGoes
    <3> HIDE DEF x
    <3>4. TaskMove(t, c, S)
      BY Zenon, <1>0, <3>2, <3>3 DEF TaskMove
    <3> QED
      BY <2>0, <2>2, <3>4 DEF Onward
  <2>3. "circuit" \notin task[t].sure
    BY Zenon, <2>0 DEF TaskInv
  <2>4. CASE ~IsOpen(EndpointOf(t)) /\ PastCircuit(t, task[t].sure \cup {"circuit"})
    BY Zenon, <2>2, <2>4
  <2>5. CASE PastCircuit(t, task[t].sure)
    BY Zenon, <2>2, <2>3, <2>5
  <2> QED
    BY Zenon, <1>6, <2>1, <2>4, <2>5 DEF CheckCircuit
<1>7. ASSUME TryAcquire(t) PROVE Goal
  <2>0. Quiet /\ task[t].pc = "slot"
    BY Zenon, <1>7 DEF TryAcquire, Quiet, guards, TakeSlot
  <2>1. CASE Goto(t, "refused")
    BY Zenon, <1>2, <2>1
  <2>2. CASE Goto(t, "send")
    BY ZenonT(40), <2>0, <2>2, GotoMove DEF Onward
  <2> QED
    BY Zenon, <1>7, <2>1, <2>2 DEF TryAcquire
<1>8. ASSUME RecordFault(t) PROVE Goal
  <2>0. PICK n : \E c \in {"open", "ack"} : TaskGoes(t, [task[t] EXCEPT !.pc = c, !.recent = n])
    BY Zenon, <1>8 DEF RecordFault
  <2>1. PICK c \in {"open", "ack"} : TaskGoes(t, [task[t] EXCEPT !.pc = c, !.recent = n])
    BY Zenon, <2>0
  <2> DEFINE x == [task[t] EXCEPT !.pc = c, !.recent = n]
  <2>2. DOMAIN x = TaskFields /\ x.pc = c /\ x.sure = task[t].sure /\ x.stream = task[t].stream /\ x.msg = task[t].msg
    BY Zenon, <1>0 DEF TaskFields
  <2>3. task' = [task EXCEPT ![t] = x]
    BY Zenon, <2>1 DEF TaskGoes
  <2> HIDE DEF x
  <2>4. TaskMove(t, c, task[t].sure)
    BY Zenon, <1>0, <2>2, <2>3 DEF TaskMove
  <2> QED
    BY Zenon, <2>4 DEF Onward
<1>9. ASSUME NEW c \in {"reset", "ack", "block_it", "record"}, Answered(t, c) PROVE Goal
  BY Zenon, <1>2, <1>9 DEF Answered
<1>10. ASSUME \/ FetchNone(t) \/ Send(t) \/ NotSent(t) \/ (\E ttl \in RetryAfters : SetBlock(t, ttl))
              \/ OpenIt(t) \/ ResetBreaker(t) \/ BookkeepingFails(t)
       PROVE  Goal
  BY Zenon, <1>2, <1>10 DEF FetchNone, Send, NotSent, SetBlock, OpenIt, ResetBreaker, BookkeepingFails
<1>11. ASSUME Acknowledge(t) \/ TaskStops(t) PROVE Goal
  BY Zenon, <1>3, <1>11 DEF Acknowledge, TaskStops, TaskGoes
<1> QED
  BY ZenonT(40), <1>1, <1>4, <1>5, <1>6, <1>7, <1>8, <1>9, <1>10, <1>11 DEF TaskStep

\* A task starts with an entry, from a batch or from another consumer.
Starts(t, s, m) ==
    /\ DOMAIN task' = Runners /\ task' = [u \in Runners |-> task'[u]]
    /\ \A u \in Runners : u # t => task'[u] = task[u]
    /\ DOMAIN task'[t] = TaskFields /\ task'[t].pc = "fetch" /\ task'[t].sure = {}
    /\ task'[t].stream = s /\ task'[t].msg = m /\ s \in StreamNames /\ m \in Ids(s)
    /\ Quiet

\* What a step does to tasks.
LEMMA TaskEffect ==
  ASSUME DispatchTypes, WorkerInv, TaskInv, [Next]_vars
  PROVE  \/ \E t \in Runners : TaskStep(t)
         \/ \E t \in Runners, s \in StreamNames : \E m \in Ids(s) : Starts(t, s, m)
         \/ task' = task /\ UNCHANGED <<open, blocked, leaked>> /\ now' \in {now, now + 1}
<1> DEFINE Rest == task' = task /\ UNCHANGED <<open, blocked, leaked>> /\ now' \in {now, now + 1}
<1>1. ASSUME NEW t \in Runners, NEW s \in StreamNames, NEW m \in Ids(s), Quiet,
             task' = [task EXCEPT ![t] = [IdleTask EXCEPT !.pc = "fetch", !.stream = s, !.msg = m]]
      PROVE  Starts(t, s, m)
  <2> DEFINE x == [IdleTask EXCEPT !.pc = "fetch", !.stream = s, !.msg = m]
  <2>1. DOMAIN x = TaskFields /\ x.pc = "fetch" /\ x.sure = {} /\ x.stream = s /\ x.msg = m
    BY Zenon DEF IdleTask, TaskFields
  <2>2. task' = [task EXCEPT ![t] = x]
    BY Zenon, <1>1
  <2> HIDE DEF x
  <2> QED
    BY ZenonT(40), <1>1, <2>1, <2>2 DEF Starts, DispatchTypes
<1>2. ASSUME NEW w \in Workers, NEW t \in Permits, Spawn(w, t) PROVE \E s \in StreamNames : \E m \in Ids(s) : Starts(t, s, m)
  <2>1. PICK m \in worker[w].batch :
          task' = [task EXCEPT ![t] = [IdleTask EXCEPT !.pc = "fetch", !.stream = worker[w].stream, !.msg = m]]
    BY Zenon, <1>2 DEF Spawn, Oldest
  <2>2. worker[w].stream \in StreamNames /\ m \in Ids(worker[w].stream) /\ t \in Runners
    BY Zenon, <1>2, <2>1 DEF Spawn, WorkerInv, Runners
  <2>3. Quiet
    BY Zenon, <1>2 DEF Spawn, WorkerGoes, Quiet, guards
  <2> QED
    BY Zenon, <1>1, <2>1, <2>2, <2>3
<1>3. ASSUME NEW t \in Reclaimers, NEW s \in StreamNames, NEW m \in stream[s].pel, Reclaim(t, s, m)
      PROVE  Starts(t, s, m) /\ m \in Ids(s)
  <2>1. m \in Ids(s) /\ t \in Runners
    BY Zenon, <1>3 DEF Reclaim, Claimable, Readable, Ids, Runners
  <2>2. Quiet /\ task' = [task EXCEPT ![t] = [IdleTask EXCEPT !.pc = "fetch", !.stream = s, !.msg = m]]
    BY Zenon, <1>3 DEF Reclaim, Quiet, guards
  <2> QED
    BY Zenon, <1>1, <2>1, <2>2
<1>4. ASSUME NEW w \in Workers, WorkerStep(w), ~\E t \in Permits : Spawn(w, t) PROVE Rest
  BY ZenonT(40), <1>4 DEF WorkerStep, ReadClock, ClaimNextStream, ClaimNothing, ReadBatch, ReadNothing, RemoveStreamIfEmpty, WorkerStops, WorkerGoes, guards
<1>5. ASSUME NEW r \in Registrants, RegistrantStep(r) PROVE Rest
  BY Zenon, <1>5 DEF RegistrantStep, StartUp, Publish, RegisterStream, RegisterLost, guards
<1>6. ASSUME (\E z \in StreamNames : Trim(z)) \/ Time \/ UNCHANGED vars PROVE Rest
  BY Zenon, <1>6 DEF Trim, Time, Tick, vars, guards
<1>7. Permits \subseteq Runners /\ Reclaimers \subseteq Runners
  BY Zenon DEF Runners
<1> QED
  BY ZenonT(40), <1>2, <1>3, <1>4, <1>5, <1>6, <1>7 DEF Next

\* Tasks keep to entries that exist, and have asked a guard before they trust it.
LEMMA TasksStep ==
  ASSUME DispatchTypes, WorkerInv, TaskInv, [Next]_vars
  PROVE  /\ TaskInv' /\ DOMAIN task' = Runners /\ task' = [t \in Runners |-> task'[t]]
         /\ \A t \in Runners : DOMAIN task'[t] = TaskFields
<1> DEFINE Fits(x) == /\ x.pc # "idle" => x.stream \in StreamNames /\ x.msg \in Ids(x.stream)
                      /\ x.pc \in {"fetch", "block"} => x.sure = {}
                      /\ x.pc = "circuit" => x.sure \subseteq {"block"}
<1>0. \A t \in Runners : Fits(task[t])
  BY Zenon DEF TaskInv
<1>1. ASSUME \A t \in Runners : Fits(task'[t]) PROVE TaskInv'
  <2>1. LogsKept
    BY LogStep DEF LogsKept
  <2> QED
    BY Zenon, <1>1, <2>1 DEF TaskInv, LogsKept, Ids
<1>2. ASSUME NEW t \in Runners, TaskStep(t) PROVE (\A u \in Runners : Fits(task'[u])) /\ \E c, S : TaskMove(t, c, S)
  <2>1. PICK c, S : TaskMove(t, c, S) /\ Onward(t, c, S)
    BY Zenon, <1>2, TaskMoves
  <2>2. task[t].pc # "idle"
    BY Zenon, <1>2, TaskMoves
  <2>3. Fits(task'[t])
    BY Zenon, <1>0, <2>1, <2>2 DEF TaskMove, Onward
  <2> QED
    BY <1>0, <2>1, <2>3 DEF TaskMove
<1>3. ASSUME NEW t \in Runners, NEW s \in StreamNames, NEW m \in Ids(s), Starts(t, s, m) PROVE \A u \in Runners : Fits(task'[u])
  BY <1>0, <1>3 DEF Starts
<1> HIDE DEF Fits
<1>4. CASE \E t \in Runners : TaskStep(t)
  BY <1>1, <1>2, <1>4 DEF TaskMove, DispatchTypes
<1>5. CASE \E t \in Runners, s \in StreamNames : \E m \in Ids(s) : Starts(t, s, m)
  BY ZenonT(40), <1>1, <1>3, <1>5 DEF Starts, DispatchTypes
<1>6. CASE task' = task
  BY Zenon, <1>0, <1>1, <1>6 DEF DispatchTypes
<1> QED
  BY Zenon, <1>4, <1>5, <1>6, TaskEffect

-----------------------------------------------------------------------------
Guards == {"circuit", "block"}

\* A task that did not move is past the same guards of the same endpoint.
LEMMA OthersPast ==
  ASSUME DispatchTypes, WorkerInv, TaskInv, [Next]_vars, NEW t, \A u \in Runners : u # t => task'[u] = task[u],
         NEW g \in Guards, NEW e \in EndpointIds
  PROVE  PastGuard(g, e)' \subseteq PastGuard(g, e) \cup {t}
<1> SUFFICES ASSUME NEW u \in Runners, u # t, Past(g, u)', EndpointOf(u)' = e
             PROVE  u \in PastGuard(g, e)
  BY Zenon DEF PastGuard
<1>1. task'[u] = task[u] /\ Past(g, u)
  BY Zenon DEF Past
<1>2. task[u].stream \in StreamNames /\ task[u].msg \in Ids(task[u].stream)
  BY Zenon, <1>1 DEF Past, TaskInv
<1>3. EndpointOf(u)' = EndpointOf(u)
  BY <1>1, <1>2, LogStep DEF EndpointOf
<1> QED
  BY Zenon, <1>1, <1>3 DEF PastGuard

\* The tasks past a guard are finitely many, at most all.
LEMMA PastFinite ==
  ASSUME NEW S \in SUBSET Runners
  PROVE  /\ IsFiniteSet(S) /\ Cardinality(S) \in Nat /\ Cardinality(S) <= N /\ N \in Nat /\ N > 0
         /\ S # Runners => Cardinality(S) < N
<1>1. IsFiniteSet(S) /\ Cardinality(S) <= N /\ (Cardinality(S) = N => S = Runners)
  BY Zenon, FS_Subset, DispatchAssumption DEF N
<1>2. Cardinality(S) \in Nat /\ N \in Nat
  BY Zenon, <1>1, FS_CardinalityType, DispatchAssumption DEF N
<1>3. N # 0
  BY Zenon, FS_EmptySet, DispatchAssumption DEF N
<1> QED
  BY <1>1, <1>2, <1>3

\* Nothing leaks while no task comes to be past a guard that is shut.
LEMMA LeakKept ==
  ASSUME NEW g \in Guards, NEW e \in EndpointIds, LeakOf(g, e), leaked[e][g] \in Nat, leaked'[e][g] = leaked[e][g],
         Shut(g, e)' => Shut(g, e) /\ PastGuard(g, e)' \subseteq PastGuard(g, e)
  PROVE  LeakOf(g, e)'
<1> DEFINE A == PastGuard(g, e)
           B == PastGuard(g, e)'
<1>1. A \subseteq Runners /\ B \subseteq Runners
  BY Zenon DEF PastGuard
<1>2. ASSUME Shut(g, e)' PROVE Cardinality(B) <= Cardinality(A) /\ Cardinality(B) \in Nat /\ Cardinality(A) \in Nat
  BY Zenon, <1>1, <1>2, PastFinite, FS_Subset
<1>3. Shut(g, e) => leaked[e][g] + Cardinality(A) < N
  BY Zenon DEF LeakOf
<1>4. Shut(g, e)' => leaked'[e][g] + Cardinality(B) < N
  <2> HIDE DEF A, B
  <2>1. N \in Nat
    BY Zenon, PastFinite
  <2> QED
    BY SMTT(30), <1>2, <1>3, <2>1
<1>5. leaked'[e][g] < N
  BY Zenon DEF LeakOf
<1>6. N' = N
  BY Zenon DEF N, Runners
<1> QED
  BY ZenonT(40), <1>4, <1>5, <1>6 DEF LeakOf

\* A guard that is shut anew is shut by a task that is not past it.
LEMMA LeakAnew ==
  ASSUME NEW g \in Guards, NEW e \in EndpointIds, NEW t \in Runners, ~Past(g, t)', leaked'[e][g] = 0
  PROVE  LeakOf(g, e)'
<1> DEFINE B == PastGuard(g, e)'
<1>1. B \subseteq Runners /\ B # Runners
  BY Zenon DEF PastGuard
<1>2. Cardinality(B) < N /\ Cardinality(B) \in Nat /\ N \in Nat /\ N > 0
  BY Zenon, <1>1, PastFinite
<1>3. N' = N
  BY Zenon DEF N, Runners
<1> QED
  BY <1>2, <1>3 DEF LeakOf

\* A task that calls past a shut guard is one of those that were counted.
LEMMA LeakOne ==
  ASSUME NEW g \in Guards, NEW e \in EndpointIds, NEW t \in PastGuard(g, e), LeakOf(g, e), leaked[e][g] \in Nat, Shut(g, e),
         leaked'[e][g] = leaked[e][g] + 1, PastGuard(g, e)' \subseteq PastGuard(g, e) \ {t}
  PROVE  LeakOf(g, e)'
<1> DEFINE A == PastGuard(g, e)
           B == PastGuard(g, e)'
<1>1. A \subseteq Runners /\ t \in A /\ B \subseteq A \ {t}
  BY Zenon DEF PastGuard
<1>2. IsFiniteSet(A) /\ IsFiniteSet(A \ {t}) /\ Cardinality(A) \in Nat
  BY Zenon, <1>1, PastFinite
<1>3. Cardinality(A \ {t}) = Cardinality(A) - 1
  BY Zenon, <1>1, <1>2, FS_RemoveElement
<1>4. Cardinality(B) <= Cardinality(A \ {t}) /\ Cardinality(B) \in Nat
  BY Zenon, <1>1, <1>2, FS_Subset, FS_CardinalityType
<1>5. leaked[e][g] + Cardinality(A) < N
  BY Zenon DEF LeakOf
<1>6. N' = N /\ N \in Nat
  BY Zenon, PastFinite DEF N, Runners
<1> QED
  BY SMTT(30), <1>2, <1>3, <1>4, <1>5, <1>6 DEF LeakOf

LeakCounts == [circuit: Nat, block: Nat]
GuardTypes ==
    /\ now \in Nat /\ open \in [EndpointIds -> Nat] /\ blocked \in [EndpointIds -> Nat] /\ leaked \in [EndpointIds -> LeakCounts]

\* A task that has a job has an endpoint.
LEMMA EndpointType ==
  ASSUME DispatchTypes, TaskInv, NEW t \in Runners, task[t].pc # "idle"
  PROVE  EndpointOf(t) \in EndpointIds
<1>1. PICK s \in StreamNames : s = task[t].stream /\ task[t].msg \in Ids(s)
  BY Zenon DEF TaskInv
<1>2. stream[s] \in Streams(EndpointIds)
  BY Zenon DEF DispatchTypes
<1>3. stream[s].log \in Seq(EndpointIds)
  BY Zenon, <1>2 DEF Streams
<1> QED
  BY <1>1, <1>3 DEF EndpointOf, Ids

\* deliver counts a call for the guards of its endpoint that are shut.
LEMMA SendEffect ==
  ASSUME DispatchTypes, NEW t \in Runners, Send(t), EndpointOf(t) \in EndpointIds
  PROVE  /\ leaked' \in [EndpointIds -> LeakCounts]
         /\ \A g \in Guards, e \in EndpointIds :
              leaked'[e][g] = leaked[e][g] + (IF e = EndpointOf(t) /\ Shut(g, e) /\ g \in task[t].sure THEN 1 ELSE 0)
<1>1. PICK e \in EndpointIds : e = EndpointOf(t)
  OBVIOUS
<1> DEFINE c == IF IsOpen(e) /\ "circuit" \in task[t].sure THEN 1 ELSE 0
           b == IF IsBlocked(e) /\ "block" \in task[t].sure THEN 1 ELSE 0
           x == [leaked[e] EXCEPT !.circuit = @ + c, !.block = @ + b]
<1>2. leaked[e] \in LeakCounts /\ c \in Nat /\ b \in Nat
  BY Zenon DEF DispatchTypes, LeakCounts
<1>3. leaked' = [leaked EXCEPT ![e].circuit = @ + c, ![e].block = @ + b]
  BY Zenon, <1>1 DEF Send
<1>4. c = (IF Shut("circuit", e) /\ "circuit" \in task[t].sure THEN 1 ELSE 0) /\ b = (IF Shut("block", e) /\ "block" \in task[t].sure THEN 1 ELSE 0)
  BY Zenon DEF Shut
<1> HIDE DEF c, b
<1>5. leaked' = [leaked EXCEPT ![e] = x]
  BY Zenon, <1>3 DEF DispatchTypes
<1>6. x \in LeakCounts /\ x["circuit"] = leaked[e]["circuit"] + c /\ x["block"] = leaked[e]["block"] + b
  <2> DEFINE p == leaked[e].circuit + c
             q == leaked[e].block + b
  <2>1. p \in Nat /\ q \in Nat /\ x = [leaked[e] EXCEPT !.circuit = p, !.block = q]
    BY <1>2 DEF LeakCounts
  <2> HIDE DEF p, q, x
  <2>2. x \in LeakCounts /\ x["circuit"] = p /\ x["block"] = q
    BY Zenon, <1>2, <2>1 DEF LeakCounts
  <2> QED
    BY Zenon, <2>2 DEF p, q
<1> HIDE DEF x
<1>7. leaked' \in [EndpointIds -> LeakCounts] /\ leaked'[e] = x /\ \A f \in EndpointIds : f # e => leaked'[f] = leaked[f]
  BY Zenon, <1>5, <1>6 DEF DispatchTypes, LeakCounts
<1>8. \A f \in EndpointIds, g \in Guards : leaked[f][g] \in Nat
  BY Zenon DEF DispatchTypes, Guards
<1> QED
  BY <1>1, <1>4, <1>6, <1>7, <1>8 DEF Guards

\* A count that starts anew.
LEMMA AnewEffect ==
  ASSUME DispatchTypes, NEW g \in Guards, NEW e \in EndpointIds,
         leaked' = IF Shut(g, e) THEN leaked ELSE [leaked EXCEPT ![e][g] = 0]
  PROVE  /\ leaked' \in [EndpointIds -> LeakCounts]
         /\ \A f \in EndpointIds, h \in Guards : leaked'[f][h] = IF f = e /\ h = g /\ ~Shut(g, e) THEN 0 ELSE leaked[f][h]
<1>1. CASE Shut(g, e)
  BY Zenon, <1>1 DEF DispatchTypes, LeakCounts
<1>2. CASE ~Shut(g, e)
  <2> DEFINE x == [leaked[e] EXCEPT ![g] = 0]
  <2>1. leaked[e] \in LeakCounts
    BY Zenon DEF DispatchTypes, LeakCounts
  <2>2. x \in LeakCounts /\ x[g] = 0 /\ \A h \in Guards : h # g => x[h] = leaked[e][h]
    BY Zenon, <2>1 DEF LeakCounts, Guards
  <2>3. leaked' = [leaked EXCEPT ![e] = x]
    BY Zenon, <1>2 DEF DispatchTypes
  <2> HIDE DEF x
  <2>4. leaked' \in [EndpointIds -> LeakCounts] /\ leaked'[e] = x /\ \A f \in EndpointIds : f # e => leaked'[f] = leaked[f]
    BY Zenon, <2>2, <2>3 DEF DispatchTypes, LeakCounts
  <2>5. ASSUME NEW f \in EndpointIds, NEW h \in Guards PROVE leaked'[f][h] = IF f = e /\ h = g THEN 0 ELSE leaked[f][h]
    <3>1. CASE f = e
      <4>1. leaked'[f] = x
        BY Zenon, <2>4, <3>1
      <4>2. CASE h = g
        <5>1. x[h] = 0
          BY Zenon, <2>2, <4>2
        <5>2. leaked'[f][h] = 0
          BY Zenon, <4>1, <5>1
        <5> QED
          BY Zenon, <3>1, <4>2, <5>2
      <4>3. CASE h # g
        <5>1. x[h] = leaked[e][h]
          BY Zenon, <2>2, <4>3
        <5> QED
          BY Zenon, <3>1, <4>1, <4>3, <5>1
      <4> QED
        BY Zenon, <4>2, <4>3
    <3>2. CASE f # e
      BY Zenon, <2>4, <3>2
    <3> QED
      BY Zenon, <3>1, <3>2
  <2> QED
    BY <1>2, <2>4, <2>5
<1> QED
  BY Zenon, <1>1, <1>2

\* The steps of process_one that are not quiet.
LEMMA LoudSteps ==
  ASSUME DispatchTypes, TaskInv, NEW t \in Runners, TaskStep(t)
  PROVE  Quiet \/ Send(t) \/ (\E ttl \in RetryAfters : SetBlock(t, ttl)) \/ OpenIt(t) \/ ResetBreaker(t)
BY Zenon DEF TaskStep, FetchJob, FetchNone, CheckBlocked, CheckCircuit, PastCircuit, TryAcquire, NotSent, Answered, RecordFault, BookkeepingFails,
       Acknowledge, TaskStops, TakeSlot, RecordFailure, Quiet, guards

\* While a guard is shut, calls and tasks that may still call stay fewer than
\* there can be in process_one.
LEMMA LeakStep ==
  ASSUME DispatchTypes, WorkerInv, TaskInv, LeakInv, [Next]_vars
  PROVE  GuardTypes' /\ LeakInv'
<1>0. GuardTypes /\ \A g \in Guards, e \in EndpointIds : leaked[e][g] \in Nat /\ LeakOf(g, e)
  BY Zenon DEF DispatchTypes, GuardTypes, LeakCounts, Guards, LeakInv
<1>1. ASSUME task' = task, UNCHANGED <<open, blocked, leaked>>, now' \in {now, now + 1} PROVE GuardTypes' /\ LeakInv'
  <2>1. GuardTypes'
    BY SMTT(30), <1>0, <1>1 DEF GuardTypes
  <2>2. ASSUME NEW g \in Guards, NEW e \in EndpointIds PROVE LeakOf(g, e)'
    <3>1. Shut(g, e)' => Shut(g, e)
      BY <1>0, <1>1 DEF Shut, IsOpen, IsBlocked, GuardTypes
    <3>2. PastGuard(g, e)' \subseteq PastGuard(g, e)
      <4>1. PICK t : t \notin Runners
        BY Zenon, NoSetContainsEverything
      <4>2. PastGuard(g, e)' \subseteq PastGuard(g, e) \cup {t}
        BY Zenon, <1>1, OthersPast
      <4> QED
        BY Zenon, <4>1, <4>2 DEF PastGuard
    <3> QED
      BY ZenonT(40), <1>0, <1>1, <3>1, <3>2, LeakKept
  <2> QED
    BY Zenon, <2>1, <2>2 DEF LeakInv, Guards
<1>2. ASSUME NEW t \in Runners, NEW s \in StreamNames, NEW m \in Ids(s), Starts(t, s, m) PROVE GuardTypes' /\ LeakInv'
  <2>1. GuardTypes' /\ Quiet
    BY Zenon, <1>0, <1>2 DEF GuardTypes, Starts, Quiet
  <2>2. ASSUME NEW g \in Guards, NEW e \in EndpointIds PROVE LeakOf(g, e)'
    <3>1. ~Past(g, t)'
      BY Zenon, <1>2 DEF Starts, Past
    <3>2. PastGuard(g, e)' \subseteq PastGuard(g, e) \cup {t}
      BY Zenon, <1>2, OthersPast DEF Starts
    <3>3. PastGuard(g, e)' \subseteq PastGuard(g, e)
      BY Zenon, <3>1, <3>2 DEF PastGuard
    <3>4. Shut(g, e)' => Shut(g, e)
      BY Zenon, <2>1 DEF Shut, IsOpen, IsBlocked, Quiet
    <3> QED
      BY ZenonT(40), <1>0, <2>1, <3>3, <3>4, LeakKept DEF Quiet
  <2> QED
    BY Zenon, <2>1, <2>2 DEF LeakInv, Guards
<1>3. ASSUME NEW t \in Runners, TaskStep(t) PROVE GuardTypes' /\ LeakInv'
  <2>1. PICK c, S : TaskMove(t, c, S) /\ Onward(t, c, S)
    BY Zenon, <1>3, TaskMoves
  <2>2. PICK f \in EndpointIds : f = EndpointOf(t)
    BY Zenon, <1>3, TaskMoves, EndpointType
  <2>3. ASSUME NEW g \in Guards, NEW e \in EndpointIds PROVE PastGuard(g, e)' \subseteq PastGuard(g, e) \cup {t}
    BY ZenonT(40), <2>1, OthersPast DEF TaskMove
  <2>4. c # "idle" => EndpointOf(t)' = f
    <3>1. task[t].stream \in StreamNames /\ task[t].msg \in Ids(task[t].stream)
      BY Zenon, <1>3, TaskMoves DEF TaskInv
    <3> QED
      BY SMTT(30), <2>1, <2>2, <3>1, LogStep DEF TaskMove, EndpointOf
  <2>5. CASE Quiet
    <3>1. GuardTypes'
      BY Zenon, <1>0, <2>5 DEF GuardTypes, Quiet
    <3>2. ASSUME NEW g \in Guards, NEW e \in EndpointIds PROVE LeakOf(g, e)'
      <4>1. Shut(g, e)' <=> Shut(g, e)
        BY Zenon, <2>5 DEF Shut, IsOpen, IsBlocked, Quiet
      <4>2. ASSUME t \in PastGuard(g, e)', Shut(g, e) PROVE t \in PastGuard(g, e)
        <5>1. e = f /\ g \in S /\ (c \in {"slot", "send"} \/ (g = "block" /\ c = "circuit"))
          BY Zenon, <2>1, <2>4, <4>2 DEF PastGuard, Past, TaskMove
        <5>2. CASE c = "circuit"
          BY ZenonT(40), <2>1, <2>2, <4>2, <5>1, <5>2 DEF Onward, Shut
        <5>3. CASE task[t].pc = "circuit" /\ S \subseteq task[t].sure \cup {"circuit"} /\ ("circuit" \in S => ~IsOpen(EndpointOf(t)))
          <6>1. g = "block"
            BY ZenonT(40), <2>2, <4>2, <5>1, <5>3 DEF Shut, Guards
          <6> QED
            BY ZenonT(40), <2>2, <5>1, <5>3, <6>1 DEF PastGuard, Past
        <5>4. CASE task[t].pc = "slot" /\ S = task[t].sure
          BY Zenon, <2>2, <5>1, <5>4 DEF PastGuard, Past
        <5> QED
          BY ZenonT(40), <2>1, <5>1, <5>2, <5>3, <5>4 DEF Onward
      <4>3. Shut(g, e)' => Shut(g, e) /\ PastGuard(g, e)' \subseteq PastGuard(g, e)
        BY Zenon, <2>3, <4>1, <4>2
      <4> QED
        BY Zenon, <1>0, <2>5, <4>3, LeakKept DEF Quiet
    <3> QED
      BY Zenon, <3>1, <3>2 DEF LeakInv, Guards
  <2>6. ASSUME c \notin {"circuit", "slot", "send"}, NEW g \in Guards, NEW e \in EndpointIds
        PROVE  ~Past(g, t)' /\ PastGuard(g, e)' \subseteq PastGuard(g, e) \ {t}
    <3>1. ~Past(g, t)'
      BY Zenon, <2>1, <2>6 DEF Past, TaskMove
    <3> QED
      BY Zenon, <2>3, <3>1 DEF PastGuard
  <2>7. CASE Send(t)
    <3>1. UNCHANGED <<now, open, blocked>> /\ c = "wait" /\ task[t].pc = "send"
      BY ZenonT(40), <2>1, <2>7, GotoMove DEF Send, guards, TaskMove
    <3>2. /\ leaked' \in [EndpointIds -> LeakCounts]
          /\ \A g \in Guards, e \in EndpointIds :
               leaked'[e][g] = leaked[e][g] + (IF e = f /\ Shut(g, e) /\ g \in task[t].sure THEN 1 ELSE 0)
      BY ZenonT(40), <2>2, <2>7, SendEffect
    <3>3. GuardTypes'
      BY ZenonT(40), <1>0, <3>1, <3>2 DEF GuardTypes
    <3>4. ASSUME NEW g \in Guards, NEW e \in EndpointIds PROVE LeakOf(g, e)'
      <4>1. Shut(g, e)' <=> Shut(g, e)
        BY Zenon, <3>1 DEF Shut, IsOpen, IsBlocked
      <4>2. CASE e = f /\ Shut(g, e) /\ g \in task[t].sure
        <5>1. t \in PastGuard(g, e)
          BY Zenon, <2>2, <3>1, <4>2 DEF PastGuard, Past
        <5> QED
          BY ZenonT(40), <1>0, <2>6, <3>1, <3>2, <4>2, <5>1, LeakOne
      <4>3. CASE ~(e = f /\ Shut(g, e) /\ g \in task[t].sure)
        <5>1. leaked'[e][g] = leaked[e][g]
          BY <1>0, <3>2, <4>3
        <5> QED
          BY ZenonT(40), <1>0, <2>6, <3>1, <4>1, <5>1, LeakKept
      <4> QED
        BY Zenon, <4>2, <4>3
    <3> QED
      BY <3>3, <3>4 DEF LeakInv, Guards
  <2>8. ASSUME NEW h \in Guards, c = "ack", leaked' = IF Shut(h, f) THEN leaked ELSE [leaked EXCEPT ![f][h] = 0],
               \A g \in Guards, e \in EndpointIds : e # f \/ g # h => (Shut(g, e)' <=> Shut(g, e)),
               now' = now, open' \in [EndpointIds -> Nat], blocked' \in [EndpointIds -> Nat]
        PROVE  GuardTypes' /\ LeakInv'
    <3>1. /\ leaked' \in [EndpointIds -> LeakCounts]
          /\ \A e \in EndpointIds, g \in Guards : leaked'[e][g] = IF e = f /\ g = h /\ ~Shut(h, f) THEN 0 ELSE leaked[e][g]
      BY ZenonT(40), <2>8, AnewEffect
    <3>2. GuardTypes'
      BY Zenon, <1>0, <2>8, <3>1 DEF GuardTypes
    <3>3. ASSUME NEW g \in Guards, NEW e \in EndpointIds PROVE LeakOf(g, e)'
      <4>1. CASE e = f /\ g = h /\ ~Shut(h, f)
        BY ZenonT(40), <2>6, <2>8, <3>1, <4>1, LeakAnew
      <4>2. CASE ~(e = f /\ g = h /\ ~Shut(h, f))
        <5>1. leaked'[e][g] = leaked[e][g] /\ (Shut(g, e)' => Shut(g, e))
          BY ZenonT(40), <2>8, <3>1, <4>2
        <5> QED
          BY ZenonT(40), <1>0, <2>6, <2>8, <5>1, LeakKept
      <4> QED
        BY Zenon, <4>1, <4>2
    <3> QED
      BY Zenon, <3>2, <3>3 DEF LeakInv, Guards
  <2>9. ASSUME NEW ttl \in RetryAfters, SetBlock(t, ttl) PROVE GuardTypes' /\ LeakInv'
    <3>1. c = "ack"
      BY Zenon, <2>1, <2>9, GotoMove DEF SetBlock, TaskMove
    <3>2. UNCHANGED <<now, open>> /\ blocked' = IF ttl = 0 THEN blocked ELSE [blocked EXCEPT ![f] = now + ttl]
      BY Zenon, <2>2, <2>9 DEF SetBlock, SetBlocked
    <3>3. open' \in [EndpointIds -> Nat] /\ blocked' \in [EndpointIds -> Nat]
      BY <1>0, <3>2, DispatchAssumption DEF GuardTypes
    <3>4. \A g \in Guards, e \in EndpointIds : e # f \/ g # "block" => (Shut(g, e)' <=> Shut(g, e))
      BY Zenon, <1>0, <3>2 DEF Shut, IsOpen, IsBlocked, Guards, GuardTypes
    <3>5. leaked' = IF Shut("block", f) THEN leaked ELSE [leaked EXCEPT ![f]["block"] = 0]
      BY ZenonT(40), <2>2, <2>9 DEF SetBlock, Shut
    <3> QED
      BY ZenonT(40), <2>8, <3>1, <3>2, <3>3, <3>4, <3>5 DEF Guards
  <2>10. CASE OpenIt(t)
    <3>1. c = "ack"
      BY ZenonT(40), <2>1, <2>10, GotoMove DEF OpenIt, TaskMove
    <3>2. UNCHANGED <<now, blocked>> /\ open' = [open EXCEPT ![f] = now + Cooldown]
      BY Zenon, <2>2, <2>10 DEF OpenIt, OpenCircuit
    <3>3. open' \in [EndpointIds -> Nat] /\ blocked' \in [EndpointIds -> Nat]
      BY <1>0, <3>2, GuardsAssumption DEF GuardTypes
    <3>4. \A g \in Guards, e \in EndpointIds : e # f \/ g # "circuit" => (Shut(g, e)' <=> Shut(g, e))
      BY Zenon, <1>0, <3>2 DEF Shut, IsOpen, IsBlocked, Guards, GuardTypes
    <3>5. leaked' = IF Shut("circuit", f) THEN leaked ELSE [leaked EXCEPT ![f]["circuit"] = 0]
      BY Zenon, <2>2, <2>10 DEF OpenIt, Shut
    <3> QED
      BY Zenon, <2>8, <3>1, <3>2, <3>3, <3>4, <3>5 DEF Guards
  <2>11. CASE ResetBreaker(t)
    <3>1. c = "ack"
      BY ZenonT(40), <2>1, <2>11, GotoMove DEF ResetBreaker, TaskMove
    <3>2. UNCHANGED <<now, blocked, leaked>> /\ open' = [open EXCEPT ![f] = 0]
      BY Zenon, <2>2, <2>11 DEF ResetBreaker, Reset
    <3>3. GuardTypes'
      BY ZenonT(40), <1>0, <3>2 DEF GuardTypes
    <3>4. ASSUME NEW g \in Guards, NEW e \in EndpointIds PROVE LeakOf(g, e)'
      <4>1. Shut(g, e)' => Shut(g, e)
        BY <1>0, <3>2 DEF Shut, IsOpen, IsBlocked, GuardTypes
      <4> QED
        BY ZenonT(40), <1>0, <2>6, <3>1, <3>2, <4>1, LeakKept
    <3> QED
      BY <3>3, <3>4 DEF LeakInv, Guards
  <2> QED
    BY ZenonT(40), <1>3, <2>5, <2>7, <2>9, <2>10, <2>11, LoudSteps
<1> QED
  BY Zenon, <1>1, <1>2, <1>3, TaskEffect

-----------------------------------------------------------------------------
\* The invariant holds whatever the streams hold at first, and every step keeps it.
LEMMA DispatchInvariant == Spec => []DispatchInv
<1>1. ASSUME Init PROVE DispatchInv
  <2>1. PICK x \in Scenarios :
          /\ stream = [s \in StreamNames |-> [EmptyStream(TRUE) EXCEPT !.log = x.backlog[s]]]
          /\ scheduled = [s \in {y \in StreamNames : x.backlog[y] # <<>>} |-> 0]
    BY Zenon, <1>1 DEF Init
  <2>2. x.backlog \in [StreamNames -> Seq(EndpointIds)]
    BY Zenon, DispatchAssumption
  <2>3. ASSUME NEW s \in StreamNames
        PROVE  stream[s] \in Streams(EndpointIds) /\ stream[s].log = x.backlog[s] /\ stream[s].pel = {} /\ stream[s].last = 0
    BY Zenon, <2>1, <2>2 DEF EmptyStream, Streams
  <2>4. IdleWorker \in WorkerStates /\ IdleWorker.pc = "idle"
    BY Zenon DEF IdleWorker, WorkerStates
  <2>5. DOMAIN IdleTask = TaskFields /\ IdleTask.pc = "idle"
    BY Zenon DEF IdleTask, TaskFields
  <2>6. stream \in [StreamNames -> Streams(EndpointIds)] /\ IsSortedSet(scheduled, StreamNames)
    BY Zenon, <2>1, <2>3 DEF IsSortedSet
  <2>7. leaked \in [EndpointIds -> [circuit: Nat, block: Nat]] /\ \A e \in EndpointIds : leaked[e]["circuit"] = 0 /\ leaked[e]["block"] = 0
    BY Zenon, <1>1 DEF Init
  <2>8. DispatchTypes
    BY Zenon, <1>1, <2>4, <2>5, <2>6, <2>7 DEF Init, GuardsInit, DispatchTypes
  <2>9. WorkerInv /\ TaskInv
    BY Zenon, <1>1, <2>4, <2>5 DEF Init, WorkerInv, TaskInv
  <2>10. TurnInv
    <3>1. \A s, z \in StreamNames : passed[s][z] = 0 /\ rejoined[s][z] = 0
      BY Zenon, <1>1 DEF Init
    <3> QED
      BY <3>1 DEF TurnInv, TurnOf
  <2>11. NoStrandedStream
    <3>1. ASSUME NEW s \in StreamNames, NEW m \in 1..Len(stream[s].log) PROVE s \in DOMAIN scheduled
      <4>1. x.backlog[s] # <<>>
        BY SMTT(30), <2>2, <2>3, <3>1
      <4> QED
        BY ZenonT(40), <2>1, <4>1
    <3> QED
      BY Zenon, <3>1 DEF NoStrandedStream
  <2>12. LeakInv
    <3>1. \A t \in Runners : task[t].pc = "idle"
      BY Zenon, <1>1, <2>5 DEF Init
    <3>2. \A e \in EndpointIds : ~Shut("circuit", e) /\ ~Shut("block", e)
      BY <1>1 DEF Init, GuardsInit, Shut, IsOpen, IsBlocked
    <3>3. N \in Nat /\ N > 0
      BY Zenon, PastFinite
    <3> QED
      BY Zenon, <2>7, <3>2, <3>3 DEF LeakInv, LeakOf
  <2> QED
    BY Zenon, <2>8, <2>9, <2>10, <2>11, <2>12 DEF DispatchInv
<1>2. ASSUME DispatchInv, [Next]_vars PROVE DispatchInv'
  <2>0. DispatchTypes /\ WorkerInv /\ TaskInv /\ TurnInv /\ NoStrandedStream /\ LeakInv
    BY Zenon, <1>2 DEF DispatchInv
  <2>1. stream' \in [StreamNames -> Streams(EndpointIds)]
    BY Zenon, <1>2, <2>0, LogStep
  <2>2. NoStrandedStream'
    BY Zenon, <1>2, <2>0, StrandedStep
  <2>3. IsSortedSet(scheduled, StreamNames)' /\ passed' \in Turns /\ rejoined' \in Turns /\ TurnInv'
    BY Zenon, <1>2, <2>0, TurnStep
  <2>4. worker' \in [Workers -> WorkerStates] /\ WorkerInv'
    BY Zenon, <1>2, <2>0, WorkersStep
  <2>5. /\ TaskInv' /\ DOMAIN task' = Runners /\ task' = [t \in Runners |-> task'[t]]
        /\ \A t \in Runners : DOMAIN task'[t] = TaskFields
    BY Zenon, <1>2, <2>0, TasksStep
  <2>6. GuardTypes' /\ LeakInv'
    BY Zenon, <1>2, <2>0, LeakStep
  <2>7. registrant' \in [Registrants -> StreamNames \cup {Nobody}]
    <3>1. UNCHANGED registrant \/ \E r \in Registrants, s \in StreamNames \cup {Nobody} : registrant' = [registrant EXCEPT ![r] = s]
      <4>1. ASSUME NEW r \in Registrants, RegistrantStep(r)
            PROVE  \E s \in StreamNames \cup {Nobody} : registrant' = [registrant EXCEPT ![r] = s]
        BY Zenon, <4>1 DEF RegistrantStep, StartUp, Publish, RegisterStream, RegisterLost
      <4>2. ASSUME NEW w \in Workers, WorkerStep(w) PROVE UNCHANGED registrant
        BY Zenon, <4>2 DEF WorkerStep, ReadClock, ClaimNextStream, ClaimNothing, ReadBatch, ReadNothing, RemoveStreamIfEmpty, Spawn, WorkerStops,
                    WorkerGoes
      <4>3. ASSUME NEW t \in Runners, TaskStep(t) PROVE UNCHANGED registrant
        BY Zenon, <4>3 DEF TaskStep, FetchJob, FetchNone, CheckBlocked, CheckCircuit, PastCircuit, TryAcquire, Send, NotSent, Answered, SetBlock,
                    RecordFault, OpenIt, ResetBreaker, BookkeepingFails, Acknowledge, TaskStops, Goto, TaskGoes
      <4>4. ASSUME \/ \E t \in Reclaimers, z \in StreamNames : \E m \in stream[z].pel : Reclaim(t, z, m)
                   \/ \E z \in StreamNames : Trim(z)
                   \/ Time \/ UNCHANGED vars
            PROVE  UNCHANGED registrant
        BY Zenon, <4>4 DEF Reclaim, Trim, Time, vars
      <4> QED
        BY Zenon, <1>2, <4>1, <4>2, <4>3, <4>4 DEF Next
    <3> QED
      BY Zenon, <2>0, <3>1 DEF DispatchTypes
  <2>8. DispatchTypes'
    BY ZenonT(40), <2>1, <2>3, <2>4, <2>5, <2>6, <2>7 DEF DispatchTypes, GuardTypes, Turns, LeakCounts
  <2> QED
    BY Zenon, <2>2, <2>3, <2>4, <2>5, <2>6, <2>8 DEF DispatchInv
<1> QED
  BY <1>1, <1>2, PTL DEF Spec

\* No stream with something to read drops out of the workers' sight, however
\* XADD, register_stream and remove_stream_if_empty interleave.
THEOREM StreamsAreFound == Spec => []NoStrandedStream
BY DispatchInvariant, PTL DEF DispatchInv

\* Streams take turns, for any number of streams, workers and publishers: who
\* waits is passed at most once by each other stream, and once more for every
\* time that stream was emptied and registered again.
THEOREM StreamsTakeTurns == Spec => []NoOvertaking
<1>1. ASSUME DispatchInv, NEW x \in StreamNames, NEW y \in StreamNames PROVE passed[x][y] <= 1 + rejoined[x][y]
  <2>1. passed[x][y] \in Nat /\ rejoined[x][y] \in Nat /\ TurnOf(x, y)
    BY Zenon, <1>1 DEF DispatchInv, DispatchTypes, TurnInv
  <2> QED
    BY <2>1 DEF TurnOf
<1>2. DispatchInv => NoOvertaking
  BY Zenon, <1>1 DEF DispatchInv, DispatchTypes, IsSortedSet, NoOvertaking
<1> QED
  BY <1>2, DispatchInvariant, PTL

\* Fewer calls than there can be in process_one pass a guard after it was shut,
\* whatever the permits, the reclaim loops and the lengths of blocks.
THEOREM LeaksAreFew == Spec => []LeakIsBounded
<1>1. DispatchInv => LeakIsBounded
  BY Zenon DEF DispatchInv, LeakInv, LeakOf, LeakIsBounded, N
<1> QED
  BY <1>1, DispatchInvariant, PTL

-----------------------------------------------------------------------------
(* The rate limit and the circuit breaker keep count. *)

MeterTypes ==
    /\ now \in 1..MaxTime
    /\ fails \in [EndpointIds -> Counters] /\ failures \in [EndpointIds -> SUBSET (Nat \X Nat)]
    /\ slots \in [EndpointIds -> [Minutes -> Counters]] /\ granted \in [EndpointIds -> Nat]

\* The counter of the present minute is the number of slots given out in it,
\* and outlives the minute; those of later minutes have not been counted.
SlotOf(e) ==
    /\ \E l \in Limits : granted[e] <= l
    /\ \A m \in Minutes : m > MinuteOf(now) => slots[e][m].count = 0
    /\ slots[e][MinuteOf(now)].count = granted[e]
    /\ granted[e] # 0 => \A x \in Nat : MinuteOf(x) = MinuteOf(now) => slots[e][MinuteOf(now)].expires > x

\* The failures that the breaker's counter has counted are not yet forgotten.
Counted(e) == {f \in failures[e] : f[1] + Window >= fails[e].expires}
FailOf(e) ==
    /\ IsFiniteSet(failures[e])
    /\ \A f \in failures[e] : f[1] <= now /\ (f[1] = now => f[2] < Cardinality(failures[e]))
    /\ fails[e].expires > now => fails[e].expires <= now + Window /\ fails[e].count <= Cardinality(Counted(e))

\* What a task knows of either.
Rated(t) ==
    /\ task[t].pc \in {"block", "circuit", "slot"} => task[t].limit \in Limits
    /\ task[t].pc \in {"slot", "refused"} => task[t].limit \in Nat /\ task[t].minute \in Nat /\ task[t].minute <= MinuteOf(now)
    /\ task[t].pc = "refused" /\ task[t].minute = MinuteOf(now) => granted[EndpointOf(t)] >= task[t].limit
    /\ task[t].pc = "open" => task[t].recent >= Threshold

MeterInv ==
    /\ MeterTypes
    /\ \A e \in EndpointIds : SlotOf(e) /\ FailOf(e)
    /\ \A t \in Runners : Rated(t)

\* A bucket of the rate limit is shorter than the TTL of its counter.
LEMMA MinuteFacts ==
  ASSUME NEW t \in Nat
  PROVE  /\ MinuteOf(t) \in Nat
         /\ \A x \in Nat : t <= x => MinuteOf(t) <= MinuteOf(x)
         /\ \A x \in Nat : MinuteOf(x) = MinuteOf(t) => x < t + SlotTtl
<1>1. Minute \in Nat \ {0} /\ SlotTtl \in Nat /\ SlotTtl > Minute
  BY Zenon, GuardsAssumption
<1>2. MinuteOf(t) \in Nat
  BY <1>1 DEF MinuteOf
<1>3. ASSUME NEW x \in Nat, t <= x PROVE MinuteOf(t) <= MinuteOf(x)
  BY <1>1, <1>3 DEF MinuteOf
<1>4. ASSUME NEW x \in Nat, MinuteOf(x) = MinuteOf(t) PROVE x < t + SlotTtl
  <2>1. x < t + Minute
    BY <1>1, <1>4 DEF MinuteOf
  <2> QED
    BY <1>1, <2>1
<1> QED
  BY Zenon, <1>2, <1>3, <1>4

\* The present minute has a counter.
LEMMA MinuteNow ==
  ASSUME MeterTypes
  PROVE  now \in Nat /\ MinuteOf(now) \in Nat /\ MinuteOf(now) \in Minutes /\ \A m \in Minutes : m \in Nat
<1>1. now \in Nat /\ MaxTime \in Nat /\ now <= MaxTime
  BY GuardsAssumption DEF MeterTypes
<1>2. MinuteOf(now) \in Nat /\ MinuteOf(MaxTime) \in Nat /\ MinuteOf(now) <= MinuteOf(MaxTime)
  BY Zenon, <1>1, MinuteFacts
<1> QED
  BY SMTT(30), <1>1, <1>2 DEF Minutes

\* INCR counts one more than a reader of the key sees, and EXPIRE is only set
\* with the first.
LEMMA IncrFacts ==
  ASSUME NEW k \in Counters, NEW ttl \in Nat, now \in Nat
  PROVE  /\ Incr(k, ttl) \in Counters /\ Value(k) \in Nat
         /\ Incr(k, ttl).count = Value(k) + 1
         /\ Incr(k, ttl).expires = IF Value(k) = 0 THEN now + ttl ELSE k.expires
<1>1. k.count \in Nat /\ k.expires \in Nat /\ Value(k) \in Nat
  BY Zenon DEF Counters, Value
<1>2. CASE Value(k) = 0
  <2>1. Incr(k, ttl) = [count |-> 1, expires |-> now + ttl]
    BY Zenon, <1>2 DEF Incr
  <2> QED
    BY <1>1, <1>2, <2>1 DEF Counters
<1>3. CASE Value(k) # 0
  <2> DEFINE n == k.count + 1
  <2>1. Incr(k, ttl) = [k EXCEPT !.count = n]
    BY Zenon, <1>3 DEF Incr
  <2>2. n \in Nat /\ n = Value(k) + 1
    BY <1>1, <1>3 DEF Value
  <2> HIDE DEF n
  <2>3. [k EXCEPT !.count = n] \in Counters /\ [k EXCEPT !.count = n].count = n /\ [k EXCEPT !.count = n].expires = k.expires
    BY ZenonT(40), <2>2 DEF Counters
  <2> QED
    BY Zenon, <1>1, <1>3, <2>1, <2>2, <2>3
<1> QED
  BY Zenon, <1>2, <1>3

\* What try_acquire finds in the present minute.
LEMMA SlotValue ==
  ASSUME MeterTypes, NEW e \in EndpointIds, SlotOf(e)
  PROVE  Value(slots[e][MinuteOf(now)]) = granted[e]
<1>1. now \in Nat /\ MinuteOf(now) \in Minutes
  BY Zenon, MinuteNow
<1>2. slots[e][MinuteOf(now)] \in Counters /\ granted[e] \in Nat
  BY Zenon, <1>1 DEF MeterTypes
<1>3. granted[e] # 0 => slots[e][MinuteOf(now)].expires > now
  BY Zenon, <1>1 DEF SlotOf
<1> QED
  BY Zenon, <1>2, <1>3 DEF SlotOf, Value, Counters

\* A slot is taken from the counter of the minute that the task read.
LEMMA SlotTaken ==
  ASSUME MeterTypes, NEW e \in EndpointIds, SlotOf(e), NEW m \in Nat, m <= MinuteOf(now),
         NEW l \in Limits, Allowed(e, m, l), TakeSlot(e, m)
  PROVE  /\ slots' \in [EndpointIds -> [Minutes -> Counters]] /\ granted' \in [EndpointIds -> Nat]
         /\ granted[e] <= granted'[e] /\ SlotOf(e)'
         /\ \A d \in EndpointIds \ {e} : slots'[d] = slots[d] /\ granted'[d] = granted[d]
<1> DEFINE cur == MinuteOf(now)
           k == slots[e][m]
           new == Incr(k, SlotTtl)
<1>1. now \in Nat /\ cur \in Nat /\ cur \in Minutes /\ m \in Minutes /\ now' = now
  <2>1. now \in Nat /\ cur \in Nat /\ cur \in Minutes /\ now' = now
    BY Zenon, MinuteNow DEF TakeSlot
  <2>2. MinuteOf(MaxTime) \in Nat
    BY Zenon, MinuteFacts, GuardsAssumption
  <2>3. m \in Minutes
    BY SMTT(30), <2>1, <2>2 DEF Minutes
  <2> QED
    BY Zenon, <2>1, <2>3
<1>2. k \in Counters /\ granted[e] \in Nat /\ SlotTtl \in Nat
  BY Zenon, <1>1, GuardsAssumption DEF MeterTypes
<1>3. /\ new \in Counters /\ Value(k) \in Nat /\ new.count = Value(k) + 1
      /\ new.expires = IF Value(k) = 0 THEN now + SlotTtl ELSE k.expires
  BY Zenon, <1>1, <1>2, IncrFacts
<1>4. slots' = [slots EXCEPT ![e] = [slots[e] EXCEPT ![m] = new]]
  BY Zenon DEF TakeSlot, MeterTypes
<1> HIDE DEF new
<1>5. /\ slots' \in [EndpointIds -> [Minutes -> Counters]]
      /\ slots'[e] = [slots[e] EXCEPT ![m] = new] /\ \A d \in EndpointIds \ {e} : slots'[d] = slots[d]
  BY Zenon, <1>3, <1>4 DEF MeterTypes
<1>6. slots'[e][m] = new /\ \A i \in Minutes \ {m} : slots'[e][i] = slots[e][i]
  BY Zenon, <1>1, <1>5 DEF MeterTypes
<1>7. CASE m # cur
  <2>1. granted' = granted
    BY Zenon, <1>7 DEF TakeSlot
  <2>2. ~(m > cur) /\ cur \in Minutes \ {m} /\ granted[e] <= granted[e]
    BY <1>1, <1>2, <1>7
  <2>3. \A i \in Minutes : i > cur => slots'[e][i].count = 0
    BY Zenon, <1>6, <2>2 DEF SlotOf
  <2>4. slots'[e][cur] = slots[e][cur]
    BY Zenon, <1>6, <2>2
  <2>5. SlotOf(e)'
    BY Zenon, <1>1, <2>1, <2>3, <2>4 DEF SlotOf
  <2> QED
    BY Zenon, <1>5, <2>1, <2>2, <2>5 DEF MeterTypes
<1>8. CASE m = cur
  <2>1. granted' = [granted EXCEPT ![e] = granted[e] + 1]
    BY Zenon, <1>8 DEF TakeSlot, MeterTypes
  <2>2. granted' \in [EndpointIds -> Nat] /\ granted'[e] = granted[e] + 1 /\ \A d \in EndpointIds \ {e} : granted'[d] = granted[d]
    BY <1>2, <2>1 DEF MeterTypes
  <2>3. Value(k) = granted[e]
    BY ZenonT(40), <1>8, SlotValue
  <2>4. granted'[e] <= l /\ granted[e] <= granted'[e] /\ granted'[e] # 0
    BY <1>2, <1>8, <2>2, <2>3, DispatchAssumption DEF Allowed
  <2>5. slots'[e][cur].count = granted'[e]
    BY Zenon, <1>3, <1>6, <1>8, <2>2, <2>3
  <2>6. ASSUME NEW x \in Nat, MinuteOf(x) = cur PROVE slots'[e][cur].expires > x
    <3>1. CASE granted[e] = 0
      <4>1. slots'[e][cur].expires = now + SlotTtl
        BY Zenon, <1>3, <1>6, <1>8, <2>3, <3>1
      <4>2. x < now + SlotTtl
        BY Zenon, <1>1, <2>6, MinuteFacts
      <4> QED
        BY ZenonT(40), <1>1, <1>2, <4>1, <4>2
    <3>2. CASE granted[e] # 0
      BY ZenonT(40), <1>3, <1>6, <1>8, <2>3, <2>6, <3>2 DEF SlotOf
    <3> QED
      BY ZenonT(40), <3>1, <3>2
  <2>7. \A i \in Minutes : i > cur => i # m
    BY <1>1, <1>8
  <2>8. \A i \in Minutes : i > cur => slots'[e][i].count = 0
    BY Zenon, <1>6, <2>7 DEF SlotOf
  <2>9. SlotOf(e)'
    BY Zenon, <1>1, <2>4, <2>5, <2>6, <2>8 DEF SlotOf
  <2> QED
    BY Zenon, <1>5, <2>2, <2>4, <2>9
<1> QED
  BY Zenon, <1>7, <1>8

\* Every limit allows for no slot.
LEMMA SomeLimit == \E l \in Limits : 0 <= l
<1>1. PICK l \in Limits : TRUE
  BY Zenon, DispatchAssumption
<1>2. l \in Nat
  BY Zenon, <1>1, DispatchAssumption
<1>3. 0 <= l
  BY <1>2
<1> QED
  BY Zenon, <1>1, <1>3

\* record_failure counts a failure more, and the breaker's counter at most
\* those of its window.
LEMMA FailureRecorded ==
  ASSUME MeterTypes, NEW e \in EndpointIds, FailOf(e), RecordFailure(e)
  PROVE  /\ fails' \in [EndpointIds -> Counters] /\ failures' \in [EndpointIds -> SUBSET (Nat \X Nat)]
         /\ FailOf(e)' /\ fails'[e].count <= Cardinality(failures'[e])
         /\ fails'[e].count \in Nat /\ Cardinality(failures'[e]) \in Nat
         /\ \A d \in EndpointIds \ {e} : fails'[d] = fails[d] /\ failures'[d] = failures[d]
<1> DEFINE F == failures[e]
           n == <<now, Cardinality(F)>>
           k == fails[e]
           new == Incr(k, Window)
<1>1. now \in Nat /\ now' = now /\ k \in Counters /\ Window \in Nat \ {0}
  BY Zenon, MinuteNow, GuardsAssumption DEF MeterTypes, RecordFailure
<1>2. IsFiniteSet(F) /\ Cardinality(F) \in Nat /\ F \subseteq Nat \X Nat
  BY Zenon, FS_CardinalityType DEF MeterTypes, FailOf
<1>3. /\ new \in Counters /\ Value(k) \in Nat /\ new.count = Value(k) + 1
      /\ new.expires = IF Value(k) = 0 THEN now + Window ELSE k.expires
  BY Zenon, <1>1, IncrFacts
<1>4. fails' = [fails EXCEPT ![e] = new] /\ failures' = [failures EXCEPT ![e] = F \cup {n}]
  BY ZenonT(40) DEF RecordFailure, MeterTypes
<1>5. n \in Nat \X Nat /\ n[1] = now /\ n[2] = Cardinality(F)
  BY Zenon, <1>1, <1>2
<1>6. n \notin F
  <2>1. ASSUME n \in F PROVE FALSE
    <3>1. n[2] < Cardinality(F)
      BY Zenon, <1>5, <2>1 DEF FailOf
    <3> QED
      BY <1>2, <1>5, <3>1
  <2> QED
    BY Zenon, <2>1
<1> HIDE DEF n, new
<1>7. IsFiniteSet(F \cup {n}) /\ Cardinality(F \cup {n}) = Cardinality(F) + 1
  BY Zenon, <1>2, <1>6, FS_AddElement
<1>8. /\ fails'[e] = new /\ failures'[e] = F \cup {n}
      /\ \A d \in EndpointIds \ {e} : fails'[d] = fails[d] /\ failures'[d] = failures[d]
      /\ fails' \in [EndpointIds -> Counters] /\ failures' \in [EndpointIds -> SUBSET (Nat \X Nat)]
  <2>1. F \cup {n} \in SUBSET (Nat \X Nat)
    BY Zenon, <1>2, <1>5
  <2> QED
    BY Zenon, <1>3, <1>4, <2>1 DEF MeterTypes
<1>9. ASSUME NEW f \in F \cup {n} PROVE f[1] <= now /\ (f[1] = now => f[2] < Cardinality(F \cup {n}))
  <2>1. CASE f = n
    BY <1>1, <1>2, <1>5, <1>7, <2>1
  <2>2. CASE f \in F
    <3>1. f[1] <= now /\ (f[1] = now => f[2] < Cardinality(F)) /\ f \in Nat \X Nat
      BY Zenon, <1>2, <2>2 DEF FailOf
    <3>2. f[2] \in Nat
      BY Zenon, <3>1
    <3>3. f[2] < Cardinality(F) => f[2] < Cardinality(F \cup {n})
      BY <1>2, <1>7, <3>2
    <3> QED
      BY Zenon, <3>1, <3>3
  <2> QED
    BY ZenonT(40), <2>1, <2>2
<1> DEFINE C == {f \in F \cup {n} : f[1] + Window >= new.expires}
<1>10. IsFiniteSet(C) /\ Cardinality(C) \in Nat /\ Cardinality(C) <= Cardinality(F \cup {n}) /\ Cardinality(F \cup {n}) \in Nat
  <2>1. C \in SUBSET (F \cup {n})
    BY Zenon
  <2>2. IsFiniteSet(C) /\ Cardinality(C) <= Cardinality(F \cup {n})
    BY Zenon, <1>7, <2>1, FS_Subset
  <2> QED
    BY Zenon, <1>7, <2>2, FS_CardinalityType
<1>11. new.expires <= now + Window /\ new.count <= Cardinality(C)
  <2>1. CASE Value(k) = 0
    <3>1. new.expires = now + Window /\ new.count = 1
      BY <1>3, <2>1
    <3>2. n \in C
      BY <1>1, <1>5, <3>1
    <3>3. Cardinality(C) # 0
      BY ZenonT(40), <1>10, <3>2, FS_EmptySet
    <3> QED
      BY SMTT(30), <1>1, <1>10, <3>1, <3>3
  <2>2. CASE Value(k) # 0
    <3>1. k.expires > now /\ new.expires = k.expires /\ new.count = k.count + 1 /\ k.count \in Nat /\ k.expires \in Nat
      BY Zenon, <1>1, <1>3, <2>2 DEF Value, Counters
    <3>2. k.expires <= now + Window /\ k.count <= Cardinality(Counted(e))
      BY Zenon, <3>1 DEF FailOf
    <3> DEFINE D == Counted(e)
    <3>3. D \in SUBSET F /\ n \notin D
      BY Zenon, <1>6 DEF Counted
    <3>4. IsFiniteSet(D) /\ Cardinality(D) \in Nat
      BY Zenon, <1>2, <3>3, FS_Subset, FS_CardinalityType
    <3>5. C = D \cup {n}
      <4>1. now + Window >= k.expires
        BY Zenon, <1>1, <3>1, <3>2
      <4> QED
        BY ZenonT(40), <1>5, <3>1, <4>1 DEF Counted
    <3> HIDE DEF C, D
    <3>6. Cardinality(C) = Cardinality(D) + 1
      BY Zenon, <3>3, <3>4, <3>5, FS_AddElement
    <3>7. k.count <= Cardinality(D)
      BY Zenon, <3>2 DEF D
    <3> QED
      BY SMTT(30), <3>1, <3>2, <3>4, <3>6, <3>7
  <2> QED
    BY ZenonT(40), <2>1, <2>2
<1>12. Counted(e)' = C
  BY Zenon, <1>8 DEF Counted
<1> HIDE DEF C
<1>13. FailOf(e)'
  BY ZenonT(40), <1>1, <1>7, <1>8, <1>9, <1>11, <1>12 DEF FailOf
<1>14. new.count \in Nat /\ new.count <= Cardinality(F \cup {n})
  <2>1. new.count \in Nat
    BY <1>3
  <2> QED
    BY <1>10, <1>11, <2>1
<1> QED
  BY Zenon, <1>8, <1>10, <1>13, <1>14

\* Resetting the breaker forgets its failures together with the counter.
LEMMA FailuresReset ==
  ASSUME MeterTypes, NEW e \in EndpointIds, Reset(e)
  PROVE  /\ fails' \in [EndpointIds -> Counters] /\ failures' \in [EndpointIds -> SUBSET (Nat \X Nat)] /\ FailOf(e)'
         /\ \A d \in EndpointIds \ {e} : fails'[d] = fails[d] /\ failures'[d] = failures[d]
<1>1. NoCounter \in Counters /\ NoCounter.expires = 0
  BY Zenon DEF NoCounter, Counters
<1>2. /\ fails'[e] = NoCounter /\ failures'[e] = {}
      /\ \A d \in EndpointIds \ {e} : fails'[d] = fails[d] /\ failures'[d] = failures[d]
      /\ fails' \in [EndpointIds -> Counters] /\ failures' \in [EndpointIds -> SUBSET (Nat \X Nat)]
  BY Zenon, <1>1 DEF Reset, MeterTypes
<1>3. ~(fails'[e].expires > now')
  BY <1>1, <1>2 DEF Reset, MeterTypes
<1>4. IsFiniteSet({})
  BY Zenon, FS_EmptySet
<1>5. FailOf(e)'
  BY Zenon, <1>2, <1>3, <1>4 DEF FailOf
<1> QED
  BY Zenon, <1>2, <1>5

\* The clock moves on: failures drop out of the window and the counter of them
\* expires no later; a new minute starts with a new counter.
LEMMA MeterTicks ==
  ASSUME MeterInv, Tick
  PROVE  MeterTypes' /\ now < now' /\ \A e \in EndpointIds : SlotOf(e)' /\ FailOf(e)'
<1> USE DEF MeterInv
<1>1. now \in Nat /\ now' \in Nat /\ now' = now + 1 /\ now < now' /\ now' \in 1..MaxTime /\ Window \in Nat
  BY GuardsAssumption DEF Tick, MeterTypes
<1>2. UNCHANGED <<fails, slots>>
  BY Zenon DEF Tick
<1>3. ASSUME NEW e \in EndpointIds PROVE failures'[e] = {f \in failures[e] : f[1] + Window > now'}
  BY Zenon DEF Tick
<1>4. failures' \in [EndpointIds -> SUBSET (Nat \X Nat)]
  <2>1. failures' = [e \in EndpointIds |-> {f \in failures[e] : f[1] + Window > now'}]
    BY Zenon DEF Tick
  <2>2. \A e \in EndpointIds : {f \in failures[e] : f[1] + Window > now'} \in SUBSET (Nat \X Nat)
    BY Zenon DEF MeterTypes
  <2> QED
    BY Zenon, <2>1, <2>2
<1>5. granted' \in [EndpointIds -> Nat]
  BY Zenon DEF Tick, MeterTypes
<1>6. MeterTypes'
  BY Zenon, <1>1, <1>2, <1>4, <1>5 DEF MeterTypes
<1>7. ASSUME NEW e \in EndpointIds PROVE FailOf(e)'
  <2>1. failures'[e] \in SUBSET failures[e]
    BY Zenon, <1>3
  <2>2. IsFiniteSet(failures'[e])
    BY Zenon, <2>1, FS_Subset DEF FailOf
  <2>3. ASSUME NEW f \in failures'[e] PROVE f[1] <= now' /\ f[1] # now'
    <3>1. f[1] <= now /\ f \in Nat \X Nat
      BY Zenon, <2>1 DEF FailOf, MeterTypes
    <3>2. f[1] \in Nat
      BY Zenon, <3>1
    <3> QED
      BY <1>1, <3>1, <3>2
  <2>4. ASSUME fails[e].expires > now' PROVE fails[e].expires <= now' + Window /\ fails[e].count <= Cardinality(Counted(e)')
    <3>1. fails[e].expires \in Nat
      BY Zenon DEF MeterTypes, Counters
    <3>2. fails[e].expires > now
      BY <1>1, <2>4, <3>1
    <3>3. fails[e].expires <= now + Window /\ fails[e].count <= Cardinality(Counted(e))
      BY Zenon, <3>2 DEF FailOf
    <3>4. ASSUME NEW f \in failures[e], f[1] + Window >= fails[e].expires PROVE f[1] + Window > now'
      <4>1. f[1] \in Nat
        BY DEF MeterTypes
      <4> QED
        BY SMTT(30), <1>1, <2>4, <3>1, <3>4, <4>1
    <3>5. Counted(e)' = Counted(e)
      BY ZenonT(40), <1>2, <1>3, <3>4 DEF Counted
    <3>6. fails[e].expires <= now' + Window
      BY <1>1, <3>1, <3>3
    <3> QED
      BY Zenon, <3>3, <3>5, <3>6
  <2> QED
    BY Zenon, <1>2, <2>2, <2>3, <2>4 DEF FailOf
<1>8. ASSUME NEW e \in EndpointIds PROVE SlotOf(e)'
  <2>1. /\ MinuteOf(now) \in Nat /\ MinuteOf(now') \in Nat /\ MinuteOf(now) <= MinuteOf(now') /\ MinuteOf(now') \in Minutes
        /\ \A m \in Minutes : m \in Nat
    <3>1. now <= now'
      BY <1>1
    <3>2. MinuteOf(now) \in Nat /\ MinuteOf(now') \in Nat /\ MinuteOf(now) <= MinuteOf(now')
      BY Zenon, <1>1, <3>1, MinuteFacts
    <3>3. now' <= MaxTime /\ MaxTime \in Nat
      BY <1>1, GuardsAssumption
    <3>4. MinuteOf(now') <= MinuteOf(MaxTime) /\ MinuteOf(MaxTime) \in Nat
      BY Zenon, <1>1, <3>3, MinuteFacts
    <3> QED
      BY <3>2, <3>4 DEF Minutes
  <2>2. \A m \in Minutes : m > MinuteOf(now') => m > MinuteOf(now)
    BY <2>1
  <2>3. CASE MinuteOf(now') = MinuteOf(now)
    <3>1. granted' = granted
      BY Zenon, <2>3 DEF Tick
    <3> QED
      BY Zenon, <1>2, <2>2, <2>3, <3>1 DEF SlotOf
  <2>4. CASE MinuteOf(now') # MinuteOf(now)
    <3>1. granted'[e] = 0
      BY Zenon, <2>4 DEF Tick
    <3>2. MinuteOf(now') > MinuteOf(now)
      BY <2>1, <2>4
    <3>3. slots[e][MinuteOf(now')].count = 0
      BY Zenon, <2>1, <3>2 DEF SlotOf
    <3>4. \E l \in Limits : granted'[e] <= l
      BY Zenon, <3>1, SomeLimit
    <3> QED
      BY Zenon, <1>2, <2>2, <3>1, <3>3, <3>4 DEF SlotOf
  <2> QED
    BY Zenon, <2>3, <2>4
<1> QED
  BY ZenonT(40), <1>1, <1>6, <1>7, <1>8

\* Which calls to Redis write the counters.
LEMMA MeterEffect ==
  ASSUME [Next]_vars
  PROVE  \/ UNCHANGED <<now, fails, slots, failures, granted>>
         \/ \E t \in Runners :
              /\ task[t].pc = "slot" /\ Allowed(EndpointOf(t), task[t].minute, task[t].limit) /\ TakeSlot(EndpointOf(t), task[t].minute)
         \/ \E t \in Runners : task[t].pc = "record" /\ RecordFailure(EndpointOf(t))
         \/ \E t \in Runners : task[t].pc = "reset" /\ Reset(EndpointOf(t))
         \/ Tick
<1>1. ASSUME NEW r \in Registrants, RegistrantStep(r) PROVE UNCHANGED guards
  BY Zenon, <1>1 DEF RegistrantStep, StartUp, Publish, RegisterStream, RegisterLost
<1>2. ASSUME NEW w \in Workers, WorkerStep(w) PROVE UNCHANGED guards
  BY Zenon, <1>2 DEF WorkerStep, ReadClock, ClaimNextStream, ClaimNothing, ReadBatch, ReadNothing, RemoveStreamIfEmpty, Spawn, WorkerStops,
              WorkerGoes
<1>3. ASSUME NEW t \in Runners, TaskStep(t)
      PROVE  \/ UNCHANGED <<now, fails, slots, failures, granted>>
             \/ task[t].pc = "slot" /\ Allowed(EndpointOf(t), task[t].minute, task[t].limit) /\ TakeSlot(EndpointOf(t), task[t].minute)
             \/ task[t].pc = "record" /\ RecordFailure(EndpointOf(t))
             \/ task[t].pc = "reset" /\ Reset(EndpointOf(t))
  <2>1. CASE \/ \E l \in Limits : FetchJob(t, l)
             \/ FetchNone(t) \/ CheckBlocked(t) \/ CheckCircuit(t) \/ Send(t) \/ NotSent(t)
             \/ (\E next \in {"reset", "ack", "block_it", "record"} : Answered(t, next)) \/ BookkeepingFails(t)
             \/ Acknowledge(t) \/ TaskStops(t)
    BY Zenon, <2>1 DEF FetchJob, FetchNone, CheckBlocked, CheckCircuit, Send, NotSent, Answered, BookkeepingFails, Acknowledge, TaskStops,
                guards
  <2>2. CASE TryAcquire(t)
    BY Zenon, <2>2 DEF TryAcquire, guards
  <2>3. CASE (\E ttl \in RetryAfters : SetBlock(t, ttl)) \/ OpenIt(t)
    BY Zenon, <2>3 DEF SetBlock, SetBlocked, OpenIt, OpenCircuit
  <2>4. CASE RecordFault(t) \/ ResetBreaker(t)
    BY Zenon, <2>4 DEF RecordFault, ResetBreaker
  <2> QED
    BY ZenonT(40), <1>3, <2>1, <2>2, <2>3, <2>4 DEF TaskStep
<1>4. CASE \/ \E t \in Reclaimers, s \in StreamNames : \E m \in stream[s].pel : Reclaim(t, s, m)
           \/ (\E s \in StreamNames : Trim(s)) \/ UNCHANGED vars
  BY Zenon, <1>4 DEF Reclaim, Trim, vars, guards
<1>5. CASE Time
  BY Zenon, <1>5 DEF Time
<1> QED
  BY Zenon, <1>1, <1>2, <1>3, <1>4, <1>5 DEF Next, guards

\* The counters stay true; slots are given back only with the minute.
LEMMA MeterStep ==
  ASSUME DispatchTypes, TaskInv, MeterInv, [Next]_vars
  PROVE  /\ MeterTypes' /\ \A e \in EndpointIds : SlotOf(e)' /\ FailOf(e)'
         /\ now <= now'
         /\ \A e \in EndpointIds : MinuteOf(now') = MinuteOf(now) => granted[e] <= granted'[e]
<1> DEFINE Goal == /\ MeterTypes' /\ \A e \in EndpointIds : SlotOf(e)' /\ FailOf(e)'
                   /\ now <= now'
                   /\ \A e \in EndpointIds : MinuteOf(now') = MinuteOf(now) => granted[e] <= granted'[e]
<1>0. /\ MeterTypes /\ now \in Nat /\ now <= now /\ \A e \in EndpointIds : SlotOf(e) /\ FailOf(e)
      /\ \A e \in EndpointIds : granted[e] \in Nat /\ granted[e] <= granted[e]
  <2>1. MeterTypes /\ now \in Nat /\ \A e \in EndpointIds : SlotOf(e) /\ FailOf(e)
    BY Zenon, MinuteNow DEF MeterInv
  <2>2. \A e \in EndpointIds : granted[e] \in Nat
    BY Zenon, <2>1 DEF MeterTypes
  <2> QED
    BY <2>1, <2>2
<1>1. ASSUME NEW e \in EndpointIds, slots'[e] = slots[e], granted'[e] = granted[e], now' = now PROVE SlotOf(e)'
  BY Zenon, <1>0, <1>1 DEF SlotOf
<1>2. ASSUME NEW e \in EndpointIds, fails'[e] = fails[e], failures'[e] = failures[e], now' = now PROVE FailOf(e)'
  <2>1. Counted(e)' = Counted(e)
    BY Zenon, <1>2 DEF Counted
  <2> QED
    BY Zenon, <1>0, <1>2, <2>1 DEF FailOf
<1>3. CASE UNCHANGED <<now, fails, slots, failures, granted>>
  BY Zenon, <1>0, <1>1, <1>2, <1>3 DEF MeterTypes
<1>4. ASSUME NEW t \in Runners, task[t].pc = "slot", Allowed(EndpointOf(t), task[t].minute, task[t].limit), TakeSlot(EndpointOf(t), task[t].minute)
      PROVE  Goal
  <2>1. PICK e \in EndpointIds : e = EndpointOf(t)
    BY Zenon, <1>4, EndpointType
  <2>2. task[t].minute \in Nat /\ task[t].minute <= MinuteOf(now) /\ task[t].limit \in Limits
    BY Zenon, <1>4 DEF MeterInv, Rated
  <2>3. /\ slots' \in [EndpointIds -> [Minutes -> Counters]] /\ granted' \in [EndpointIds -> Nat]
        /\ granted[e] <= granted'[e] /\ SlotOf(e)'
        /\ \A d \in EndpointIds \ {e} : slots'[d] = slots[d] /\ granted'[d] = granted[d]
    BY Zenon, <1>0, <1>4, <2>1, <2>2, SlotTaken
  <2>4. UNCHANGED <<now, fails, failures>>
    BY Zenon, <1>4 DEF TakeSlot
  <2>5. \A d \in EndpointIds : d # e => SlotOf(d)' /\ granted[d] <= granted'[d]
    BY Zenon, <1>0, <1>1, <2>3, <2>4
  <2>6. \A d \in EndpointIds : FailOf(d)'
    BY Zenon, <1>2, <2>4
  <2>7. MeterTypes'
    BY Zenon, <1>0, <2>3, <2>4 DEF MeterTypes
  <2> QED
    BY ZenonT(40), <1>0, <2>3, <2>4, <2>5, <2>6, <2>7
<1>5. ASSUME NEW t \in Runners, task[t].pc \in {"record", "reset"}, RecordFailure(EndpointOf(t)) \/ Reset(EndpointOf(t)) PROVE Goal
  <2>0. task[t].pc # "idle"
    BY Zenon, <1>5
  <2>1. PICK e \in EndpointIds : e = EndpointOf(t)
    BY Zenon, <2>0, EndpointType
  <2>2. /\ fails' \in [EndpointIds -> Counters] /\ failures' \in [EndpointIds -> SUBSET (Nat \X Nat)] /\ FailOf(e)'
        /\ \A d \in EndpointIds \ {e} : fails'[d] = fails[d] /\ failures'[d] = failures[d]
    BY ZenonT(40), <1>0, <1>5, <2>1, FailureRecorded, FailuresReset
  <2>3. UNCHANGED <<now, slots, granted>>
    BY Zenon, <1>5 DEF RecordFailure, Reset
  <2>4. \A d \in EndpointIds : d # e => FailOf(d)'
    BY ZenonT(40), <1>2, <2>2, <2>3
  <2>5. \A d \in EndpointIds : SlotOf(d)'
    BY Zenon, <1>1, <2>3
  <2>6. MeterTypes'
    BY Zenon, <1>0, <2>2, <2>3 DEF MeterTypes
  <2> QED
    BY ZenonT(40), <1>0, <2>2, <2>3, <2>4, <2>5, <2>6
<1>6. CASE Tick
  <2>1. MeterTypes' /\ now < now' /\ \A e \in EndpointIds : SlotOf(e)' /\ FailOf(e)'
    BY ZenonT(40), <1>6, MeterTicks
  <2>2. now <= now'
    BY <1>0, <1>6 DEF Tick
  <2>3. MinuteOf(now') = MinuteOf(now) => granted' = granted
    BY Zenon, <1>6 DEF Tick
  <2> QED
    BY Zenon, <1>0, <2>1, <2>2, <2>3
<1>7. ASSUME NEW t \in Runners, task[t].pc = "record" \/ task[t].pc = "reset" PROVE task[t].pc \in {"record", "reset"}
  BY Zenon, <1>7
<1> HIDE DEF Goal
<1>8. CASE UNCHANGED <<now, fails, slots, failures, granted>>
  BY Zenon, <1>3, <1>8 DEF Goal
<1>9. CASE Tick
  BY Zenon, <1>6, <1>9 DEF Goal
<1>10. Goal
  BY ZenonT(40), <1>4, <1>5, <1>7, <1>8, <1>9, MeterEffect DEF Goal
<1> QED
  BY Zenon, <1>10 DEF Goal

\* A task that does not move keeps what it knows.
LEMMA RatedKept ==
  ASSUME DispatchTypes, WorkerInv, TaskInv, MeterInv, [Next]_vars, NEW u \in Runners, task'[u] = task[u]
  PROVE  Rated(u)'
<1>1. /\ now <= now' /\ \A e \in EndpointIds : MinuteOf(now') = MinuteOf(now) => granted[e] <= granted'[e]
      /\ MeterTypes' /\ MeterTypes /\ Rated(u)
  BY ZenonT(40), MeterStep DEF MeterInv
<1>2. now \in Nat /\ now' \in Nat
  BY <1>1, GuardsAssumption DEF MeterTypes
<1>3. MinuteOf(now) <= MinuteOf(now') /\ MinuteOf(now) \in Nat /\ MinuteOf(now') \in Nat
  BY ZenonT(40), <1>1, <1>2, MinuteFacts
<1>4. task[u].pc \in {"slot", "refused"} => task[u].minute <= MinuteOf(now')
  <2>1. task[u].pc \in {"slot", "refused"} => task[u].minute \in Nat /\ task[u].minute <= MinuteOf(now)
    BY Zenon, <1>1 DEF Rated
  <2> QED
    BY <1>3, <2>1
<1>5. ASSUME task[u].pc = "refused", task[u].minute = MinuteOf(now') PROVE granted'[EndpointOf(u)'] >= task[u].limit
  <2>1. task[u].pc \in {"slot", "refused"} /\ task[u].pc # "idle"
    BY Zenon, <1>5
  <2>2. task[u].limit \in Nat /\ task[u].minute \in Nat /\ task[u].minute <= MinuteOf(now)
    BY ZenonT(40), <1>1, <2>1 DEF Rated
  <2>3. task[u].minute = MinuteOf(now) /\ MinuteOf(now') = MinuteOf(now)
    BY <1>3, <1>5, <2>2
  <2>4. PICK e \in EndpointIds : e = EndpointOf(u)
    BY Zenon, <2>1, EndpointType
  <2>5. EndpointOf(u)' = e
    <3>1. task[u].stream \in StreamNames /\ task[u].msg \in Ids(task[u].stream)
      BY Zenon, <2>1 DEF TaskInv
    <3>2. stream'[task[u].stream].log[task[u].msg] = stream[task[u].stream].log[task[u].msg]
      BY Zenon, <3>1, LogStep
    <3> QED
      BY Zenon, <2>4, <3>2 DEF EndpointOf
  <2>6. granted[e] >= task[u].limit /\ granted[e] <= granted'[e]
    BY Zenon, <1>1, <1>5, <2>3, <2>4 DEF Rated
  <2>7. granted[e] \in Nat /\ granted'[e] \in Nat
    BY ZenonT(40), <1>1 DEF MeterTypes
  <2>8. granted'[e] >= task[u].limit
    BY <2>2, <2>6, <2>7
  <2> QED
    BY Zenon, <2>5, <2>8
<1> QED
  BY Zenon, <1>1, <1>4, <1>5 DEF Rated

\* Points of process_one at which a task knows nothing of either counter.
Elsewhere == {"idle", "fetch", "send", "wait", "block_it", "record", "reset", "defer", "ack"}

LEMMA RatedElsewhere ==
  ASSUME NEW t \in Runners, task'[t].pc \in Elsewhere
  PROVE  Rated(t)'
<1>1. /\ ~(task'[t].pc \in {"block", "circuit", "slot"}) /\ ~(task'[t].pc \in {"slot", "refused"})
      /\ task'[t].pc # "refused" /\ task'[t].pc # "open"
  BY Zenon DEF Elsewhere
<1> QED
  BY Zenon, <1>1 DEF Rated

LEMMA RatedGoto ==
  ASSUME DispatchTypes, NEW t \in Runners, NEW c, Goto(t, c)
  PROVE  /\ task'[t].pc = c /\ task'[t].limit = task[t].limit /\ task'[t].minute = task[t].minute
         /\ task'[t].stream = task[t].stream /\ task'[t].msg = task[t].msg
<1>1. DOMAIN task = Runners /\ DOMAIN task[t] = TaskFields
  BY Zenon DEF DispatchTypes
<1>2. task' = [task EXCEPT ![t] = [task[t] EXCEPT !.pc = c]]
  BY Zenon DEF Goto, TaskGoes
<1>3. task'[t] = [task[t] EXCEPT !.pc = c]
  BY Zenon, <1>1, <1>2
<1> QED
  BY Zenon, <1>1, <1>3 DEF TaskFields

\* A task that passes its guards takes the limit of its job with it.
LEMMA RatedPasses ==
  ASSUME DispatchTypes, TaskInv, MeterInv, NEW t \in Runners,
         (\E l \in Limits : FetchJob(t, l)) \/ CheckBlocked(t) \/ CheckCircuit(t)
  PROVE  Rated(t)'
<1>0. DOMAIN task = Runners /\ DOMAIN task[t] = TaskFields /\ Rated(t)
  BY Zenon DEF DispatchTypes, MeterInv
<1>1. ASSUME NEW c \in {"block", "circuit"}, task'[t].pc = c, task'[t].limit \in Limits PROVE Rated(t)'
  <2>1. ~(task'[t].pc \in {"slot", "refused"}) /\ task'[t].pc # "refused" /\ task'[t].pc # "open"
    BY Zenon, <1>1
  <2> QED
    BY ZenonT(40), <1>1, <2>1 DEF Rated
<1>2. ASSUME NEW l \in Limits, FetchJob(t, l) PROVE Rated(t)'
  <2>1. task'[t] = [task[t] EXCEPT !.pc = "block", !.limit = l]
    BY Zenon, <1>0, <1>2 DEF FetchJob, TaskGoes
  <2>2. task'[t].pc = "block" /\ task'[t].limit = l
    BY Zenon, <1>0, <2>1 DEF TaskFields
  <2> QED
    BY Zenon, <1>1, <2>2
<1>3. ASSUME CheckBlocked(t) PROVE Rated(t)'
  <2>1. task[t].limit \in Limits
    BY Zenon, <1>0, <1>3 DEF CheckBlocked, Rated
  <2>2. CASE Goto(t, "defer")
    BY Zenon, <2>2, RatedGoto, RatedElsewhere DEF Elsewhere
  <2>3. CASE Goto(t, "circuit")
    BY Zenon, <1>1, <2>1, <2>3, RatedGoto
  <2>4. CASE TaskGoes(t, [task[t] EXCEPT !.pc = "circuit", !.sure = {"block"}])
    <3>1. task'[t] = [task[t] EXCEPT !.pc = "circuit", !.sure = {"block"}]
      BY Zenon, <1>0, <2>4 DEF TaskGoes
    <3>2. task'[t].pc = "circuit" /\ task'[t].limit = task[t].limit
      BY Zenon, <1>0, <3>1 DEF TaskFields
    <3> QED
      BY Zenon, <1>1, <2>1, <3>2
  <2> QED
    BY ZenonT(40), <1>3, <2>2, <2>3, <2>4 DEF CheckBlocked
<1>4. ASSUME CheckCircuit(t) PROVE Rated(t)'
  <2>1. task[t].limit \in Limits /\ now' = now
    BY Zenon, <1>0, <1>4 DEF CheckCircuit, Rated, guards
  <2>2. CASE Goto(t, "defer")
    BY <2>2, RatedGoto, RatedElsewhere DEF Elsewhere
  <2>3. ASSUME NEW S, PastCircuit(t, S) PROVE Rated(t)'
    <3>1. PICK c \in {"slot", "send"} : TaskGoes(t, [task[t] EXCEPT !.pc = c, !.minute = MinuteOf(now), !.sure = S])
      BY Zenon, <2>3 DEF PastCircuit
    <3>2. task'[t] = [task[t] EXCEPT !.pc = c, !.minute = MinuteOf(now), !.sure = S]
      BY Zenon, <1>0, <3>1 DEF TaskGoes
    <3>3. task'[t].pc = c /\ task'[t].limit = task[t].limit /\ task'[t].minute = MinuteOf(now)
      BY Zenon, <1>0, <3>2 DEF TaskFields
    <3>4. MinuteOf(now) \in Nat /\ MinuteOf(now) <= MinuteOf(now) /\ task[t].limit \in Nat
      <4>1. MinuteOf(now) \in Nat /\ task[t].limit \in Nat
        BY ZenonT(40), <2>1, MinuteNow, DispatchAssumption DEF MeterInv
      <4> QED
        BY <4>1
    <3>5. CASE c = "send"
      BY Zenon, <3>3, <3>5, RatedElsewhere DEF Elsewhere
    <3>6. CASE c = "slot"
      <4>1. task'[t].pc # "refused" /\ task'[t].pc # "open"
        BY Zenon, <3>3, <3>6
      <4> QED
        BY ZenonT(40), <2>1, <3>3, <3>4, <4>1 DEF Rated
    <3> QED
      BY Zenon, <3>5, <3>6
  <2> QED
    BY ZenonT(40), <1>4, <2>2, <2>3 DEF CheckCircuit
<1> QED
  BY Zenon, <1>2, <1>3, <1>4

\* A slot is refused with the counter at the limit; a circuit is to be opened
\* with the counter, and so the failures, at the threshold.
LEMMA RatedDecides ==
  ASSUME DispatchTypes, TaskInv, MeterInv, NEW t \in Runners, TryAcquire(t) \/ RecordFault(t)
  PROVE  Rated(t)'
<1>0. /\ DOMAIN task = Runners /\ DOMAIN task[t] = TaskFields /\ Rated(t) /\ MeterTypes
      /\ \A e \in EndpointIds : SlotOf(e) /\ FailOf(e)
  BY Zenon DEF DispatchTypes, MeterInv
<1>1. task[t].pc \in {"slot", "record"} /\ task[t].pc # "idle"
  BY Zenon DEF TryAcquire, RecordFault
<1>2. PICK e \in EndpointIds : e = EndpointOf(t)
  BY ZenonT(40), <1>1, EndpointType
<1>3. ASSUME TryAcquire(t) PROVE Rated(t)'
  <2>1. CASE Goto(t, "send")
    BY Zenon, <2>1, RatedGoto, RatedElsewhere DEF Elsewhere
  <2>2. CASE ~Allowed(e, task[t].minute, task[t].limit) /\ Goto(t, "refused") /\ UNCHANGED guards
    <3>1. task[t].pc \in {"slot", "refused"} /\ task[t].pc \in {"block", "circuit", "slot"}
      BY Zenon, <1>3 DEF TryAcquire
    <3>2. task[t].limit \in Nat /\ task[t].minute \in Nat /\ task[t].minute <= MinuteOf(now)
      BY Zenon, <1>0, <3>1 DEF Rated
    <3>3. /\ task'[t].pc = "refused" /\ task'[t].limit = task[t].limit /\ task'[t].minute = task[t].minute
          /\ task'[t].stream = task[t].stream /\ task'[t].msg = task[t].msg
      BY Zenon, <2>2, RatedGoto
    <3>4. now' = now /\ granted' = granted /\ stream' = stream
      BY Zenon, <2>2 DEF guards, Goto, TaskGoes
    <3>5. EndpointOf(t)' = e
      BY ZenonT(40), <1>2, <3>3, <3>4 DEF EndpointOf
    <3>6. ASSUME task[t].minute = MinuteOf(now) PROVE granted[e] >= task[t].limit
      <4>1. Value(slots[e][MinuteOf(now)]) = granted[e] /\ granted[e] \in Nat
        BY Zenon, <1>0, SlotValue DEF MeterTypes
      <4>2. ~(granted[e] + 1 <= task[t].limit)
        BY ZenonT(40), <2>2, <3>6, <4>1 DEF Allowed
      <4> QED
        BY <3>2, <4>1, <4>2
    <3>7. ~(task'[t].pc \in {"block", "circuit", "slot"}) /\ task'[t].pc # "open"
      BY Zenon, <3>3
    <3> QED
      BY ZenonT(40), <3>2, <3>3, <3>4, <3>5, <3>6, <3>7 DEF Rated
  <2> QED
    BY ZenonT(40), <1>2, <1>3, <2>1, <2>2 DEF TryAcquire
<1>4. ASSUME RecordFault(t) PROVE Rated(t)'
  <2> DEFINE c == IF fails'[e].count >= Threshold THEN "open" ELSE "ack"
             n == Cardinality(failures'[e])
  <2>1. task'[t] = [task[t] EXCEPT !.pc = c, !.recent = n] /\ RecordFailure(e)
    BY Zenon, <1>0, <1>2, <1>4 DEF RecordFault, TaskGoes
  <2> HIDE DEF c, n
  <2>2. task'[t].pc = c /\ task'[t].recent = n
    BY Zenon, <1>0, <2>1 DEF TaskFields
  <2>3. fails'[e].count <= n /\ fails'[e].count \in Nat /\ n \in Nat
    BY Zenon, <1>0, <2>1, FailureRecorded DEF n
  <2>4. CASE fails'[e].count >= Threshold
    <3>1. c = "open" /\ n >= Threshold
      BY SMTT(30), <2>3, <2>4, GuardsAssumption DEF c
    <3>2. ~(task'[t].pc \in {"block", "circuit", "slot"}) /\ ~(task'[t].pc \in {"slot", "refused"}) /\ task'[t].pc # "refused"
      BY Zenon, <2>2, <3>1
    <3> QED
      BY ZenonT(40), <2>2, <3>1, <3>2 DEF Rated
  <2>5. CASE ~(fails'[e].count >= Threshold)
    BY Zenon, <2>2, <2>5, RatedElsewhere DEF c, Elsewhere
  <2> QED
    BY Zenon, <2>4, <2>5
<1> QED
  BY Zenon, <1>3, <1>4

\* No task comes to know more of a counter than the counter bears out.
LEMMA RatedStep ==
  ASSUME DispatchTypes, WorkerInv, TaskInv, MeterInv, [Next]_vars, NEW u \in Runners
  PROVE  Rated(u)'
<1>1. ASSUME NEW t \in Runners, NEW c, c \in Elsewhere, Goto(t, c) PROVE Rated(t)'
  BY ZenonT(40), <1>1, RatedGoto, RatedElsewhere
<1>2. /\ {"ack", "wait", "record", "reset", "block_it"} \subseteq Elsewhere
      /\ "idle" \in Elsewhere /\ "fetch" \in Elsewhere /\ IdleTask.pc = "idle"
  BY Zenon DEF Elsewhere, IdleTask
<1>3. "ack" \in Elsewhere /\ "wait" \in Elsewhere /\ "record" \in Elsewhere /\ {"reset", "ack", "block_it", "record"} \subseteq Elsewhere
  BY Zenon, <1>2
<1>4. ASSUME NEW t \in Runners, TaskStep(t) PROVE Rated(t)' /\ (t # u => task'[u] = task[u])
  <2>1. ASSUME task'[t] = IdleTask PROVE Rated(t)'
    BY Zenon, <1>2, <2>1, RatedElsewhere
  <2>2. DOMAIN task = Runners
    BY Zenon DEF DispatchTypes
  <2>3. ASSUME FetchNone(t) \/ Send(t) \/ NotSent(t) \/ OpenIt(t) \/ ResetBreaker(t) \/ BookkeepingFails(t) PROVE Rated(t)'
    BY Zenon, <1>1, <1>3, <2>3 DEF FetchNone, Send, NotSent, OpenIt, ResetBreaker, BookkeepingFails
  <2>4. ASSUME NEW next \in {"reset", "ack", "block_it", "record"}, Answered(t, next) PROVE Rated(t)'
    BY Zenon, <1>1, <1>3, <2>4 DEF Answered
  <2>5. ASSUME NEW ttl \in RetryAfters, SetBlock(t, ttl) PROVE Rated(t)'
    BY Zenon, <1>1, <1>3, <2>5 DEF SetBlock
  <2>6. ASSUME Acknowledge(t) \/ TaskStops(t) PROVE Rated(t)'
    BY Zenon, <2>1, <2>2, <2>6 DEF Acknowledge, TaskStops, TaskGoes
  <2>7. Rated(t)'
    BY ZenonT(40), <1>4, <2>3, <2>4, <2>5, <2>6, RatedPasses, RatedDecides DEF TaskStep
  <2>8. \E r : task' = [task EXCEPT ![t] = r]
    BY Zenon, <1>4 DEF TaskStep, FetchJob, FetchNone, CheckBlocked, CheckCircuit, PastCircuit, TryAcquire, Send, NotSent, Answered, SetBlock,
                RecordFault, OpenIt, ResetBreaker, BookkeepingFails, Acknowledge, TaskStops, Goto, TaskGoes
  <2> QED
    BY Zenon, <2>2, <2>7, <2>8
<1>5. ASSUME NEW t \in Runners, NEW s \in StreamNames, NEW m \in Ids(s), Starts(t, s, m)
      PROVE  Rated(t)' /\ (t # u => task'[u] = task[u])
  BY Zenon, <1>2, <1>5, RatedElsewhere DEF Starts
<1> QED
  BY Zenon, <1>4, <1>5, TaskEffect, RatedKept

LEMMA MeterInvariant == Spec => []MeterInv
<1>1. ASSUME Init PROVE MeterInv
  <2>1. MaxTime \in Nat \ {0} /\ Window \in Nat /\ NoCounter \in Counters /\ NoCounter.count = 0 /\ NoCounter.expires = 0
    BY Zenon, GuardsAssumption DEF NoCounter, Counters
  <2>2. now = 1 /\ now \in 1..MaxTime
    BY <1>1, <2>1 DEF Init, GuardsInit
  <2>3. fails = [e \in EndpointIds |-> NoCounter] /\ failures = [e \in EndpointIds |-> {}] /\ granted = [e \in EndpointIds |-> 0]
    BY Zenon, <1>1 DEF Init, GuardsInit
  <2>4. slots = [e \in EndpointIds |-> [m \in Minutes |-> NoCounter]]
    BY Zenon, <1>1 DEF Init, GuardsInit
  <2>5. MeterTypes
    <3>1. fails \in [EndpointIds -> Counters] /\ failures \in [EndpointIds -> SUBSET (Nat \X Nat)] /\ granted \in [EndpointIds -> Nat]
      BY Zenon, <2>1, <2>3
    <3>2. slots \in [EndpointIds -> [Minutes -> Counters]]
      BY Zenon, <2>1, <2>4
    <3> QED
      BY Zenon, <2>2, <3>1, <3>2 DEF MeterTypes
  <2>6. MinuteOf(now) \in Minutes
    BY Zenon, <2>5, MinuteNow
  <2>7. ASSUME NEW e \in EndpointIds PROVE SlotOf(e)
    <3>1. granted[e] = 0 /\ \A m \in Minutes : slots[e][m].count = 0
      BY Zenon, <2>1, <2>3, <2>4
    <3> QED
      BY Zenon, <2>6, <3>1, SomeLimit DEF SlotOf
  <2>8. ASSUME NEW e \in EndpointIds PROVE FailOf(e)
    <3>1. failures[e] = {} /\ fails[e].expires = 0
      BY Zenon, <2>1, <2>3
    <3>2. ~(fails[e].expires > now)
      BY <2>2, <3>1
    <3>3. IsFiniteSet(failures[e])
      BY ZenonT(40), <3>1, FS_EmptySet
    <3> QED
      BY Zenon, <3>1, <3>2, <3>3 DEF FailOf
  <2>9. ASSUME NEW t \in Runners PROVE Rated(t)
    <3>1. task[t].pc = "idle"
      BY Zenon, <1>1 DEF Init, IdleTask
    <3> QED
      BY Zenon, <3>1 DEF Rated
  <2> QED
    BY ZenonT(40), <2>5, <2>7, <2>8, <2>9 DEF MeterInv
<1>2. ASSUME DispatchInv, MeterInv, [Next]_vars PROVE MeterInv'
  <2>1. DispatchTypes /\ WorkerInv /\ TaskInv
    BY Zenon, <1>2 DEF DispatchInv
  <2>2. MeterTypes' /\ \A e \in EndpointIds : SlotOf(e)' /\ FailOf(e)'
    BY Zenon, <1>2, <2>1, MeterStep
  <2>3. \A t \in Runners : Rated(t)'
    BY ZenonT(40), <1>2, <2>1, RatedStep
  <2> QED
    BY Zenon, <2>2, <2>3 DEF MeterInv
<1> QED
  BY <1>1, <1>2, DispatchInvariant, PTL DEF Spec

\* try_acquire keeps to the limits and refuses nothing it should give, for any
\* number of tasks, whatever the minute each read and the counter's TTL.
THEOREM RateIsHeld == Spec => []RateHeld
<1>1. MeterInv => RateHeld
  BY Zenon DEF MeterInv, SlotOf, Rated, RateHeld
<1> QED
  BY <1>1, MeterInvariant, PTL

\* No circuit is opened for failures that Window or a success has forgotten.
THEOREM TripsAreEarned == Spec => []TripIsEarned
<1>1. MeterInv => TripIsEarned
  BY Zenon DEF MeterInv, Rated, TripIsEarned
<1> QED
  BY <1>1, MeterInvariant, PTL
=============================================================================
