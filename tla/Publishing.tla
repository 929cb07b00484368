----------------------------- MODULE Publishing -----------------------------
(***************************************************************************)
(* POST /events: find the application and the event type, insert the event *)
(* and create a delivery job for every subscription.  With an idempotency  *)
(* key, a lock in Redis keeps requests with the same key apart while one   *)
(* of them looks for an earlier event and inserts its own; the lock is not *)
(* per application, and it is lost when its TTL ends before the request.   *)
(*                                                                         *)
(* There is no transaction around the event and its jobs, and no unique    *)
(* index on keys.  What happens to a job once its row exists is modelled   *)
(* in Delivery.                                                            *)
(***************************************************************************)
EXTENDS Catalog

CONSTANTS
    Publishers, Events, IdemKeys, NoKey,
    Dead,      \* holder of a lock whose request is gone
    Started,   \* the states of the catalog that behaviours start in
    Budgets    \* bounds on the operations of each kind; one is in force

Operations == {"catalog", "endpoint", "publish", "slow", "fault", "edit", "rotate", "tick"}

ASSUME PublishingAssumption ==
    /\ AppOf \in [EndpointIds -> Apps] /\ VersionOf \in [Types -> Nat \ {0}]
    /\ NoKey \notin IdemKeys /\ Dead \notin Publishers
    /\ Nobody \notin Apps \cup Types \cup EndpointIds \cup Publishers \cup Events \cup {Dead}
    /\ Graces \subseteq Nat /\ Budgets \subseteq [Operations -> Nat]

\* Behaviours start with tables that requests can have left: an endpoint that
\* is listed has a secret, and no endpoint two subscriptions to a type.
ASSUME StartedAssumption ==
    \A c \in Started :
        /\ c.app \in [Apps -> {"none", "live", "deleted"}] /\ c.type \in [Types -> {"none", "live", "archived", "deleted"}]
        /\ c.endpoint \in [EndpointIds -> EndpointRows] /\ c.secret \in [Secrets -> SecretRows] /\ c.clock \in Nat \ {0}
        /\ c.sub \in [Subs -> SubRows]
        /\ \A e \in EndpointIds :
             c.endpoint[e].status \in {"active", "paused"} =>
                 \E s \in Secrets : c.secret[s].owner = e /\ c.secret[s].active /\ c.secret[s].expires = 0
        /\ \A s \in Subs : c.sub[s].status # "none" => c.sub[s].endpoint \in EndpointIds
        /\ \A s, z \in Subs :
             (/\ c.sub[s].status = "active" /\ c.sub[z].status = "active"
              /\ c.sub[s].endpoint = c.sub[z].endpoint /\ c.sub[s].type = c.sub[z].type) => s = z

\* No rotation is under way and none overlapped with the last one of a listed
\* endpoint: the secret it inserted is the newest, and the only one without
\* expiry.  A secret is inserted after its endpoint.
ASSUME SettledAssumption ==
    \A c \in Started :
        /\ \A s \in Secrets :
             c.secret[s].owner # Nobody =>
                 c.endpoint[c.secret[s].owner].status # "none" /\ c.secret[s].created <= c.clock
        /\ \A e \in EndpointIds :
             c.endpoint[e].status \in {"active", "paused"} =>
                 \E s \in Secrets :
                     /\ c.secret[s].owner = e /\ c.secret[s].active /\ c.secret[s].expires = 0
                     /\ \A z \in Secrets \ {s} :
                          c.secret[z].owner = e /\ c.secret[z].active =>
                              c.secret[z].expires # 0 /\ c.secret[z].created < c.secret[s].created

VARIABLES
    events,   \* the events table
    jobs,     \* the delivery_jobs table: number of rows for an event and an endpoint
    lock,     \* Redis: who holds idmp_lock:events:<key>
    pub,      \* state of each request that publishes
    left,     \* what is left of the budget
    missed,   \* history: jobs that could not be created
    cut       \* history: events whose request did not get through its fan-out

vars == <<app, type, receivers, sub, subscriber, events, jobs, lock, pub, left, missed, cut>>

\* late and subs are history: was the request's lock gone, and which
\* subscriptions were there, when the event was inserted?
EventRows ==
    [stored: BOOLEAN, app: Apps \cup {Nobody}, type: Types \cup {Nobody}, key: IdemKeys \cup {NoKey}, recent: BOOLEAN,
     late: BOOLEAN, subs: SUBSET Subs]
NoEvent ==
    [stored |-> FALSE, app |-> Nobody, type |-> Nobody, key |-> NoKey, recent |-> FALSE, late |-> FALSE, subs |-> {}]
PubStates ==
    [pc: {"idle", "type", "lock", "find", "insert", "lookup", "fanout", "release"}, app: Apps \cup {Nobody},
     type: Types \cup {Nobody}, version: Nat, key: IdemKeys \cup {NoKey}, event: Events \cup {Nobody},
     todo: SUBSET Subs, late: BOOLEAN]
IdlePub ==
    [pc |-> "idle", app |-> Nobody, type |-> Nobody, version |-> 0, key |-> NoKey, event |-> Nobody, todo |-> {},
     late |-> FALSE]

TypeOK ==
    /\ CatalogTypeOK
    /\ events \in [Events -> EventRows]
    /\ jobs \in [Events \X EndpointIds -> Nat]
    /\ lock \in [IdemKeys -> Publishers \cup {Nobody, Dead}]
    /\ pub \in [Publishers -> PubStates]
    /\ left \in [Operations -> Nat]
    /\ missed \subseteq Events \X EndpointIds /\ cut \subseteq Events

Init ==
    /\ \E c \in Started : /\ app = c.app /\ type = c.type /\ sub = c.sub
                         /\ endpoint = c.endpoint /\ secret = c.secret /\ clock = c.clock
    /\ editor = [c \in Editors |-> IdleEditor] /\ rotator = [r \in Rotators |-> IdleRotator] /\ raced = {}
    /\ subscriber = [u \in Subscribers |-> IdleSubscriber]
    /\ events = [v \in Events |-> NoEvent]
    /\ jobs = [x \in Events \X EndpointIds |-> 0]
    /\ lock = [k \in IdemKeys |-> Nobody]
    /\ pub = [p \in Publishers |-> IdlePub]
    /\ left \in Budgets
    /\ missed = {} /\ cut = {}

Spend(kind) == left[kind] > 0 /\ left' = [left EXCEPT ![kind] = @ - 1]
Goes(p, r) == pub' = [pub EXCEPT ![p] = r]

OnCatalog ==
    /\ \/ CatalogRequest /\ Spend("catalog")
       \/ \E e \in EndpointIds : EndpointRequest(e) /\ Spend("endpoint")
       \/ SubscriberStep /\ UNCHANGED left
    /\ UNCHANGED <<events, jobs, lock, pub, missed, cut>>

OnEndpoints ==
    /\ \/ \E c \in Editors, e \in EndpointIds : GetEndpoint(c, e) /\ Spend("edit")
       \/ \E r \in Rotators, e \in EndpointIds, g \in Graces : RotateSecret(r, e, g) /\ Spend("rotate")
       \/ (EditorStep \/ RotatorStep) /\ UNCHANGED left
       \/ \E r \in Rotators : AbandonRotation(r) /\ Spend("fault")
       \/ SecondPasses /\ Spend("tick")
    /\ UNCHANGED <<app, type, sub, subscriber, events, jobs, lock, pub, missed, cut>>

(***************************************************************************)
(* Application and event type                                              *)
(***************************************************************************)
Publish(p, a, y, version, k) ==
    /\ pub[p].pc = "idle"
    /\ app[a] = "live"
    /\ Spend("publish")
    /\ Goes(p, [IdlePub EXCEPT !.pc = "type", !.app = a, !.type = y, !.version = version, !.key = k])
    /\ UNCHANGED <<catalog, events, jobs, lock, missed, cut>>

\* The rows of the family that an event may have: the one asked for may be
\* archived itself.
Candidates(y, version) ==
    {x \in Types : /\ Listed(y) /\ FamilyOf[x] = FamilyOf[y]
                   /\ version \in {0, VersionOf[x]}
                   /\ type[x] = "live"}
Latest(S) == {x \in S : \A z \in S : VersionOf[z] <= VersionOf[x]}

ResolveType(p) ==
    LET found == Candidates(pub[p].type, pub[p].version) IN
    /\ pub[p].pc = "type"
    /\ \/ found = {} /\ Goes(p, IdlePub)
       \/ \E y \in Latest(found) :
            Goes(p, [pub[p] EXCEPT !.type = y, !.pc = IF pub[p].key = NoKey THEN "insert" ELSE "lock"])
    /\ UNCHANGED <<catalog, events, jobs, lock, left, missed, cut>>

(***************************************************************************)
(* Idempotency                                                             *)
(***************************************************************************)
\* Broken variant: SET without NX.
AcquireAnyway(p) ==
    /\ pub[p].pc = "lock"
    /\ lock' = [lock EXCEPT ![pub[p].key] = p]
    /\ Goes(p, [pub[p] EXCEPT !.pc = "find"])
    /\ UNCHANGED <<catalog, events, jobs, left, missed, cut>>

\* SET NX PX; a lock that is held is a Conflict
AcquireLock(p) ==
    /\ pub[p].pc = "lock"
    /\ IF lock[pub[p].key] = Nobody
       THEN lock' = [lock EXCEPT ![pub[p].key] = p] /\ Goes(p, [pub[p] EXCEPT !.pc = "find"])
       ELSE UNCHANGED lock /\ Goes(p, IdlePub)
    /\ UNCHANGED <<catalog, events, jobs, left, missed, cut>>

\* The TTL ends; the request that held the lock does not notice.
LockExpires(k) ==
    /\ lock[k] # Nobody
    /\ lock' = [lock EXCEPT ![k] = Nobody]
    /\ IF lock[k] = Dead THEN UNCHANGED <<pub, left>>
       ELSE pub' = [pub EXCEPT ![lock[k]].late = TRUE] /\ Spend("slow")
    /\ UNCHANGED <<catalog, events, jobs, missed, cut>>

\* An event of the last hour with this key is the answer, or the reason for
\* a Conflict when its body was another one.
FindByKey(p) ==
    /\ pub[p].pc = "find"
    /\ LET earlier == {v \in Events : /\ events[v].stored /\ events[v].recent
                                      /\ events[v].app = pub[p].app /\ events[v].key = pub[p].key}
       IN Goes(p, [pub[p] EXCEPT !.pc = IF earlier = {} THEN "insert" ELSE "release"])
    /\ UNCHANGED <<catalog, events, jobs, lock, left, missed, cut>>

\* After the fan-out, or once it is clear that there is none.
Conclude(p) == Goes(p, IF pub[p].key = NoKey THEN IdlePub ELSE [pub[p] EXCEPT !.pc = "release"])

\* Only a lock that is still the request's own; a failing release leaves it
\* to its TTL.
ReleaseLock(p) ==
    LET k == pub[p].key IN
    /\ pub[p].pc = "release"
    /\ IF lock[k] = p THEN \E h \in {Nobody, Dead} : lock' = [lock EXCEPT ![k] = h] ELSE UNCHANGED lock
    /\ Goes(p, IdlePub)
    /\ UNCHANGED <<catalog, events, jobs, left, missed, cut>>

(***************************************************************************)
(* The event and its jobs                                                  *)
(***************************************************************************)
ActiveFor(y, a) == {s \in Subs : sub[s].status = "active" /\ sub[s].type = y /\ sub[s].app = a}

InsertEvent(p) ==
    /\ pub[p].pc = "insert"
    /\ \E v \in Events :
         /\ ~events[v].stored
         /\ events' = [events EXCEPT ![v] =
              [stored |-> TRUE, app |-> pub[p].app, type |-> pub[p].type, key |-> pub[p].key, recent |-> TRUE,
               late |-> pub[p].late, subs |-> ActiveFor(pub[p].type, pub[p].app)]]
         /\ Goes(p, [pub[p] EXCEPT !.pc = "lookup", !.event = v])
    /\ UNCHANGED <<catalog, jobs, lock, left, missed, cut>>

InsertFails(p) ==
    /\ pub[p].pc = "insert"
    /\ Spend("fault")
    /\ Conclude(p)
    /\ UNCHANGED <<catalog, events, jobs, lock, missed, cut>>

LookUpSubscriptions(p) ==
    LET found == ActiveFor(pub[p].type, pub[p].app) IN
    /\ pub[p].pc = "lookup"
    /\ IF found = {} THEN Conclude(p) ELSE Goes(p, [pub[p] EXCEPT !.pc = "fanout", !.todo = found])
    /\ UNCHANGED <<catalog, events, jobs, lock, left, missed, cut>>

\* logged, and the request goes on to succeed
LookUpFails(p) ==
    /\ pub[p].pc = "lookup"
    /\ Spend("fault")
    /\ Conclude(p)
    /\ cut' = cut \cup {pub[p].event}
    /\ UNCHANGED <<catalog, events, jobs, lock, missed>>

NextJob(p, s) == IF pub[p].todo = {s} THEN Conclude(p) ELSE Goes(p, [pub[p] EXCEPT !.todo = @ \ {s}])

CreateJob(p, s) ==
    /\ pub[p].pc = "fanout" /\ s \in pub[p].todo
    /\ jobs' = [jobs EXCEPT ![<<pub[p].event, sub[s].endpoint>>] = @ + 1]
    /\ NextJob(p, s)
    /\ UNCHANGED <<catalog, events, lock, left, missed, cut>>

\* Broken variant: the first failure ends the loop.
CreateJobBreaks(p, s) ==
    /\ pub[p].pc = "fanout" /\ s \in pub[p].todo
    /\ Spend("fault")
    /\ missed' = missed \cup {<<pub[p].event, sub[s].endpoint>>}
    /\ Conclude(p)
    /\ UNCHANGED <<catalog, events, jobs, lock, cut>>

\* logged as well; the loop goes on
CreateJobFails(p, s) ==
    /\ pub[p].pc = "fanout" /\ s \in pub[p].todo
    /\ Spend("fault")
    /\ missed' = missed \cup {<<pub[p].event, sub[s].endpoint>>}
    /\ NextJob(p, s)
    /\ UNCHANGED <<catalog, events, jobs, lock, cut>>

(***************************************************************************)
(* The rest of the world                                                   *)
(***************************************************************************)
\* The server dies, or the client goes away and the request with it.
Stop(p) ==
    /\ pub[p].pc # "idle"
    /\ Spend("fault")
    /\ cut' = IF pub[p].pc \in {"lookup", "fanout"} THEN cut \cup {pub[p].event} ELSE cut
    /\ lock' = [k \in IdemKeys |-> IF lock[k] = p THEN Dead ELSE lock[k]]
    /\ Goes(p, IdlePub)
    /\ UNCHANGED <<catalog, events, jobs, missed>>

\* An hour has passed.
LeaveWindow(v) ==
    /\ events[v].recent /\ events[v].key # NoKey
    /\ Spend("slow")
    /\ events' = [events EXCEPT ![v].recent = FALSE]
    /\ UNCHANGED <<catalog, jobs, lock, pub, missed, cut>>

Serve(p) ==
    \/ \E a \in Apps, y \in Types, k \in IdemKeys \cup {NoKey} :
         \E version \in {0, VersionOf[y]} : Publish(p, a, y, version, k)
    \/ ResolveType(p) \/ AcquireLock(p) \/ FindByKey(p) \/ InsertEvent(p) \/ InsertFails(p)
    \/ LookUpSubscriptions(p) \/ LookUpFails(p) \/ \E s \in Subs : CreateJob(p, s) \/ CreateJobFails(p, s)
    \/ ReleaseLock(p)

Next ==
    \/ OnCatalog \/ OnEndpoints
    \/ \E p \in Publishers : Serve(p) \/ Stop(p)
    \/ \E k \in IdemKeys : LockExpires(k)
    \/ \E v \in Events : LeaveWindow(v)

Spec == Init /\ [][Next]_vars

(***************************************************************************)
(* Properties                                                              *)
(***************************************************************************)

\* Two events of one application with the same idempotency key, within the
\* hour that find_by_idempotency_key looks back, only come about when one of
\* them was inserted by a request whose lock had expired.
KeyUsedOnce ==
    \A v, w \in Events :
        (/\ v # w /\ events[v].stored /\ events[w].stored
         /\ events[v].recent /\ events[w].recent
         /\ events[v].key # NoKey /\ events[v].key = events[w].key /\ events[v].app = events[w].app)
        => events[v].late \/ events[w].late

\* Once its request is through, an event has a job for every subscription
\* that was there from its insertion on, but for jobs whose INSERT failed:
\* enqueue_for_subscriptions goes on after a failure.  A request that ended
\* before, or whose lookup failed, leaves the event without, and so does the
\* replay of its key.  No endpoint gets an event twice, whatever requests
\* created, deleted and created again subscriptions meanwhile.
FanOutIsExact ==
    /\ \A v \in Events :
         (events[v].stored /\ v \notin cut /\ \A p \in Publishers : pub[p].event # v)
         => \A s \in events[v].subs :
              sub[s].status = "active" => jobs[<<v, sub[s].endpoint>>] > 0 \/ <<v, sub[s].endpoint>> \in missed
    /\ \A x \in Events \X EndpointIds : jobs[x] <= 1
=============================================================================
