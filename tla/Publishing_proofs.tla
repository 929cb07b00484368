-------------------------- MODULE Publishing_proofs --------------------------
(***************************************************************************)
(* The properties of Publishing and of the Endpoints in it, proved for     *)
(* every number of requests, events, keys, endpoints, subscriptions,       *)
(* secrets, editors and rotations.                                         *)
(*                                                                         *)
(* KeyUsedOnce rests on the lock: a request between its lookup and its     *)
(* insert that has not lost the lock still holds it, and what it did not   *)
(* find has not been inserted since by a request that held it (KeyInv).    *)
(* FanOutIsExact rests on who may add a job (FanInv): one request at most  *)
(* works on an event, no two subscriptions it still has to do are for the  *)
(* same endpoint, and none of those has its job yet.                       *)
(*                                                                         *)
(* A client that edits an endpoint holds a version that is not ahead of    *)
(* the row's, and the row itself if it is the same (EditInv); this is      *)
(* inductive because every write to the row is a new version. One whose    *)
(* UPDATE matched gets no row only if the endpoint was deleted, which is   *)
(* final. A rotation adds a secret without expiry to the endpoint whose    *)
(* secrets it retires, and takes none from another (SignInv).              *)
(*                                                                         *)
(* SignsWithShown rests on SigningInv: an endpoint on which no two         *)
(* rotations met has one secret without expiry, which is also its newest,  *)
(* because a rotation that was alone has retired every secret the endpoint *)
(* had and is later than all of them (SpanInv).                            *)
(***************************************************************************)
EXTENDS Publishing, TLAPS

Working(p) == pub[p].pc \in {"lookup", "fanout"}
Current(s) == sub[s].status = "active"

SubscriberStates ==
    [pc: {"idle", "endpoint", "type", "insert"}, app: Apps \cup {Nobody}, endpoint: EndpointIds \cup {Nobody},
     type: Types \cup {Nobody}]
PubTypes ==
    /\ events \in [Events -> EventRows]
    /\ jobs \in [Events \X EndpointIds -> Nat]
    /\ lock \in [IdemKeys -> Publishers \cup {Nobody, Dead}]
    /\ pub \in [Publishers -> PubStates]
    /\ sub \in [Subs -> SubRows]
    /\ subscriber \in [Subscribers -> SubscriberStates]

\* What each stage of a request has.
PubRefs ==
    \A p \in Publishers :
        /\ pub[p].pc \in {"lock", "find", "release"} => pub[p].key \in IdemKeys
        /\ Working(p) => pub[p].event \in Events

SubscriberInv ==
    \A u \in Subscribers :
        subscriber[u].pc # "idle" => subscriber[u].endpoint \in EndpointIds

SubInv ==
    /\ \A s \in Subs : sub[s].status # "none" => sub[s].endpoint \in EndpointIds
    /\ \A s, z \in Subs :
         Current(s) /\ Current(z) /\ sub[s].endpoint = sub[z].endpoint /\ sub[s].type = sub[z].type => s = z

\* An event that find_by_idempotency_key would return.
Clash(v, a, k) == events[v].stored /\ events[v].recent /\ events[v].app = a /\ events[v].key = k

KeyOf(p) ==
    /\ pub[p].pc \in {"find", "insert"} /\ pub[p].key # NoKey /\ ~pub[p].late => lock[pub[p].key] = p
    /\ pub[p].pc = "insert" /\ pub[p].key # NoKey /\ ~pub[p].late =>
         \A v \in Events : Clash(v, pub[p].app, pub[p].key) => events[v].late
KeyInv == \A p \in Publishers : KeyOf(p)

FanOf(p) ==
    /\ Working(p) =>
         /\ events[pub[p].event].stored
         /\ events[pub[p].event].app = pub[p].app /\ events[pub[p].event].type = pub[p].type
    /\ pub[p].pc = "lookup" => \A e \in EndpointIds : jobs[<<pub[p].event, e>>] = 0
    /\ pub[p].pc = "fanout" =>
         /\ \A s \in pub[p].todo : sub[s].status # "none" /\ jobs[<<pub[p].event, sub[s].endpoint>>] = 0
         /\ \A s, z \in pub[p].todo : sub[s].endpoint = sub[z].endpoint => s = z
\* Some request still has to see to the subscription.
Due(v, s) == \E p \in Publishers : pub[p].event = v /\ (pub[p].pc = "lookup" \/ (pub[p].pc = "fanout" /\ s \in pub[p].todo))
Done(v, s) == jobs[<<v, sub[s].endpoint>>] > 0 \/ <<v, sub[s].endpoint>> \in missed
EventOf(v) ==
    /\ ~events[v].stored => \A e \in EndpointIds : jobs[<<v, e>>] = 0
    /\ events[v].stored =>
         \A s \in events[v].subs :
             /\ sub[s].status # "none" /\ sub[s].type = events[v].type /\ sub[s].app = events[v].app
             /\ v \notin cut /\ Current(s) => Due(v, s) \/ Done(v, s)
FanInv ==
    /\ \A p \in Publishers : FanOf(p)
    /\ \A p, q \in Publishers : Working(p) /\ Working(q) /\ pub[p].event = pub[q].event => p = q
    /\ \A v \in Events : EventOf(v)
    /\ \A x \in Events \X EndpointIds : jobs[x] <= 1

PublishingInv == PubTypes /\ PubRefs /\ SubscriberInv /\ SubInv /\ KeyInv /\ KeyUsedOnce /\ FanInv

\* A subscription is inserted in a row of its own, where the endpoint has none
\* to the type; and it is deleted for good.
Added(s, row) ==
    /\ sub' = [sub EXCEPT ![s] = row] /\ sub[s].status = "none"
    /\ row.status = "active" /\ row.endpoint \in EndpointIds
    /\ \A z \in Subs : ~(Current(z) /\ sub[z].endpoint = row.endpoint /\ sub[z].type = row.type)
Dropped(s, row) ==
    /\ sub' = [sub EXCEPT ![s] = row] /\ sub[s].status = "active"
    /\ row.status = "deleted" /\ row.endpoint = sub[s].endpoint /\ row.type = sub[s].type /\ row.app = sub[s].app

\* The catalog's requests write subscriptions in no other way.
LEMMA SubEffect ==
  ASSUME PubTypes, SubscriberInv, OnCatalog
  PROVE  /\ subscriber' \in [Subscribers -> SubscriberStates] /\ SubscriberInv'
         /\ sub' = sub \/ \E s \in Subs, row \in SubRows : Added(s, row) \/ Dropped(s, row)
<1> DEFINE Goal == /\ subscriber' \in [Subscribers -> SubscriberStates] /\ SubscriberInv'
                   /\ sub' = sub \/ \E s \in Subs, row \in SubRows : Added(s, row) \/ Dropped(s, row)
<1>1. ASSUME NEW u \in Subscribers, NEW r \in SubscriberStates, subscriber' = [subscriber EXCEPT ![u] = r],
             r.pc # "idle" => r.endpoint \in EndpointIds
      PROVE  subscriber' \in [Subscribers -> SubscriberStates] /\ SubscriberInv'
  BY <1>1 DEF PubTypes, SubscriberInv
<1>2. IdleSubscriber \in SubscriberStates /\ IdleSubscriber.pc = "idle"
  BY DEF IdleSubscriber, SubscriberStates
<1>3. ASSUME UNCHANGED <<sub, subscriber>> PROVE Goal
  BY <1>3 DEF PubTypes, SubscriberInv
<1>4. ASSUME NEW u \in Subscribers, NEW a \in Apps, NEW e \in EndpointIds, NEW y \in Types, Subscribe(u, a, e, y) PROVE Goal
  <2> DEFINE r == [pc |-> "endpoint", app |-> a, endpoint |-> e, type |-> y]
  <2>1. r \in SubscriberStates /\ r.endpoint = e
    BY DEF SubscriberStates
  <2>2. subscriber' = [subscriber EXCEPT ![u] = r] /\ sub' = sub
    BY <1>4 DEF Subscribe, SubscriberGoes
  <2> HIDE DEF r
  <2> QED
    BY Zenon, <1>1, <2>1, <2>2
<1>5. ASSUME NEW u \in Subscribers, FindEndpoint(u) \/ FindType(u) PROVE Goal
  <2>1. subscriber[u] \in SubscriberStates /\ subscriber[u].endpoint \in EndpointIds
    BY <1>5 DEF FindEndpoint, FindType, PubTypes, SubscriberInv
  <2>2. ASSUME NEW c \in {"type", "insert"}
        PROVE  [subscriber[u] EXCEPT !.pc = c] \in SubscriberStates /\ [subscriber[u] EXCEPT !.pc = c].endpoint \in EndpointIds
    BY <2>1 DEF SubscriberStates
  <2>3. \E r \in SubscriberStates : subscriber' = [subscriber EXCEPT ![u] = r] /\ (r.pc # "idle" => r.endpoint \in EndpointIds)
    <3>1. CASE FindEndpoint(u)
      BY Zenon, <1>2, <2>2, <3>1 DEF FindEndpoint, SubscriberGoes
    <3>2. CASE FindType(u)
      BY Zenon, <1>2, <2>2, <3>2 DEF FindType, SubscriberGoes
    <3> QED
      BY <1>5, <3>1, <3>2
  <2> QED
    BY Zenon, <1>1, <1>5, <2>3 DEF FindEndpoint, FindType
<1>6. ASSUME NEW u \in Subscribers, InsertSubscription(u) PROVE Goal
  <2>1. subscriber' \in [Subscribers -> SubscriberStates] /\ SubscriberInv'
    BY Zenon, <1>1, <1>2, <1>6 DEF InsertSubscription, SubscriberGoes
  <2>2. sub' = sub \/ \E s \in Subs, row \in SubRows : Added(s, row)
    <3> DEFINE row == [status |-> "active", endpoint |-> subscriber[u].endpoint, type |-> subscriber[u].type, app |-> subscriber[u].app]
    <3>1. row \in SubRows /\ row.status = "active" /\ row.endpoint \in EndpointIds
      BY <1>6 DEF InsertSubscription, SubRows, PubTypes, SubscriberStates, SubscriberInv
    <3>2. row.endpoint = subscriber[u].endpoint /\ row.type = subscriber[u].type
      OBVIOUS
    <3>3. \/ sub' = sub
          \/ /\ ~AlreadySubscribed(row.endpoint, row.type)
             /\ \E s \in Subs : sub[s].status = "none" /\ sub' = [sub EXCEPT ![s] = row]
      BY <1>6 DEF InsertSubscription
    <3> HIDE DEF row
    <3> QED
      BY <3>1, <3>3 DEF Added, AlreadySubscribed, Current
  <2> QED
    BY <2>1, <2>2
<1>7. ASSUME NEW s \in Subs, Unsubscribe(s) PROVE Goal
  <2> DEFINE row == [sub[s] EXCEPT !.status = "deleted"]
  <2>1. /\ row \in SubRows /\ row.status = "deleted"
        /\ row.endpoint = sub[s].endpoint /\ row.type = sub[s].type /\ row.app = sub[s].app
    BY SMTT(30) DEF PubTypes, SubRows
  <2>2. sub' = [sub EXCEPT ![s] = row] /\ sub[s].status = "active" /\ subscriber' = subscriber
    BY <1>7 DEF Unsubscribe
  <2> HIDE DEF row
  <2>3. Dropped(s, row)
    BY <2>1, <2>2 DEF Dropped
  <2> QED
    BY <2>1, <2>2, <2>3 DEF PubTypes, SubscriberInv
<1>8. ASSUME CatalogRequest PROVE Goal
  BY <1>3, <1>4, <1>7, <1>8 DEF CatalogRequest, CreateApp, DeleteApp, RestoreApp, SetApp, CreateType, CreateVersion, DeleteType, Archive,
                                Unarchive, SetArchived, SetType
<1>9. ASSUME NEW e \in EndpointIds, EndpointRequest(e) PROVE Goal
  BY <1>3, <1>9 DEF EndpointRequest
<1> QED
  BY <1>5, <1>6, <1>8, <1>9 DEF OnCatalog, SubscriberStep

\* A subscription keeps what it says, and does not come back.
LEMMA SubStep ==
  ASSUME PubTypes, SubInv, sub' = sub \/ \E s \in Subs, row \in SubRows : Added(s, row) \/ Dropped(s, row)
  PROVE  /\ sub' \in [Subs -> SubRows] /\ SubInv'
         /\ \A s \in Subs : sub[s].status # "none" =>
              /\ sub'[s].status # "none" /\ (Current(s)' => Current(s))
              /\ sub'[s].endpoint = sub[s].endpoint /\ sub'[s].type = sub[s].type /\ sub'[s].app = sub[s].app
<1>1. CASE sub' = sub
  BY <1>1 DEF PubTypes, SubInv, Current
<1>2. ASSUME NEW s \in Subs, NEW row \in SubRows, Added(s, row)
      PROVE  /\ sub' \in [Subs -> SubRows] /\ SubInv'
             /\ \A z \in Subs : sub[z].status # "none" => sub'[z] = sub[z]
  BY <1>2 DEF PubTypes, SubInv, Current, Added
<1>3. ASSUME NEW s \in Subs, NEW row \in SubRows, Dropped(s, row)
      PROVE  /\ sub' \in [Subs -> SubRows] /\ SubInv'
             /\ \A z \in Subs : sub[z].status # "none" =>
                  /\ sub'[z].status # "none" /\ (Current(z)' => Current(z))
                  /\ sub'[z].endpoint = sub[z].endpoint /\ sub'[z].type = sub[z].type /\ sub'[z].app = sub[z].app
  BY <1>3 DEF PubTypes, SubInv, Current, Dropped
<1> QED
  BY <1>1, <1>2, <1>3 DEF Current

\* A request moves to a stage in which it does not work on an event; the only
\* locks that change are free ones and its own; what it leaves undone is done
\* or the event cut.
Moves(p, x) ==
    /\ pub' = [pub EXCEPT ![p] = x] /\ x \in PubStates
    /\ x.pc \notin {"lookup", "fanout"}
    /\ x.pc \in {"lock", "find", "release"} => x.key \in IdemKeys
    /\ x.pc \in {"find", "insert"} /\ x.key # NoKey /\ ~x.late => lock'[x.key] = p
    /\ x.pc = "insert" /\ x.key # NoKey /\ ~x.late => \A v \in Events : Clash(v, x.app, x.key) => events[v].late
Leaves(p) ==
    /\ cut \subseteq cut'
    /\ Working(p) /\ pub[p].event \notin cut' =>
         \A s \in events[pub[p].event].subs : Current(s) => Done(pub[p].event, s)
LocksOf(p) ==
    /\ lock' \in [IdemKeys -> Publishers \cup {Nobody, Dead}]
    /\ \A k \in IdemKeys : lock'[k] = lock[k] \/ lock[k] \in {p, Nobody}

\* Such a move keeps the invariant.
LEMMA MovesStep ==
  ASSUME PubTypes, PubRefs, KeyInv, KeyUsedOnce, FanInv, NEW p \in Publishers, NEW x, Moves(p, x), Leaves(p), LocksOf(p),
         UNCHANGED <<events, jobs, sub, subscriber, missed>>
  PROVE  PubTypes' /\ PubRefs' /\ KeyInv' /\ KeyUsedOnce' /\ FanInv'
<1>1. pub'[p] = x /\ \A q \in Publishers : q # p => pub'[q] = pub[q]
  BY DEF Moves, PubTypes
<1>2. PubTypes'
  BY DEF Moves, LocksOf, PubTypes
<1>3. PubRefs'
  BY <1>1 DEF PubRefs, Moves, Working
<1>4. KeyInv'
  <2>1. ASSUME NEW q \in Publishers, q # p PROVE KeyOf(q)'
    <3>1. pub[q].key \in IdemKeys \cup {NoKey}
      BY DEF PubTypes, PubStates
    <3>2. \A k \in IdemKeys : lock[k] = q => lock'[k] = q
      BY <2>1, PublishingAssumption DEF LocksOf
    <3>3. KeyOf(q)
      BY DEF KeyInv
    <3> QED
      BY <1>1, <2>1, <3>1, <3>2, <3>3 DEF KeyOf, Clash
  <2>2. KeyOf(p)'
    BY <1>1 DEF KeyOf, Moves, Clash
  <2> QED
    BY <2>1, <2>2 DEF KeyInv
<1>5. KeyUsedOnce'
  BY DEF KeyUsedOnce
<1>6. \A q \in Publishers : Working(q)' => q # p /\ Working(q)
  BY SMTT(30), <1>1 DEF Working, Moves
<1>7. \A q \in Publishers : FanOf(q)'
  BY SMTT(30), <1>1, <1>6 DEF FanInv, FanOf, Working
<1>8. ASSUME NEW v \in Events PROVE EventOf(v)'
  <2>1. ASSUME events[v].stored, NEW s \in events[v].subs, v \notin cut', Current(s), Due(v, s) PROVE Due(v, s)' \/ Done(v, s)
    <3>1. PICK q \in Publishers : pub[q].event = v /\ (pub[q].pc = "lookup" \/ (pub[q].pc = "fanout" /\ s \in pub[q].todo))
      BY <2>1 DEF Due
    <3>2. CASE q = p
      BY <2>1, <3>1, <3>2 DEF Leaves, Working
    <3>3. CASE q # p
      BY <1>1, <3>1, <3>3 DEF Due
    <3> QED
      BY <3>2, <3>3
  <2>2. EventOf(v) /\ cut \subseteq cut'
    BY DEF FanInv, Leaves
  <2> QED
    BY <2>1, <2>2 DEF EventOf, Done, Current
<1>9. \A q, r \in Publishers : (Working(q) /\ Working(r) /\ pub[q].event = pub[r].event)' => q = r
  BY <1>1, <1>6 DEF FanInv
<1> QED
  BY <1>2, <1>3, <1>4, <1>5, <1>7, <1>8, <1>9 DEF FanInv

Stages == {"idle", "type", "lock", "find", "insert", "lookup", "fanout", "release"}

\* A request in another stage is otherwise as it was.
LEMMA StageRecord ==
  ASSUME NEW r \in PubStates, NEW c \in Stages
  PROVE  LET x == [r EXCEPT !.pc = c] IN
         /\ x \in PubStates /\ x.pc = c
         /\ x.app = r.app /\ x.type = r.type /\ x.key = r.key /\ x.event = r.event /\ x.todo = r.todo /\ x.late = r.late
BY DEF PubStates, Stages

\* A request that is over.
LEMMA IdleRecord == IdlePub \in PubStates /\ IdlePub.pc = "idle"
BY DEF IdlePub, PubStates

\* A request that ends, or has only its lock to release, moves.
LEMMA ConcludeMoves ==
  ASSUME PubTypes, NEW p \in Publishers, Conclude(p)
  PROVE  \E x \in PubStates : Moves(p, x) /\ x.pc \in {"idle", "release"}
<1>1. CASE pub[p].key = NoKey
  BY Zenon, <1>1, IdleRecord DEF Conclude, Goes, Moves
<1>2. CASE pub[p].key # NoKey
  <2> DEFINE x == [pub[p] EXCEPT !.pc = "release"]
  <2>1. x \in PubStates /\ x.pc = "release" /\ x.key = pub[p].key
    BY Zenon, StageRecord DEF PubTypes, Stages
  <2>2. pub' = [pub EXCEPT ![p] = x]
    BY <1>2 DEF Conclude, Goes
  <2>3. pub[p].key \in IdemKeys
    BY <1>2 DEF PubTypes, PubStates
  <2> HIDE DEF x
  <2> QED
    BY Zenon, <2>1, <2>2, <2>3 DEF Moves
<1> QED
  BY <1>1, <1>2

\* The handler of POST /events up to the insert, and its ends, as moves.
LEMMA ServeMoves ==
  ASSUME PubTypes, PubRefs, KeyInv, NEW p \in Publishers,
         \/ \E a \in Apps, y \in Types, k \in IdemKeys \cup {NoKey} : \E version \in {0, VersionOf[y]} : Publish(p, a, y, version, k)
         \/ ResolveType(p) \/ AcquireLock(p) \/ FindByKey(p) \/ InsertFails(p) \/ LookUpFails(p) \/ ReleaseLock(p) \/ Stop(p)
  PROVE  /\ \E x \in PubStates : Moves(p, x)
         /\ Leaves(p) /\ LocksOf(p) /\ UNCHANGED <<events, jobs, sub, subscriber, missed>>
<1> DEFINE Goal == /\ \E x \in PubStates : Moves(p, x)
                   /\ Leaves(p) /\ LocksOf(p) /\ UNCHANGED <<events, jobs, sub, subscriber, missed>>
<1>0. pub[p] \in PubStates
  BY DEF PubTypes
<1>1. ASSUME NEW a \in Apps, NEW y \in Types, NEW k \in IdemKeys \cup {NoKey}, NEW version \in {0, VersionOf[y]}, Publish(p, a, y, version, k)
      PROVE  Goal
  <2> DEFINE x == [IdlePub EXCEPT !.pc = "type", !.app = a, !.type = y, !.version = version, !.key = k]
  <2>1. version \in Nat
    BY PublishingAssumption
  <2>2. x \in PubStates /\ x.pc = "type"
    BY Zenon, <2>1 DEF IdlePub, PubStates
  <2>3. pub' = [pub EXCEPT ![p] = x]
    BY Zenon, <1>1 DEF Publish, Goes
  <2> HIDE DEF x
  <2>4. Moves(p, x)
    BY Zenon, <2>2, <2>3 DEF Moves
  <2> QED
    BY Zenon, <1>1, <2>2, <2>4 DEF Publish, Leaves, LocksOf, Working, PubTypes, catalog
<1>2. ASSUME ResolveType(p) PROVE Goal
  <2>1. \E x \in PubStates : Moves(p, x)
    <3>1. CASE pub' = [pub EXCEPT ![p] = IdlePub]
      BY ZenonT(40), <3>1, IdleRecord DEF Moves
    <3>2. ASSUME NEW y \in Types, pub' = [pub EXCEPT ![p] = [pub[p] EXCEPT !.type = y, !.pc = IF pub[p].key = NoKey THEN "insert" ELSE "lock"]]
          PROVE  \E x \in PubStates : Moves(p, x)
      <4> DEFINE x == [pub[p] EXCEPT !.type = y, !.pc = IF pub[p].key = NoKey THEN "insert" ELSE "lock"]
      <4>1. x \in PubStates /\ x.pc = (IF pub[p].key = NoKey THEN "insert" ELSE "lock") /\ x.key = pub[p].key
        BY ZenonT(40), <1>0 DEF PubStates
      <4>2. pub[p].key \in IdemKeys \cup {NoKey}
        BY <1>0 DEF PubStates
      <4>3. pub' = [pub EXCEPT ![p] = x]
        BY SMTT(30), <3>2
      <4> HIDE DEF x
      <4>4. Moves(p, x)
        BY SMTT(30), <4>1, <4>2, <4>3 DEF Moves
      <4> QED
        BY <4>1, <4>4
    <3> QED
      BY Zenon, <1>2, <3>1, <3>2 DEF ResolveType, Goes, Latest, Candidates
  <2> QED
    BY Zenon, <1>2, <2>1 DEF ResolveType, Leaves, LocksOf, Working, PubTypes, catalog
<1>3. ASSUME AcquireLock(p) PROVE Goal
  <2>1. pub[p].key \in IdemKeys
    BY <1>3 DEF AcquireLock, PubRefs
  <2>2. CASE lock[pub[p].key] = Nobody
    <3> DEFINE x == [pub[p] EXCEPT !.pc = "find"]
    <3>1. x \in PubStates /\ x.pc = "find" /\ x.key = pub[p].key
      BY Zenon, <1>0, StageRecord DEF Stages
    <3>2. pub' = [pub EXCEPT ![p] = x] /\ lock' = [lock EXCEPT ![pub[p].key] = p]
      BY <1>3, <2>2 DEF AcquireLock, Goes
    <3> HIDE DEF x
    <3>3. Moves(p, x)
      BY <2>1, <3>1, <3>2 DEF Moves, PubTypes
    <3> QED
      BY <1>3, <2>1, <2>2, <3>1, <3>2, <3>3 DEF AcquireLock, Leaves, LocksOf, Working, PubTypes, catalog
  <2>3. CASE lock[pub[p].key] # Nobody
    <3>1. Moves(p, IdlePub)
      BY <1>3, <2>3, IdleRecord DEF AcquireLock, Goes, Moves
    <3> QED
      BY <1>3, <2>3, <3>1, IdleRecord DEF AcquireLock, Leaves, LocksOf, Working, PubTypes, catalog
  <2> QED
    BY <2>2, <2>3
<1>4. ASSUME FindByKey(p) PROVE Goal
  <2>1. pub[p].key \in IdemKeys /\ lock' = lock
    BY <1>4 DEF FindByKey, PubRefs
  <2>2. PICK c \in {"insert", "release"} :
          /\ pub' = [pub EXCEPT ![p] = [pub[p] EXCEPT !.pc = c]]
          /\ c = "insert" => \A v \in Events : ~Clash(v, pub[p].app, pub[p].key)
    BY Zenon, <1>4 DEF FindByKey, Goes, Clash
  <2> DEFINE x == [pub[p] EXCEPT !.pc = c]
  <2>3. x \in PubStates /\ x.pc = c /\ x.key = pub[p].key /\ x.app = pub[p].app /\ x.late = pub[p].late
    <3>1. c \in Stages
      BY DEF Stages
    <3> QED
      BY <1>0, <3>1, StageRecord
  <2>4. pub[p].key # NoKey /\ ~pub[p].late => lock[pub[p].key] = p
    BY <1>4 DEF FindByKey, KeyInv, KeyOf
  <2>5. pub' = [pub EXCEPT ![p] = x]
    BY <2>2
  <2> HIDE DEF x
  <2>6. Moves(p, x)
    BY ZenonT(40), <2>1, <2>2, <2>3, <2>4, <2>5 DEF Moves
  <2> QED
    BY <1>4, <2>3, <2>6 DEF FindByKey, Leaves, LocksOf, Working, PubTypes, catalog
<1>5. ASSUME InsertFails(p) PROVE Goal
  BY <1>5, ConcludeMoves DEF InsertFails, Leaves, LocksOf, Working, PubTypes, catalog
<1>6. ASSUME LookUpFails(p) PROVE Goal
  BY Zenon, <1>6, ConcludeMoves DEF LookUpFails, Leaves, LocksOf, Working, PubTypes, catalog
<1>7. ASSUME ReleaseLock(p) PROVE Goal
  <2>1. Moves(p, IdlePub)
    BY <1>7, IdleRecord DEF ReleaseLock, Goes, Moves
  <2>2. LocksOf(p)
    BY ZenonT(40), <1>7 DEF ReleaseLock, LocksOf, PubTypes
  <2> QED
    BY ZenonT(40), <1>7, <2>1, <2>2, IdleRecord DEF ReleaseLock, Leaves, Working, catalog
<1>8. ASSUME Stop(p) PROVE Goal
  <2>1. Moves(p, IdlePub)
    BY <1>8, IdleRecord DEF Stop, Goes, Moves
  <2>2. LocksOf(p)
    BY <1>8 DEF Stop, LocksOf, PubTypes
  <2> QED
    BY ZenonT(40), <1>8, <2>1, <2>2, IdleRecord DEF Stop, Leaves, Working, catalog
<1> QED
  BY <1>1, <1>2, <1>3, <1>4, <1>5, <1>6, <1>7, <1>8

\* The lookup of the subscriptions finds all that were there at the insert and
\* still are.
LEMMA LookUpStep ==
  ASSUME PubTypes, PubRefs, SubInv, KeyInv, KeyUsedOnce, FanInv, NEW p \in Publishers, LookUpSubscriptions(p)
  PROVE  PubTypes' /\ PubRefs' /\ KeyInv' /\ KeyUsedOnce' /\ FanInv'
<1> DEFINE found == ActiveFor(pub[p].type, pub[p].app)
<1> DEFINE v == pub[p].event
<1>1. v \in Events /\ Working(p) /\ pub[p] \in PubStates /\ pub[p].pc = "lookup"
  BY ZenonT(40) DEF LookUpSubscriptions, Working, PubRefs, PubTypes
<1>2. \A s \in events[v].subs : Current(s) => s \in found
  <2>1. EventOf(v) /\ FanOf(p) /\ events[v].subs \subseteq Subs
    BY <1>1 DEF FanInv, PubTypes, EventRows
  <2> QED
    BY <1>1, <2>1 DEF EventOf, FanOf, ActiveFor, Current
<1>3. UNCHANGED <<events, jobs, lock, sub, subscriber, missed, cut>>
  BY DEF LookUpSubscriptions, catalog
<1>4. CASE found = {}
  <2>1. PICK x \in PubStates : Moves(p, x)
    BY SMTT(30), <1>4, ConcludeMoves DEF LookUpSubscriptions
  <2>2. Leaves(p) /\ LocksOf(p)
    BY <1>2, <1>3, <1>4 DEF Leaves, LocksOf, PubTypes
  <2> QED
    BY <1>3, <2>1, <2>2, MovesStep
<1>5. CASE found # {}
  <2> DEFINE x == [pub[p] EXCEPT !.pc = "fanout", !.todo = found]
  <2>1. /\ x \in PubStates /\ x.pc = "fanout" /\ x.event = v /\ x.todo = found /\ x.app = pub[p].app /\ x.type = pub[p].type
    BY Zenon, <1>1 DEF PubStates, ActiveFor
  <2>2. pub' = [pub EXCEPT ![p] = x]
    BY <1>5 DEF LookUpSubscriptions, Goes
  <2>3. found \subseteq Subs /\ \A s \in found : Current(s) /\ sub[s].endpoint \in EndpointIds
    BY DEF ActiveFor, Current, SubInv
  <2>4. \A s, z \in found : sub[s].endpoint = sub[z].endpoint => s = z
    BY DEF ActiveFor, Current, SubInv
  <2> HIDE DEF x, found, v
  <2>5. pub'[p] = x /\ \A q \in Publishers : q # p => pub'[q] = pub[q]
    BY <2>2 DEF PubTypes
  <2>6. PubTypes'
    BY <1>3, <2>1, <2>2 DEF PubTypes
  <2>7. PubRefs'
    BY ZenonT(40), <1>1, <2>1, <2>5 DEF PubRefs, Working
  <2>8. KeyInv' /\ KeyUsedOnce'
    BY <1>3, <2>1, <2>5 DEF KeyInv, KeyOf, Clash, KeyUsedOnce
  <2>9. ASSUME NEW q \in Publishers PROVE FanOf(q)'
    <3>1. CASE q = p
      <4>1. FanOf(p) /\ v = pub[p].event
        BY DEF FanInv, v
      <4>2. \A s \in found : jobs[<<v, sub[s].endpoint>>] = 0 /\ sub[s].status # "none"
        BY ZenonT(40), <1>1, <2>3, <4>1 DEF FanOf, Current
      <4> QED
        BY SMTT(30), <1>1, <1>3, <2>1, <2>4, <2>5, <3>1, <4>1, <4>2 DEF FanOf, Working
    <3>2. CASE q # p
      BY <1>3, <2>5, <3>2 DEF FanInv, FanOf, Working
    <3> QED
      BY ZenonT(40), <3>1, <3>2
  <2>10. ASSUME NEW w \in Events PROVE EventOf(w)'
    <3>1. ASSUME events[w].stored, NEW s \in events[w].subs, Current(s), Due(w, s) PROVE Due(w, s)'
      <4>1. PICK q \in Publishers : pub[q].event = w /\ (pub[q].pc = "lookup" \/ (pub[q].pc = "fanout" /\ s \in pub[q].todo))
        BY <3>1 DEF Due
      <4>2. CASE q = p
        BY <1>2, <2>1, <2>5, <3>1, <4>1, <4>2 DEF Due, v
      <4>3. CASE q # p
        BY SMTT(30), <2>5, <4>1, <4>3 DEF Due
      <4> QED
        BY <4>2, <4>3
    <3>2. EventOf(w)
      BY DEF FanInv
    <3> QED
      BY <1>3, <3>1, <3>2 DEF EventOf, Done, Current
  <2>11. \A q, r \in Publishers : (Working(q) /\ Working(r) /\ pub[q].event = pub[r].event)' => q = r
    <3>1. \A q \in Publishers : Working(q)' => Working(q) /\ pub'[q].event = pub[q].event
      BY Zenon, <1>1, <2>1, <2>5 DEF Working, v
    <3> QED
      BY <3>1 DEF FanInv
  <2> QED
    BY Zenon, <1>3, <2>6, <2>7, <2>8, <2>9, <2>10, <2>11 DEF FanInv
<1> QED
  BY <1>4, <1>5

\* An insert makes the event of one request only; if the request has not lost
\* its lock, no other event within the hour has its key but late ones.
LEMMA InsertStep ==
  ASSUME PubTypes, PubRefs, SubInv, KeyInv, KeyUsedOnce, FanInv, NEW p \in Publishers, InsertEvent(p)
  PROVE  PubTypes' /\ PubRefs' /\ KeyInv' /\ KeyUsedOnce' /\ FanInv'
<1>1. PICK v \in Events :
        /\ ~events[v].stored
        /\ events' = [events EXCEPT ![v] =
             [stored |-> TRUE, app |-> pub[p].app, type |-> pub[p].type, key |-> pub[p].key, recent |-> TRUE,
              late |-> pub[p].late, subs |-> ActiveFor(pub[p].type, pub[p].app)]]
        /\ pub' = [pub EXCEPT ![p] = [pub[p] EXCEPT !.pc = "lookup", !.event = v]]
  BY Zenon DEF InsertEvent, Goes
<1> DEFINE row == [stored |-> TRUE, app |-> pub[p].app, type |-> pub[p].type, key |-> pub[p].key, recent |-> TRUE,
                   late |-> pub[p].late, subs |-> ActiveFor(pub[p].type, pub[p].app)]
<1> DEFINE x == [pub[p] EXCEPT !.pc = "lookup", !.event = v]
<1>2. pub[p] \in PubStates /\ pub[p].pc = "insert"
  BY Zenon DEF InsertEvent, PubTypes
<1>3. /\ row \in EventRows /\ row.stored /\ row.recent /\ row.app = pub[p].app /\ row.type = pub[p].type /\ row.key = pub[p].key
      /\ row.late = pub[p].late /\ row.subs = ActiveFor(pub[p].type, pub[p].app)
  BY Zenon, <1>2 DEF PubStates, EventRows, ActiveFor
<1>4. /\ x \in PubStates /\ x.pc = "lookup" /\ x.event = v /\ x.app = pub[p].app /\ x.type = pub[p].type
  BY Zenon, <1>2 DEF PubStates
<1>5. events' = [events EXCEPT ![v] = row] /\ pub' = [pub EXCEPT ![p] = x] /\ UNCHANGED <<jobs, lock, sub, subscriber, missed, cut>>
  BY Zenon, <1>1 DEF InsertEvent, catalog
<1> HIDE DEF row, x
<1>6. /\ pub'[p] = x /\ \A q \in Publishers : q # p => pub'[q] = pub[q]
      /\ events'[v] = row /\ \A w \in Events : w # v => events'[w] = events[w]
  BY <1>5 DEF PubTypes
<1>7. PubTypes'
  BY ZenonT(40), <1>3, <1>4, <1>5 DEF PubTypes
<1>8. PubRefs'
  BY <1>4, <1>6 DEF PubRefs, Working
<1>9. ASSUME NEW q \in Publishers PROVE KeyOf(q)'
  <2>1. CASE q = p
    BY ZenonT(40), <1>4, <1>6, <2>1 DEF KeyOf
  <2>2. CASE q # p
    <3>1. KeyOf(q) /\ KeyOf(p)
      BY DEF KeyInv
    <3>2. pub'[q] = pub[q] /\ lock' = lock
      BY <1>5, <1>6, <2>2
    <3>3. ASSUME pub[q].pc = "insert", pub[q].key # NoKey, ~pub[q].late, NEW w \in Events, Clash(w, pub[q].app, pub[q].key)'
          PROVE  events'[w].late
      <4>1. CASE w # v
        BY Zenon, <1>6, <3>1, <3>2, <3>3, <4>1 DEF KeyOf, Clash
      <4>2. CASE w = v
        <5>1. pub[p].key = pub[q].key
          BY ZenonT(40), <1>3, <1>6, <3>2, <3>3, <4>2 DEF Clash
        <5>2. pub[p].late
          BY ZenonT(40), <1>2, <2>2, <3>1, <3>3, <5>1 DEF KeyOf
        <5> QED
          BY Zenon, <1>3, <1>6, <4>2, <5>2
      <4> QED
        BY Zenon, <4>1, <4>2
    <3> QED
      BY <3>1, <3>2, <3>3 DEF KeyOf, Clash
  <2> QED
    BY <2>1, <2>2
<1>10. KeyUsedOnce'
  <2>1. pub[p].key # NoKey /\ ~pub[p].late => \A w \in Events : Clash(w, pub[p].app, pub[p].key) => events[w].late
    BY Zenon, <1>2 DEF KeyInv, KeyOf
  <2>2. \A w, y \in Events : w # v /\ y # v /\
          (/\ w # y /\ events'[w].stored /\ events'[y].stored
           /\ events'[w].recent /\ events'[y].recent
           /\ events'[w].key # NoKey /\ events'[w].key = events'[y].key /\ events'[w].app = events'[y].app)
          => events'[w].late \/ events'[y].late
    BY ZenonT(40), <1>6 DEF KeyUsedOnce
  <2>3. ASSUME NEW w \in Events, w # v, events'[w].stored, events'[w].recent, events'[w].key = events'[v].key, events'[w].key # NoKey,
               events'[w].app = events'[v].app
        PROVE  events'[w].late \/ events'[v].late
    <3>1. events'[w] = events[w] /\ Clash(w, pub[p].app, pub[p].key) /\ pub[p].key # NoKey
      BY SMTT(30), <1>3, <1>6, <2>3 DEF Clash
    <3> QED
      BY Zenon, <1>3, <1>6, <2>1, <3>1
  <2> QED
    BY <2>2, <2>3 DEF KeyUsedOnce
<1>11. \A q \in Publishers : Working(q) => q # p /\ pub[q].event \in Events /\ pub[q].event # v
  BY <1>1, <1>2 DEF FanInv, FanOf, Working, PubRefs
<1>12. ASSUME NEW q \in Publishers PROVE FanOf(q)'
  <2>1. CASE q = p
    <3>1. EventOf(v)
      BY DEF FanInv
    <3>2. \A e \in EndpointIds : jobs[<<v, e>>] = 0
      BY ZenonT(40), <1>1, <3>1 DEF EventOf
    <3> QED
      BY SMTT(30), <1>3, <1>4, <1>5, <1>6, <2>1, <3>2 DEF FanOf, Working
  <2>2. CASE q # p
    <3>1. FanOf(q)
      BY ZenonT(40) DEF FanInv
    <3>2. Working(q) => events'[pub[q].event] = events[pub[q].event]
      BY <1>6, <1>11
    <3> QED
      BY <1>5, <1>6, <2>2, <3>1, <3>2 DEF FanOf, Working
  <2> QED
    BY ZenonT(40), <2>1, <2>2
<1>13. ASSUME NEW w \in Events PROVE EventOf(w)'
  <2>1. CASE w = v
    <3>1. \A s \in row.subs : sub[s].status # "none" /\ sub[s].type = row.type /\ sub[s].app = row.app
      BY <1>3 DEF ActiveFor
    <3>2. \A s : Due(v, s)'
      BY <1>4, <1>6 DEF Due
    <3>3. events'[v] = row /\ row.stored /\ sub' = sub
      BY ZenonT(40), <1>3, <1>5, <1>6
    <3> QED
      BY ZenonT(40), <2>1, <3>1, <3>2, <3>3 DEF EventOf
  <2>2. CASE w # v
    <3>1. EventOf(w) /\ events'[w] = events[w]
      BY ZenonT(40), <1>6, <2>2 DEF FanInv
    <3>2. \A s : Due(w, s) => Due(w, s)'
      BY SMTT(30), <1>2, <1>6 DEF Due
    <3> QED
      BY <1>5, <3>1, <3>2 DEF EventOf, Done, Current
  <2> QED
    BY Zenon, <2>1, <2>2
<1>14. \A q, r \in Publishers : (Working(q) /\ Working(r) /\ pub[q].event = pub[r].event)' => q = r
  <2>1. ASSUME NEW q \in Publishers, Working(q)'
        PROVE  \/ q = p /\ pub'[q].event = v
               \/ q # p /\ Working(q) /\ pub'[q].event = pub[q].event /\ pub[q].event # v
    <3>1. CASE q = p
      BY <1>4, <1>6, <3>1
    <3>2. CASE q # p
      <4>1. pub'[q] = pub[q]
        BY <1>6, <3>2
      <4>2. Working(q)
        BY Zenon, <2>1, <4>1 DEF Working
      <4> QED
        BY ZenonT(40), <1>11, <3>2, <4>1, <4>2
    <3> QED
      BY ZenonT(40), <3>1, <3>2
  <2> QED
    BY <2>1 DEF FanInv
<1> QED
  BY ZenonT(40), <1>5, <1>7, <1>8, <1>9, <1>10, <1>12, <1>13, <1>14 DEF KeyInv, FanInv

\* A subscription is seen to, with a job or with a failure that is logged, and
\* the loop goes on to the next or ends.
LEMMA JobStep ==
  ASSUME PubTypes, PubRefs, SubInv, KeyInv, KeyUsedOnce, FanInv, NEW p \in Publishers, NEW s \in Subs,
         CreateJob(p, s) \/ CreateJobFails(p, s)
  PROVE  PubTypes' /\ PubRefs' /\ KeyInv' /\ KeyUsedOnce' /\ FanInv'
<1>1. PICK v \in Events : v = pub[p].event
  BY Zenon DEF CreateJob, CreateJobFails, PubRefs, Working
<1>2. FanOf(p) /\ pub[p].pc = "fanout" /\ s \in pub[p].todo /\ pub[p] \in PubStates
  BY Zenon DEF CreateJob, CreateJobFails, FanInv, PubTypes
<1>3. PICK e \in EndpointIds : e = sub[s].endpoint /\ jobs[<<v, e>>] = 0
  BY Zenon, <1>1, <1>2 DEF FanOf, SubInv
<1>4. UNCHANGED <<events, lock, sub, subscriber, cut>> /\ NextJob(p, s)
  BY Zenon DEF CreateJob, CreateJobFails, catalog
<1>5. /\ jobs' \in [Events \X EndpointIds -> Nat]
      /\ \A y \in Events \X EndpointIds : y # <<v, e>> => jobs'[y] = jobs[y]
      /\ jobs'[<<v, e>>] <= 1 /\ missed \subseteq missed'
      /\ jobs'[<<v, e>>] > 0 \/ <<v, e>> \in missed'
  <2>1. CASE CreateJob(p, s)
    <3>1. jobs' = [jobs EXCEPT ![<<v, e>>] = jobs[<<v, e>>] + 1] /\ missed' = missed
      BY Zenon, <1>1, <1>3, <2>1 DEF CreateJob
    <3> QED
      BY <1>3, <3>1 DEF PubTypes
  <2>2. CASE CreateJobFails(p, s)
    <3>1. jobs' = jobs /\ missed' = missed \cup {<<v, e>>}
      BY ZenonT(40), <1>1, <1>3, <2>2 DEF CreateJobFails
    <3> QED
      BY <1>3, <3>1 DEF PubTypes
  <2> QED
    BY <2>1, <2>2
<1>6. \E x \in PubStates :
        /\ pub' = [pub EXCEPT ![p] = x]
        /\ \/ /\ x.pc = "fanout" /\ x.event = v /\ x.app = pub[p].app /\ x.type = pub[p].type
              /\ x.todo = pub[p].todo \ {s}
           \/ /\ x.pc \in {"idle", "release"} /\ pub[p].todo = {s}
              /\ x.pc = "release" => x.key \in IdemKeys
  <2>1. CASE pub[p].todo = {s}
    BY Zenon, <1>4, <2>1, ConcludeMoves DEF NextJob, Moves
  <2>2. CASE pub[p].todo # {s}
    <3> DEFINE x == [pub[p] EXCEPT !.todo = pub[p].todo \ {s}]
    <3>1. /\ x \in PubStates /\ x.pc = "fanout" /\ x.event = v /\ x.app = pub[p].app /\ x.type = pub[p].type
          /\ x.todo = pub[p].todo \ {s}
      BY <1>1, <1>2 DEF PubStates
    <3>2. pub' = [pub EXCEPT ![p] = x]
      BY <1>4, <2>2 DEF NextJob, Goes
    <3> HIDE DEF x
    <3> QED
      BY Zenon, <3>1, <3>2
  <2> QED
    BY <2>1, <2>2
<1>7. PICK x \in PubStates :
        /\ pub' = [pub EXCEPT ![p] = x]
        /\ \/ /\ x.pc = "fanout" /\ x.event = v /\ x.app = pub[p].app /\ x.type = pub[p].type
              /\ x.todo = pub[p].todo \ {s}
           \/ /\ x.pc \in {"idle", "release"} /\ pub[p].todo = {s}
              /\ x.pc = "release" => x.key \in IdemKeys
  BY Zenon, <1>6
<1>8. pub'[p] = x /\ \A q \in Publishers : q # p => pub'[q] = pub[q]
  BY Zenon, <1>7 DEF PubTypes
<1>9. PubTypes'
  BY Zenon, <1>4, <1>5, <1>7 DEF PubTypes
<1>10. PubRefs'
  BY Zenon, <1>7, <1>8 DEF PubRefs, Working
<1>11. KeyInv' /\ KeyUsedOnce'
  <2>1. events' = events /\ lock' = lock /\ x.pc \in {"fanout", "idle", "release"}
    BY Zenon, <1>4, <1>7
  <2>2. ASSUME NEW q \in Publishers PROVE KeyOf(q)'
    <3>1. CASE q = p
      BY Zenon, <1>8, <2>1, <3>1 DEF KeyOf
    <3>2. CASE q # p
      BY Zenon, <1>8, <2>1, <3>2 DEF KeyInv, KeyOf, Clash
    <3> QED
      BY Zenon, <3>1, <3>2
  <2> QED
    BY Zenon, <2>1, <2>2 DEF KeyInv, KeyUsedOnce
<1>12. \A q \in Publishers : Working(q)' => Working(q) /\ pub'[q].event = pub[q].event
  BY Zenon, <1>1, <1>2, <1>7, <1>8 DEF Working
<1>13. \A q \in Publishers : q # p /\ Working(q) => pub[q].event \in Events /\ pub[q].event # v
  BY Zenon, <1>1, <1>2 DEF FanInv, PubRefs, Working
<1>14. ASSUME NEW q \in Publishers PROVE FanOf(q)'
  <2>1. CASE q = p
    <3>1. CASE x.pc = "fanout"
      <4>1. ASSUME NEW z \in pub[p].todo, z # s PROVE sub[z].status # "none" /\ jobs'[<<v, sub[z].endpoint>>] = 0
        <5>1. sub[z].status # "none" /\ jobs[<<v, sub[z].endpoint>>] = 0 /\ sub[z].endpoint # e
          BY Zenon, <1>1, <1>2, <1>3, <4>1 DEF FanOf
        <5>2. z \in Subs
          BY Zenon, <1>2, <4>1 DEF PubStates
        <5>3. sub[z].endpoint \in EndpointIds
          BY Zenon, <5>1, <5>2 DEF SubInv
        <5> QED
          BY Zenon, <1>5, <5>1, <5>3
      <4>2. \A z, y \in x.todo : sub[z].endpoint = sub[y].endpoint => z = y
        BY Zenon, <1>2, <1>7, <3>1 DEF FanOf
      <4>3. x.event = v /\ x.app = pub[p].app /\ x.type = pub[p].type /\ x.todo = pub[p].todo \ {s}
        BY Zenon, <1>7, <3>1
      <4>4. events[v].stored /\ events[v].app = pub[p].app /\ events[v].type = pub[p].type
        BY Zenon, <1>1, <1>2 DEF FanOf, Working
      <4> QED
        BY ZenonT(40), <1>4, <1>8, <2>1, <3>1, <4>1, <4>2, <4>3, <4>4 DEF FanOf, Working
    <3>2. CASE x.pc # "fanout"
      BY Zenon, <1>7, <1>8, <2>1, <3>2 DEF FanOf, Working
    <3> QED
      BY Zenon, <3>1, <3>2
  <2>2. CASE q # p
    <3>1. FanOf(q) /\ pub'[q] = pub[q]
      BY Zenon, <1>8, <2>2 DEF FanInv
    <3>2. Working(q) => \A f \in EndpointIds : jobs'[<<pub[q].event, f>>] = jobs[<<pub[q].event, f>>]
      BY Zenon, <1>5, <1>13, <2>2
    <3>3. pub[q].todo \subseteq Subs
      BY Zenon DEF PubTypes, PubStates
    <3>4. \A z \in Subs : sub[z].status # "none" => sub[z].endpoint \in EndpointIds
      BY Zenon DEF SubInv
    <3> QED
      BY ZenonT(40), <1>4, <3>1, <3>2, <3>3, <3>4 DEF FanOf, Working
  <2> QED
    BY <2>1, <2>2
<1>15. ASSUME NEW w \in Events PROVE EventOf(w)'
  <2>1. EventOf(w)
    BY Zenon DEF FanInv
  <2>2. ~events[w].stored => w # v
    BY Zenon, <1>1, <1>2 DEF FanOf, Working
  <2>3. ASSUME events[w].stored, NEW z \in events[w].subs, Current(z), Due(w, z) PROVE Due(w, z)' \/ Done(w, z)'
    <3>1. PICK q \in Publishers : pub[q].event = w /\ (pub[q].pc = "lookup" \/ (pub[q].pc = "fanout" /\ z \in pub[q].todo))
      BY Zenon, <2>3 DEF Due
    <3>2. CASE q # p
      BY Zenon, <1>8, <3>1, <3>2 DEF Due
    <3>3. CASE q = p /\ z # s
      BY Zenon, <1>1, <1>2, <1>7, <1>8, <3>1, <3>3 DEF Due
    <3>4. CASE q = p /\ z = s
      BY Zenon, <1>1, <1>3, <1>4, <1>5, <3>1, <3>4 DEF Done
    <3> QED
      BY Zenon, <3>2, <3>3, <3>4
  <2>4. ASSUME events[w].stored, NEW z \in events[w].subs, Done(w, z) PROVE Done(w, z)'
    <3>1. z \in Subs /\ sub[z].status # "none"
      BY Zenon, <2>1, <2>4 DEF EventOf, PubTypes, EventRows
    <3>2. sub[z].endpoint \in EndpointIds
      BY Zenon, <3>1 DEF SubInv
    <3> QED
      BY Zenon, <1>3, <1>4, <1>5, <2>4, <3>2 DEF Done
  <2> QED
    BY Zenon, <1>4, <1>5, <2>1, <2>2, <2>3, <2>4 DEF EventOf, Current
<1>16. \A y \in Events \X EndpointIds : jobs'[y] <= 1
  BY Zenon, <1>5 DEF FanInv
<1>17. \A q, r \in Publishers : (Working(q) /\ Working(r) /\ pub[q].event = pub[r].event)' => q = r
  BY Zenon, <1>12 DEF FanInv
<1> QED
  BY ZenonT(40), <1>9, <1>10, <1>11, <1>14, <1>15, <1>16, <1>17 DEF FanInv

\* A request whose lock expires is late from then on.
LEMMA ExpiryStep ==
  ASSUME PubTypes, PubRefs, KeyInv, KeyUsedOnce, FanInv, NEW k \in IdemKeys, LockExpires(k)
  PROVE  PubTypes' /\ PubRefs' /\ KeyInv' /\ KeyUsedOnce' /\ FanInv'
<1>1. UNCHANGED <<events, jobs, sub, subscriber, missed, cut>> /\ lock' = [lock EXCEPT ![k] = Nobody]
  BY ZenonT(40) DEF LockExpires, catalog
<1>2. ASSUME NEW q \in Publishers
      PROVE  /\ pub'[q] \in PubStates
             /\ pub'[q].pc = pub[q].pc /\ pub'[q].app = pub[q].app /\ pub'[q].type = pub[q].type /\ pub'[q].key = pub[q].key
             /\ pub'[q].event = pub[q].event /\ pub'[q].todo = pub[q].todo
             /\ pub'[q].late \/ (pub'[q].late = pub[q].late /\ lock[k] # q)
  <2>1. pub[q] \in PubStates
    BY ZenonT(40) DEF PubTypes
  <2>2. CASE lock[k] = q
    <3> DEFINE x == [pub[q] EXCEPT !.late = TRUE]
    <3>1. /\ x \in PubStates /\ x.pc = pub[q].pc /\ x.app = pub[q].app /\ x.type = pub[q].type /\ x.key = pub[q].key
          /\ x.event = pub[q].event /\ x.todo = pub[q].todo /\ x.late
      BY Zenon, <2>1 DEF PubStates
    <3>2. pub'[q] = x
      BY ZenonT(40), <2>2, PublishingAssumption DEF LockExpires, PubTypes
    <3> HIDE DEF x
    <3> QED
      BY <3>1, <3>2
  <2>3. CASE lock[k] # q
    <3>1. pub'[q] = pub[q]
      BY <2>3 DEF LockExpires, PubTypes
    <3> QED
      BY <2>1, <2>3, <3>1
  <2> QED
    BY <2>2, <2>3
<1>3. PubTypes'
  <2>1. pub' = [q \in Publishers |-> pub'[q]]
    BY DEF LockExpires, PubTypes
  <2>2. pub' \in [Publishers -> PubStates]
    BY <1>2, <2>1
  <2> QED
    BY <1>1, <2>2 DEF PubTypes
<1>4. PubRefs'
  BY <1>2 DEF PubRefs, Working
<1>5. KeyInv' /\ KeyUsedOnce'
  <2>1. ASSUME NEW q \in Publishers PROVE KeyOf(q)'
    <3>1. KeyOf(q) /\ pub[q].key \in IdemKeys \cup {NoKey}
      BY DEF KeyInv, PubTypes, PubStates
    <3>2. ASSUME ~pub'[q].late, NEW j \in IdemKeys, lock[j] = q PROVE lock'[j] = q
      BY <1>1, <1>2, <3>2 DEF PubTypes
    <3>3. ~pub'[q].late => ~pub[q].late
      BY <1>2
    <3>4. pub'[q].pc = pub[q].pc /\ pub'[q].app = pub[q].app /\ pub'[q].key = pub[q].key /\ events' = events
      BY Zenon, <1>1, <1>2
    <3> QED
      BY Zenon, <3>1, <3>2, <3>3, <3>4 DEF KeyOf, Clash
  <2> QED
    BY Zenon, <1>1, <2>1 DEF KeyInv, KeyUsedOnce
<1>6. ASSUME NEW q \in Publishers PROVE FanOf(q)'
  <2>1. FanOf(q)
    BY Zenon DEF FanInv
  <2>2. /\ pub'[q].pc = pub[q].pc /\ pub'[q].app = pub[q].app /\ pub'[q].type = pub[q].type
        /\ pub'[q].event = pub[q].event /\ pub'[q].todo = pub[q].todo
        /\ events' = events /\ jobs' = jobs /\ sub' = sub
    BY Zenon, <1>1, <1>2
  <2> QED
    BY Zenon, <2>1, <2>2 DEF FanOf, Working
<1>7. ASSUME NEW v \in Events PROVE EventOf(v)'
  <2>1. \A s : Due(v, s) => Due(v, s)'
    BY ZenonT(40), <1>2 DEF Due
  <2>2. EventOf(v)
    BY DEF FanInv
  <2> QED
    BY Zenon, <1>1, <2>1, <2>2 DEF EventOf, Done, Current
<1>8. \A q, r \in Publishers : (Working(q) /\ Working(r) /\ pub[q].event = pub[r].event)' => q = r
  <2>1. \A q \in Publishers : pub'[q].pc = pub[q].pc /\ pub'[q].event = pub[q].event
    BY ZenonT(40), <1>2
  <2> QED
    BY Zenon, <2>1 DEF FanInv, Working
<1> QED
  BY Zenon, <1>1, <1>3, <1>4, <1>5, <1>6, <1>7, <1>8 DEF FanInv

\* An event that leaves the hour is found no more, and is otherwise as it was.
LEMMA WindowStep ==
  ASSUME PubTypes, PubRefs, KeyInv, KeyUsedOnce, FanInv, NEW v \in Events, LeaveWindow(v)
  PROVE  PubTypes' /\ PubRefs' /\ KeyInv' /\ KeyUsedOnce' /\ FanInv'
<1>1. UNCHANGED <<jobs, lock, pub, sub, subscriber, missed, cut>>
  BY DEF LeaveWindow, catalog
<1> DEFINE row == [events[v] EXCEPT !.recent = FALSE]
<1>2. /\ row \in EventRows /\ row.stored = events[v].stored /\ row.app = events[v].app /\ row.type = events[v].type
      /\ row.key = events[v].key /\ ~row.recent /\ row.late = events[v].late /\ row.subs = events[v].subs
  <2>1. events[v] \in EventRows
    BY DEF PubTypes
  <2> QED
    BY Zenon, <2>1 DEF EventRows
<1>3. events' = [events EXCEPT ![v] = row]
  BY DEF LeaveWindow
<1> HIDE DEF row
<1>4. \A w \in Events :
        /\ events'[w].stored = events[w].stored /\ events'[w].app = events[w].app /\ events'[w].type = events[w].type
        /\ events'[w].key = events[w].key /\ events'[w].late = events[w].late /\ events'[w].subs = events[w].subs
        /\ events'[w].recent => events[w].recent
  BY <1>2, <1>3 DEF PubTypes
<1>5. PubTypes' /\ PubRefs'
  BY Zenon, <1>1, <1>2, <1>3 DEF PubTypes, PubRefs, Working
<1>6. KeyInv'
  <2>1. pub' = pub /\ lock' = lock
    BY Zenon, <1>1
  <2>2. \A a, j : \A w \in Events : Clash(w, a, j)' => Clash(w, a, j)
    BY Zenon, <1>4 DEF Clash
  <2>3. \A w \in Events : events'[w].late = events[w].late
    BY Zenon, <1>4
  <2>4. ASSUME NEW q \in Publishers PROVE KeyOf(q)'
    BY ZenonT(40), <2>1, <2>2, <2>3 DEF KeyInv, KeyOf
  <2> QED
    BY Zenon, <2>4 DEF KeyInv
<1>7. KeyUsedOnce'
  BY SMTT(20), <1>4 DEF KeyUsedOnce
<1>8. ASSUME NEW q \in Publishers PROVE FanOf(q)'
  <2>1. FanOf(q) /\ (Working(q) => pub[q].event \in Events)
    BY Zenon DEF FanInv, PubRefs
  <2>2. pub' = pub /\ jobs' = jobs /\ sub' = sub
    BY Zenon, <1>1
  <2> QED
    BY Zenon, <1>4, <2>1, <2>2 DEF FanOf, Working
<1>9. ASSUME NEW w \in Events PROVE EventOf(w)'
  <2>1. EventOf(w)
    BY DEF FanInv
  <2> QED
    BY ZenonT(40), <1>1, <1>4, <2>1 DEF EventOf, Due, Done, Current
<1> QED
  BY <1>1, <1>5, <1>6, <1>7, <1>8, <1>9 DEF FanInv, Working

\* Whatever the catalog's requests do to subscriptions, what publishing knows
\* of the ones it has seen stays true.
LEMMA CatalogStep ==
  ASSUME PublishingInv, OnCatalog
  PROVE  PublishingInv'
<1>1. UNCHANGED <<events, jobs, lock, pub, missed, cut>>
  BY DEF OnCatalog
<1>2. /\ subscriber' \in [Subscribers -> SubscriberStates] /\ SubscriberInv'
      /\ sub' = sub \/ \E s \in Subs, row \in SubRows : Added(s, row) \/ Dropped(s, row)
  BY SubEffect DEF PublishingInv
<1>3. /\ sub' \in [Subs -> SubRows] /\ SubInv'
      /\ \A s \in Subs : sub[s].status # "none" =>
           /\ sub'[s].status # "none" /\ (Current(s)' => Current(s))
           /\ sub'[s].endpoint = sub[s].endpoint /\ sub'[s].type = sub[s].type /\ sub'[s].app = sub[s].app
  BY Zenon, <1>2, SubStep DEF PublishingInv
<1>4. PubTypes' /\ PubRefs' /\ KeyInv' /\ KeyUsedOnce'
  BY Zenon, <1>1, <1>2, <1>3 DEF PublishingInv, PubTypes, PubRefs, Working, KeyInv, KeyOf, Clash, KeyUsedOnce
<1>5. ASSUME NEW q \in Publishers PROVE FanOf(q)'
  <2>1. FanOf(q) /\ pub[q].todo \subseteq Subs
    BY Zenon DEF PublishingInv, FanInv, PubTypes, PubStates
  <2>2. ASSUME pub[q].pc = "fanout", NEW s \in pub[q].todo
        PROVE  s \in Subs /\ sub'[s].status # "none" /\ sub'[s].endpoint = sub[s].endpoint
    BY Zenon, <1>3, <2>1, <2>2 DEF FanOf
  <2>3. pub[q].pc = "fanout" =>
          /\ \A s \in pub[q].todo : sub'[s].status # "none" /\ jobs[<<pub[q].event, sub'[s].endpoint>>] = 0
          /\ \A s, z \in pub[q].todo : sub'[s].endpoint = sub'[z].endpoint => s = z
    BY ZenonT(40), <2>1, <2>2 DEF FanOf
  <2> QED
    BY Zenon, <1>1, <2>1, <2>3 DEF FanOf, Working
<1>6. ASSUME NEW v \in Events PROVE EventOf(v)'
  <2>1. EventOf(v) /\ events[v].subs \subseteq Subs
    BY Zenon DEF PublishingInv, FanInv, PubTypes, EventRows
  <2>2. ASSUME events[v].stored, NEW s \in events[v].subs
        PROVE  /\ sub'[s].status # "none" /\ sub'[s].type = events[v].type /\ sub'[s].app = events[v].app
               /\ v \notin cut /\ Current(s)' => Due(v, s) \/ Done(v, s)'
    BY Zenon, <1>1, <1>3, <2>1, <2>2 DEF EventOf, Done
  <2>3. \A s : Due(v, s) => Due(v, s)'
    BY Zenon, <1>1 DEF Due
  <2> QED
    BY Zenon, <1>1, <2>1, <2>2, <2>3 DEF EventOf
<1>7. FanInv'
  BY Zenon, <1>1, <1>5, <1>6 DEF PublishingInv, FanInv, Working
<1> QED
  BY <1>2, <1>3, <1>4, <1>7 DEF PublishingInv

\* The invariant holds in every state that behaviours start in, and every step
\* keeps it.
LEMMA PublishingInvariant == Spec => []PublishingInv
<1>1. ASSUME Init PROVE PublishingInv
  <2>1. IdleSubscriber \in SubscriberStates /\ IdleSubscriber.pc = "idle"
    BY Zenon DEF IdleSubscriber, SubscriberStates
  <2>2. NoEvent \in EventRows /\ ~NoEvent.stored
    BY Zenon DEF NoEvent, EventRows
  <2>3. PICK c \in Started : sub = c.sub
    BY Zenon, <1>1 DEF Init
  <2>4. sub \in [Subs -> SubRows] /\ SubInv
    BY ZenonT(40), <2>3, StartedAssumption DEF SubInv, Current
  <2>5. PubTypes /\ SubscriberInv
    BY Zenon, <1>1, <2>1, <2>2, <2>4, IdleRecord DEF Init, PubTypes, SubscriberInv
  <2>6. PubRefs /\ KeyInv /\ KeyUsedOnce
    BY Zenon, <1>1, <2>2, IdleRecord DEF Init, PubRefs, Working, KeyInv, KeyOf, KeyUsedOnce
  <2>7. FanInv
    <3>1. /\ \A p \in Publishers : pub[p].pc = "idle"
          /\ \A v \in Events : ~events[v].stored
          /\ \A y \in Events \X EndpointIds : jobs[y] = 0
      BY Zenon, <1>1, <2>2, IdleRecord DEF Init
    <3>2. \A p \in Publishers : ~Working(p) /\ FanOf(p)
      BY Zenon, <3>1 DEF FanOf, Working
    <3>3. \A v \in Events : EventOf(v)
      BY Zenon, <3>1 DEF EventOf
    <3>4. \A y \in Events \X EndpointIds : jobs[y] <= 1
      BY <3>1
    <3> QED
      BY Zenon, <3>2, <3>3, <3>4 DEF FanInv
  <2> QED
    BY <2>4, <2>5, <2>6, <2>7 DEF PublishingInv
<1>2. ASSUME PublishingInv, [Next]_vars PROVE PublishingInv'
  <2> DEFINE Kept == PubTypes' /\ PubRefs' /\ KeyInv' /\ KeyUsedOnce' /\ FanInv'
  <2>1. ASSUME Kept, UNCHANGED <<sub, subscriber>> PROVE PublishingInv'
    BY Zenon, <1>2, <2>1 DEF PublishingInv, SubscriberInv, SubInv, Current
  <2>2. CASE OnCatalog
    BY Zenon, <1>2, <2>2, CatalogStep
  <2>3. CASE OnEndpoints \/ UNCHANGED vars
    <3>1. UNCHANGED <<events, jobs, lock, pub, missed, cut, sub, subscriber>>
      BY <2>3 DEF OnEndpoints, vars
    <3>2. PubTypes' /\ PubRefs' /\ SubscriberInv' /\ SubInv'
      BY Zenon, <1>2, <3>1 DEF PublishingInv, PubTypes, PubRefs, SubscriberInv, SubInv, Working, Current
    <3>3. KeyInv' /\ KeyUsedOnce'
      BY Zenon, <1>2, <3>1 DEF PublishingInv, KeyInv, KeyOf, Clash, KeyUsedOnce
    <3>4. FanInv'
      <4>1. \A p \in Publishers : FanOf(p)' = FanOf(p) /\ Working(p)' = Working(p)
        BY ZenonT(40), <3>1 DEF FanOf, Working
      <4>2. \A v \in Events : EventOf(v)' = EventOf(v)
        BY ZenonT(40), <3>1 DEF EventOf, Due, Done, Current
      <4> QED
        BY Zenon, <1>2, <3>1, <4>1, <4>2 DEF PublishingInv, FanInv
    <3> QED
      BY Zenon, <3>2, <3>3, <3>4 DEF PublishingInv
  <2>4. ASSUME NEW p \in Publishers, Serve(p) \/ Stop(p) PROVE PublishingInv'
    <3>1. UNCHANGED <<sub, subscriber>>
      BY Zenon, <2>4 DEF Serve, Stop, Publish, ResolveType, AcquireLock, FindByKey, InsertEvent, InsertFails, LookUpSubscriptions, LookUpFails,
                  CreateJob, CreateJobFails, ReleaseLock, catalog
    <3>2. CASE InsertEvent(p)
      BY SMTT(30), <1>2, <2>1, <3>1, <3>2, InsertStep DEF PublishingInv
    <3>3. CASE LookUpSubscriptions(p)
      BY SMTT(30), <1>2, <2>1, <3>1, <3>3, LookUpStep DEF PublishingInv
    <3>4. ASSUME NEW s \in Subs, CreateJob(p, s) \/ CreateJobFails(p, s) PROVE PublishingInv'
      BY <1>2, <2>1, <3>1, <3>4, JobStep DEF PublishingInv
    <3>5. CASE \/ \E a \in Apps, y \in Types, k \in IdemKeys \cup {NoKey} : \E version \in {0, VersionOf[y]} : Publish(p, a, y, version, k)
               \/ ResolveType(p) \/ AcquireLock(p) \/ FindByKey(p) \/ InsertFails(p) \/ LookUpFails(p) \/ ReleaseLock(p) \/ Stop(p)
      <4>1. PubTypes /\ PubRefs /\ KeyInv /\ KeyUsedOnce /\ FanInv
        BY <1>2 DEF PublishingInv
      <4>2. /\ \E x \in PubStates : Moves(p, x)
            /\ Leaves(p) /\ LocksOf(p) /\ UNCHANGED <<events, jobs, sub, subscriber, missed>>
        BY <3>5, <4>1, ServeMoves
      <4>3. PICK x \in PubStates : Moves(p, x)
        BY <4>2
      <4>4. Kept
        BY SMTT(30), <4>1, <4>2, <4>3, MovesStep
      <4> QED
        BY <2>1, <3>1, <4>4
    <3> QED
      BY <2>4, <3>2, <3>3, <3>4, <3>5 DEF Serve
  <2>5. ASSUME NEW k \in IdemKeys, LockExpires(k) PROVE PublishingInv'
    <3>1. UNCHANGED <<sub, subscriber>>
      BY <2>5 DEF LockExpires, catalog
    <3> QED
      BY <1>2, <2>1, <2>5, <3>1, ExpiryStep DEF PublishingInv
  <2>6. ASSUME NEW v \in Events, LeaveWindow(v) PROVE PublishingInv'
    <3>1. UNCHANGED <<sub, subscriber>>
      BY <2>6 DEF LeaveWindow, catalog
    <3> QED
      BY <1>2, <2>1, <2>6, <3>1, WindowStep DEF PublishingInv
  <2> QED
    BY Zenon, <1>2, <2>2, <2>3, <2>4, <2>5, <2>6 DEF Next
<1> QED
  BY <1>1, <1>2, PTL DEF Spec

\* The lock and the lookup keep a key from being used twice in an hour, by any
\* number of requests, as long as no lock expires under its request.
THEOREM KeysAreUsedOnce == Spec => []KeyUsedOnce
BY PublishingInvariant, PTL DEF PublishingInv

\* enqueue_for_subscriptions leaves no subscription out and serves no endpoint
\* twice, for any number of events, requests, endpoints and subscriptions.
THEOREM FanOutIsComplete == Spec => []FanOutIsExact
<1>1. PublishingInv => FanOutIsExact
  BY DEF PublishingInv, FanInv, EventOf, Due, Done, Current, FanOutIsExact
<1> QED
  BY <1>1, PublishingInvariant, PTL

-----------------------------------------------------------------------------
(* Endpoints, as part of the system Publishing describes. *)

Lasts(e, s) == secret[s].owner = e /\ secret[s].active /\ secret[s].expires = 0

EditOf(c) ==
    /\ editor[c].pc # "idle" =>
         /\ editor[c].endpoint \in EndpointIds /\ endpoint[editor[c].endpoint].status # "none"
         /\ editor[c].answer = "none"
    /\ editor[c].pc = "edit" =>
         /\ ~editor[c].applied
         /\ editor[c].seen.version <= endpoint[editor[c].endpoint].version
         /\ editor[c].seen.version = endpoint[editor[c].endpoint].version => editor[c].seen = endpoint[editor[c].endpoint]
    /\ editor[c].pc = "fetch" => editor[c].applied
    /\ editor[c].pc = "explain" /\ editor[c].applied => endpoint[editor[c].endpoint].status = "deleted"
EditInv == \A c \in Editors : EditOf(c)

RotateInv == \A r \in Rotators : rotator[r].pc # "idle" => rotator[r].endpoint \in EndpointIds

SignInv == \A e \in EndpointIds : EndpointListed(e) => \E s \in Secrets : Lasts(e, s)

EndpointsInv == EndpointsTypeOK /\ EditInv /\ ConflictChangedNothing /\ RotateInv /\ SignInv

\* The row moves on to a new version, or stays.
RowMoves(e, row) ==
    /\ endpoint' = [endpoint EXCEPT ![e] = row]
    /\ row \in EndpointRows
    /\ row.status # "none" /\ row.version > endpoint[e].version
    /\ endpoint[e].status \in {"active", "paused"}

\* An update, pause, resume or delete writes a row of the next version, and
\* only where the endpoint is listed.
LEMMA StatusMoves ==
  ASSUME EndpointsTypeOK, NEW e \in EndpointIds, NEW s \in {"active", "paused", "deleted"}, SetStatus(e, s)
  PROVE  \E row \in EndpointRows : RowMoves(e, row)
<1> DEFINE row == [status |-> s, version |-> endpoint[e].version + 1, config |-> endpoint[e].config]
<1>1. endpoint[e] \in EndpointRows
  BY DEF EndpointsTypeOK
<1>2. row \in EndpointRows /\ row.version > endpoint[e].version /\ row.status # "none"
  BY <1>1 DEF EndpointRows
<1>3. endpoint' = [endpoint EXCEPT ![e] = row]
  BY <1>1 DEF SetStatus, EndpointsTypeOK, EndpointRows
<1>4. endpoint[e].status \in {"active", "paused"}
  BY DEF SetStatus, EndpointListed
<1> HIDE DEF row
<1> QED
  BY Zenon, <1>2, <1>3, <1>4 DEF RowMoves

\* The same for an update whose version is the row's.
LEMMA UpdateMoves ==
  ASSUME EndpointsTypeOK, NEW e \in EndpointIds, NEW v \in Configs, EndpointListed(e),
         endpoint' = [endpoint EXCEPT ![e].config = v, ![e].version = @ + 1]
  PROVE  \E row \in EndpointRows : RowMoves(e, row)
<1> DEFINE row == [status |-> endpoint[e].status, version |-> endpoint[e].version + 1, config |-> v]
<1>1. endpoint[e] \in EndpointRows
  BY DEF EndpointsTypeOK
<1>2. row \in EndpointRows /\ row.version > endpoint[e].version /\ row.status # "none"
  BY <1>1 DEF EndpointRows, EndpointListed
<1>3. endpoint' = [endpoint EXCEPT ![e] = row]
  BY <1>1 DEF EndpointsTypeOK, EndpointRows
<1>4. endpoint[e].status \in {"active", "paused"}
  BY Zenon DEF EndpointListed
<1> HIDE DEF row
<1> QED
  BY Zenon, <1>2, <1>3, <1>4 DEF RowMoves

\* A new version of a row leaves no client with it, and takes no endpoint
\* from the deleted ones.
LEMMA MovesKeepEdits ==
  ASSUME EndpointsTypeOK, EditInv, NEW e \in EndpointIds, NEW row \in EndpointRows, RowMoves(e, row),
         NEW c \in Editors, editor'[c] = editor[c]
  PROVE  EditOf(c)'
<1>1. ASSUME NEW f \in EndpointIds
      PROVE  /\ endpoint[f].version \in Nat /\ endpoint'[f].version \in Nat
             /\ endpoint[f].status # "none" => endpoint'[f].status # "none"
             /\ endpoint[f].status = "deleted" => endpoint'[f].status = "deleted"
             /\ endpoint'[f].version > endpoint[f].version \/ endpoint'[f] = endpoint[f]
  <2>1. endpoint[f] \in EndpointRows /\ endpoint'[f] \in EndpointRows
    BY DEF EndpointsTypeOK, RowMoves
  <2>2. endpoint[f].version \in Nat /\ endpoint'[f].version \in Nat
    BY <2>1 DEF EndpointRows
  <2> QED
    BY <2>2 DEF EndpointsTypeOK, RowMoves
<1>2. editor[c].seen.version \in Nat
  BY DEF EndpointsTypeOK, EditorStates, EndpointRows
<1>3. EditOf(c)
  BY Zenon DEF EditInv
<1>4. CASE editor[c].pc = "idle"
  BY Zenon, <1>4 DEF EditOf
<1>5. CASE editor[c].pc # "idle"
  <2>1. PICK f \in EndpointIds : f = editor[c].endpoint
    BY Zenon, <1>3, <1>5 DEF EditOf
  <2>2. editor[c].pc = "edit" =>
          /\ editor[c].seen.version <= endpoint[f].version
          /\ editor[c].seen.version = endpoint[f].version => editor[c].seen = endpoint[f]
    BY Zenon, <1>3, <2>1 DEF EditOf
  <2>3. editor[c].pc = "edit" =>
          /\ editor[c].seen.version <= endpoint'[f].version
          /\ editor[c].seen.version = endpoint'[f].version => editor[c].seen = endpoint'[f]
    <3> DEFINE old == endpoint[f].version
               new == endpoint'[f].version
               had == editor[c].seen.version
    <3>1. old \in Nat /\ new \in Nat /\ had \in Nat /\ (new > old \/ endpoint'[f] = endpoint[f])
      BY Zenon, <1>1, <1>2
    <3>2. endpoint'[f] = endpoint[f] => new = old
      BY Zenon
    <3> HIDE DEF old, new, had
    <3>3. had <= old => had <= new /\ (had = new /\ new > old => FALSE)
      BY <3>1, <3>2
    <3> QED
      BY Zenon, <2>2, <3>1, <3>3 DEF old, new, had
  <2> QED
    BY Zenon, <1>1, <1>3, <2>1, <2>3 DEF EditOf
<1> QED
  BY Zenon, <1>4, <1>5

\* A client's own steps: what it holds next, with the table as it is.
LEMMA EditorMoves ==
  ASSUME EndpointsTypeOK, EditInv, ConflictChangedNothing, NEW c \in Editors, NEW r \in EditorStates, editor' = [editor EXCEPT ![c] = r],
         endpoint' = endpoint,
         r.pc # "idle" => /\ r.endpoint \in EndpointIds /\ endpoint[r.endpoint].status # "none"
                          /\ r.answer = "none",
         r.pc = "edit" => ~r.applied /\ r.seen = endpoint[r.endpoint],
         r.pc = "fetch" => r.applied,
         r.pc = "explain" /\ r.applied => endpoint[r.endpoint].status = "deleted",
         r.answer = "conflict" => ~r.applied,
         r.answer = "ok" => r.applied
  PROVE  EditInv' /\ ConflictChangedNothing'
<1>1. \A f \in EndpointIds : endpoint[f].version \in Nat
  BY DEF EndpointsTypeOK, EndpointRows
<1>2. ConflictChangedNothing'
  BY Zenon DEF ConflictChangedNothing, EndpointsTypeOK
<1>3. ASSUME NEW d \in Editors PROVE EditOf(d)'
  <2>1. CASE d = c
    <3>1. editor'[d] = r
      BY ZenonT(40), <2>1 DEF EndpointsTypeOK
    <3>2. r.pc = "edit" => r.seen.version <= endpoint[r.endpoint].version
      BY <1>1
    <3> QED
      BY Zenon, <3>1, <3>2 DEF EditOf
  <2>2. CASE d # c
    <3>1. editor'[d] = editor[d] /\ EditOf(d)
      BY Zenon, <2>2 DEF EndpointsTypeOK, EditInv
    <3> QED
      BY Zenon, <3>1 DEF EditOf
  <2> QED
    BY Zenon, <2>1, <2>2
<1> QED
  BY ZenonT(40), <1>2, <1>3 DEF EditInv

\* get_endpoint starts an edit with the row as it is.
LEMMA GetStep ==
  ASSUME EndpointsTypeOK, EditInv, ConflictChangedNothing, NEW c \in Editors, NEW e \in EndpointIds, GetEndpoint(c, e)
  PROVE  editor' \in [Editors -> EditorStates] /\ EditInv' /\ ConflictChangedNothing'
<1> DEFINE r == [IdleEditor EXCEPT !.pc = "edit", !.endpoint = e, !.seen = endpoint[e]]
<1>1. /\ r \in EditorStates /\ r.pc = "edit" /\ r.endpoint = e /\ r.seen = endpoint[e]
      /\ ~r.applied /\ r.answer = "none"
  <2>1. endpoint[e] \in EndpointRows
    BY DEF EndpointsTypeOK
  <2> QED
    BY Zenon, <2>1 DEF IdleEditor, EditorStates
<1>2. editor' = [editor EXCEPT ![c] = r] /\ endpoint' = endpoint /\ endpoint[e].status # "none"
  BY DEF GetEndpoint, EditorGoes, EndpointListed
<1> HIDE DEF r
<1> QED
  BY Zenon, <1>1, <1>2, EditorMoves DEF EndpointsTypeOK

\* The lookups that service.update makes for its answer.
LEMMA AnswerStep ==
  ASSUME EndpointsTypeOK, EditInv, ConflictChangedNothing, NEW c \in Editors, FetchUpdated(c) \/ ExplainMismatch(c)
  PROVE  editor' \in [Editors -> EditorStates] /\ EditInv' /\ ConflictChangedNothing'
<1>1. editor[c] \in EditorStates /\ editor[c].endpoint \in EndpointIds /\ endpoint[editor[c].endpoint].status # "none"
  BY DEF EndpointsTypeOK, EditInv, EditOf, FetchUpdated, ExplainMismatch
<1>2. CASE FetchUpdated(c)
  <2>1. editor[c].pc = "fetch" /\ editor[c].applied /\ editor[c].answer = "none"
    BY <1>2 DEF FetchUpdated, EditInv, EditOf
  <2>2. CASE EndpointListed(editor[c].endpoint)
    <3> DEFINE r == [editor[c] EXCEPT !.pc = "idle", !.answer = "ok"]
    <3>1. r \in EditorStates /\ r.pc = "idle" /\ r.answer = "ok" /\ r.applied
      BY Zenon, <1>1, <2>1 DEF EditorStates
    <3>2. editor' = [editor EXCEPT ![c] = r] /\ endpoint' = endpoint
      BY <1>2, <2>2 DEF FetchUpdated, EditorGoes
    <3> HIDE DEF r
    <3> QED
      BY Zenon, <3>1, <3>2, EditorMoves DEF EndpointsTypeOK
  <2>3. CASE ~EndpointListed(editor[c].endpoint)
    <3> DEFINE r == [editor[c] EXCEPT !.pc = "explain"]
    <3>1. r \in EditorStates /\ r.pc = "explain" /\ r.answer = "none" /\ r.applied /\ r.endpoint = editor[c].endpoint
      BY <1>1, <2>1 DEF EditorStates
    <3>2. editor' = [editor EXCEPT ![c] = r] /\ endpoint' = endpoint
      BY <1>2, <2>3 DEF FetchUpdated, EditorGoes
    <3>3. endpoint[editor[c].endpoint].status = "deleted"
      BY <1>1, <2>3 DEF EndpointListed, EndpointsTypeOK, EndpointRows
    <3> HIDE DEF r
    <3> QED
      BY ZenonT(40), <1>1, <3>1, <3>2, <3>3, EditorMoves DEF EndpointsTypeOK
  <2> QED
    BY <2>2, <2>3
<1>3. CASE ExplainMismatch(c)
  <2> DEFINE a == IF EndpointListed(editor[c].endpoint) THEN "conflict" ELSE "not_found"
  <2> DEFINE r == [editor[c] EXCEPT !.pc = "idle", !.answer = a]
  <2>1. r \in EditorStates /\ r.pc = "idle" /\ r.answer = a /\ r.applied = editor[c].applied
    BY Zenon, <1>1 DEF EditorStates
  <2>2. a = "conflict" => ~editor[c].applied
    BY <1>3 DEF ExplainMismatch, EditInv, EditOf, EndpointListed
  <2>3. editor' = [editor EXCEPT ![c] = r] /\ endpoint' = endpoint
    BY <1>3 DEF ExplainMismatch, EditorGoes
  <2>4. a # "ok"
    BY Zenon
  <2> HIDE DEF r, a
  <2> QED
    BY Zenon, <2>1, <2>2, <2>3, <2>4, EditorMoves DEF EndpointsTypeOK
<1> QED
  BY <1>2, <1>3

\* The UPDATE of service.update matches the row, or explains why it did not.
LEMMA UpdateStep ==
  ASSUME EndpointsTypeOK, EditInv, ConflictChangedNothing, NEW c \in Editors, NEW v \in Configs, UpdateEndpoint(c, v)
  PROVE  /\ editor' \in [Editors -> EditorStates] /\ EditInv' /\ ConflictChangedNothing'
         /\ endpoint' = endpoint \/ \E e \in EndpointIds, row \in EndpointRows : RowMoves(e, row)
<1> DEFINE e == editor[c].endpoint
<1>1. editor[c] \in EditorStates /\ e \in EndpointIds /\ endpoint[e].status # "none" /\ editor[c].answer = "none" /\ ~editor[c].applied
  BY SMTT(30) DEF EndpointsTypeOK, EditInv, EditOf, UpdateEndpoint
<1>2. CASE EndpointListed(e) /\ endpoint[e].version = editor[c].seen.version
  <2> DEFINE r == [editor[c] EXCEPT !.pc = "fetch", !.applied = TRUE]
  <2>1. r \in EditorStates /\ r.pc = "fetch" /\ r.applied /\ r.answer = "none" /\ r.endpoint = e
    BY Zenon, <1>1 DEF EditorStates
  <2>2. editor' = [editor EXCEPT ![c] = r] /\ endpoint' = [endpoint EXCEPT ![e].config = v, ![e].version = @ + 1]
    BY <1>2 DEF UpdateEndpoint, EditorGoes
  <2>3. PICK row \in EndpointRows : RowMoves(e, row)
    BY Zenon, <1>1, <1>2, <2>2, UpdateMoves
  <2> HIDE DEF r, e
  <2>4. ASSUME NEW d \in Editors, d # c PROVE EditOf(d)'
    BY SMTT(30), <1>1, <2>2, <2>3, <2>4, MovesKeepEdits DEF EndpointsTypeOK
  <2>5. EditOf(c)'
    <3>1. editor'[c] = r /\ endpoint'[e].status # "none"
      BY <1>1, <2>2, <2>3 DEF EndpointsTypeOK, RowMoves
    <3> QED
      BY <1>1, <2>1, <3>1 DEF EditOf
  <2>6. ConflictChangedNothing'
    BY <2>1, <2>2 DEF ConflictChangedNothing, EndpointsTypeOK
  <2>7. editor' \in [Editors -> EditorStates]
    BY <2>1, <2>2 DEF EndpointsTypeOK
  <2> QED
    BY <1>1, <2>3, <2>4, <2>5, <2>6, <2>7 DEF EditInv
<1>3. CASE ~(EndpointListed(e) /\ endpoint[e].version = editor[c].seen.version)
  <2> DEFINE r == [editor[c] EXCEPT !.pc = "explain"]
  <2>1. r \in EditorStates /\ r.pc = "explain" /\ ~r.applied /\ r.answer = "none" /\ r.endpoint = e
    BY <1>1 DEF EditorStates
  <2>2. editor' = [editor EXCEPT ![c] = r] /\ endpoint' = endpoint
    BY <1>3 DEF UpdateEndpoint, EditorGoes
  <2> HIDE DEF r, e
  <2> QED
    BY Zenon, <1>1, <2>1, <2>2, EditorMoves DEF EndpointsTypeOK
<1> QED
  BY <1>2, <1>3

\* An endpoint is inserted with its first secret, where no client is editing.
LEMMA CreateStep ==
  ASSUME EndpointsInv, NEW e \in EndpointIds, NEW v \in Configs, CreateEndpoint(e, v), Nobody \notin EndpointIds
  PROVE  EndpointsInv'
<1> USE DEF EndpointsInv
<1> DEFINE row == [status |-> "active", version |-> 0, config |-> v]
<1>1. row \in EndpointRows /\ endpoint' = [endpoint EXCEPT ![e] = row] /\ endpoint[e].status = "none"
  BY DEF CreateEndpoint, EndpointRows
<1>2. PICK n \in Secrets :
        /\ secret[n].owner = Nobody
        /\ secret' = [secret EXCEPT ![n] = [owner |-> e, active |-> TRUE, expires |-> 0, created |-> clock']]
  BY Zenon DEF CreateEndpoint
<1>3. clock' \in Nat \ {0} /\ UNCHANGED <<editor, rotator, raced>>
  BY DEF CreateEndpoint, EndpointsTypeOK
<1>4. [owner |-> e, active |-> TRUE, expires |-> 0, created |-> clock'] \in SecretRows
  BY <1>3 DEF SecretRows
<1> HIDE DEF row
<1>5. EndpointsTypeOK'
  BY Zenon, <1>1, <1>2, <1>3, <1>4 DEF EndpointsTypeOK
<1>6. EditInv' /\ ConflictChangedNothing' /\ RotateInv'
  BY Zenon, <1>1, <1>3 DEF EndpointsTypeOK, EditInv, EditOf, ConflictChangedNothing, RotateInv
<1>7. SignInv'
  <2>1. ASSUME NEW f \in EndpointIds, EndpointListed(f)' PROVE \E s \in Secrets : Lasts(f, s)'
    <3>1. CASE f = e
      <4>1. Lasts(e, n)'
        BY <1>2 DEF Lasts, EndpointsTypeOK
      <4> QED
        BY <3>1, <4>1
    <3>2. CASE f # e
      <4>1. EndpointListed(f)
        BY <1>1, <2>1, <3>2 DEF EndpointListed, EndpointsTypeOK
      <4>2. PICK s \in Secrets : Lasts(f, s)
        BY <4>1 DEF SignInv
      <4>3. s # n
        BY <1>2, <4>2 DEF Lasts
      <4>4. Lasts(f, s)'
        BY <1>2, <4>2, <4>3 DEF Lasts, EndpointsTypeOK
      <4> QED
        BY <4>4
    <3> QED
      BY <3>1, <3>2
  <2> QED
    BY <2>1 DEF SignInv
<1> QED
  BY ZenonT(40), <1>5, <1>6, <1>7

\* A rotation under way is a request for an endpoint of the table.
LEMMA RotatorTypes ==
  ASSUME EndpointsTypeOK, RotateInv,
         \/ \E r \in Rotators, e \in EndpointIds, g \in Graces : RotateSecret(r, e, g)
         \/ RotatorStep
         \/ \E r \in Rotators : AbandonRotation(r)
  PROVE  rotator' \in [Rotators -> RotatorStates] /\ RotateInv' /\ clock' \in Nat \ {0} /\ raced' \subseteq EndpointIds
<1>1. ASSUME NEW r \in Rotators, NEW x \in RotatorStates, rotator' = [rotator EXCEPT ![r] = x], x.pc # "idle" => x.endpoint \in EndpointIds
      PROVE  rotator' \in [Rotators -> RotatorStates] /\ RotateInv'
  BY <1>1 DEF EndpointsTypeOK, RotateInv
<1>2. IdleRotator \in RotatorStates /\ IdleRotator.pc = "idle"
  BY Zenon DEF IdleRotator, RotatorStates
<1>3. ASSUME NEW r \in Rotators, NEW e \in EndpointIds, NEW g \in Graces, RotateSecret(r, e, g)
      PROVE  rotator' \in [Rotators -> RotatorStates] /\ RotateInv' /\ clock' = clock /\ raced' = raced
  <2> DEFINE x == [IdleRotator EXCEPT !.pc = "begin", !.endpoint = e, !.grace = g]
  <2>1. x \in RotatorStates /\ x.endpoint = e
    BY Zenon, PublishingAssumption DEF IdleRotator, RotatorStates
  <2>2. rotator' = [rotator EXCEPT ![r] = x]
    BY Zenon, <1>3 DEF RotateSecret
  <2> HIDE DEF x
  <2> QED
    BY Zenon, <1>1, <1>3, <2>1, <2>2 DEF RotateSecret
<1>4. ASSUME NEW r \in Rotators, BeginRotation(r)
      PROVE  rotator' \in [Rotators -> RotatorStates] /\ RotateInv' /\ clock' \in Nat \ {0} /\ raced' = raced
  <2> DEFINE x == [rotator[r] EXCEPT !.pc = "update", !.at = clock', !.alone = TRUE]
  <2>1. clock' \in Nat \ {0} /\ rotator[r] \in RotatorStates /\ rotator[r].endpoint \in EndpointIds
    BY <1>4 DEF BeginRotation, EndpointsTypeOK, RotateInv
  <2>2. x \in RotatorStates /\ x.endpoint = rotator[r].endpoint
    BY Zenon, <2>1 DEF RotatorStates
  <2>3. rotator' = [rotator EXCEPT ![r] = x] \/ rotator' = [rotator EXCEPT ![r] = IdleRotator]
    BY Zenon, <1>4 DEF BeginRotation
  <2> HIDE DEF x
  <2> QED
    BY Zenon, <1>1, <1>2, <1>4, <2>1, <2>2, <2>3 DEF BeginRotation
<1>5. ASSUME NEW r \in Rotators, SnapshotSecrets(r)
      PROVE  rotator' \in [Rotators -> RotatorStates] /\ RotateInv' /\ clock' = clock /\ raced' = raced
  <2> DEFINE x == [rotator[r] EXCEPT !.pc = "commit", !.rows = SecretsOf(rotator[r].endpoint, rotator[r].at)]
  <2>1. rotator[r] \in RotatorStates /\ rotator[r].endpoint \in EndpointIds
    BY <1>5 DEF SnapshotSecrets, EndpointsTypeOK, RotateInv
  <2>2. x \in RotatorStates /\ x.endpoint = rotator[r].endpoint
    BY Zenon, <2>1 DEF RotatorStates, SecretsOf
  <2>3. rotator' = [rotator EXCEPT ![r] = x]
    BY Zenon, <1>5, <2>1 DEF SnapshotSecrets, RotatorStates, EndpointsTypeOK
  <2> HIDE DEF x
  <2> QED
    BY Zenon, <1>1, <1>5, <2>1, <2>2, <2>3 DEF SnapshotSecrets
<1>6. ASSUME NEW r \in Rotators, CommitRotation(r)
      PROVE  rotator' \in [Rotators -> RotatorStates] /\ RotateInv' /\ clock' = clock /\ raced' \subseteq EndpointIds
  <2>1. ASSUME NEW q \in Rotators
        PROVE  /\ [rotator[q] EXCEPT !.alone = FALSE] \in RotatorStates
               /\ [rotator[q] EXCEPT !.alone = FALSE].pc = rotator[q].pc
               /\ [rotator[q] EXCEPT !.alone = FALSE].endpoint = rotator[q].endpoint
    <3>1. rotator[q] \in RotatorStates
      BY DEF EndpointsTypeOK
    <3> QED
      BY Zenon, <3>1 DEF RotatorStates
  <2>2. \A q \in Rotators : rotator'[q] \in {IdleRotator, rotator[q], [rotator[q] EXCEPT !.alone = FALSE]}
    BY <1>6 DEF CommitRotation
  <2>3. rotator' \in [Rotators -> RotatorStates]
    <3>1. \A q \in Rotators : rotator'[q] \in RotatorStates
      BY <1>2, <2>1, <2>2 DEF EndpointsTypeOK
    <3>2. rotator' = [q \in Rotators |-> rotator'[q]]
      BY <1>6 DEF CommitRotation
    <3> QED
      BY <3>1, <3>2
  <2>4. RotateInv'
    BY Zenon, <1>2, <2>1, <2>2 DEF RotateInv
  <2> QED
    BY <1>6, <2>3, <2>4 DEF CommitRotation, RotateInv, EndpointsTypeOK
<1>7. ASSUME NEW r \in Rotators, AbandonRotation(r)
      PROVE  rotator' \in [Rotators -> RotatorStates] /\ RotateInv' /\ clock' = clock /\ raced' = raced
  BY Zenon, <1>1, <1>2, <1>7 DEF AbandonRotation
<1> QED
  BY <1>3, <1>4, <1>5, <1>6, <1>7 DEF RotatorStep, EndpointsTypeOK

\* A commit gives its endpoint a secret without expiry, and retires secrets of
\* no other endpoint.
LEMMA CommitKeepsSigning ==
  ASSUME EndpointsTypeOK, RotateInv, SignInv, NEW r \in Rotators, CommitRotation(r)
  PROVE  secret' \in [Secrets -> SecretRows] /\ SignInv'
<1> DEFINE e == rotator[r].endpoint
<1>1. PICK n \in Secrets : secret[n].owner = Nobody /\ secret' = RotatedTo(r, n)
  BY DEF CommitRotation
<1>2. e \in EndpointIds /\ rotator[r].at \in Nat /\ rotator[r].grace \in Nat
  BY SMTT(30) DEF CommitRotation, RotateInv, EndpointsTypeOK, RotatorStates
<1>3. Successor(r) \in SecretRows /\ Successor(r).owner = e /\ Successor(r).active /\ Successor(r).expires = 0
  BY <1>2 DEF Successor, SecretRows
<1>4. ASSUME NEW s \in Secrets PROVE Retired(secret[s], r) \in SecretRows
  <2>1. secret[s] \in SecretRows
    BY DEF EndpointsTypeOK
  <2>2. [secret[s] EXCEPT !.active = FALSE] \in SecretRows
    BY Zenon, <2>1 DEF SecretRows
  <2>3. [secret[s] EXCEPT !.expires = rotator[r].at + rotator[r].grace] \in SecretRows
    BY SMTT(30), <1>2, <2>1 DEF SecretRows
  <2> QED
    BY <2>2, <2>3 DEF Retired
<1>5. secret' \in [Secrets -> SecretRows]
  BY ZenonT(40), <1>1, <1>3, <1>4 DEF RotatedTo, EndpointsTypeOK
<1>6. secret'[n] = Successor(r) /\ \A s \in Secrets \ {n} : secret[s].owner # e => secret'[s] = secret[s]
  BY <1>1 DEF RotatedTo, SecretsOf
<1>7. ASSUME NEW f \in EndpointIds, EndpointListed(f)' PROVE \E s \in Secrets : Lasts(f, s)'
  <2>1. CASE f = e
    <3>1. Lasts(f, n)'
      BY <1>3, <1>6, <2>1 DEF Lasts
    <3> QED
      BY <3>1
  <2>2. CASE f # e
    <3>1. EndpointListed(f)
      BY <1>7 DEF CommitRotation, EndpointListed
    <3>2. PICK s \in Secrets : Lasts(f, s)
      BY SMTT(30), <3>1 DEF SignInv
    <3>3. s # n
      BY <1>1, <3>2, PublishingAssumption DEF Lasts
    <3>4. Lasts(f, s)'
      BY ZenonT(40), <1>6, <2>2, <3>2, <3>3 DEF Lasts
    <3> QED
      BY <3>4
  <2> QED
    BY <2>1, <2>2
<1> QED
  BY <1>5, <1>7 DEF SignInv

\* The handlers of endpoints and secrets keep the invariant.
LEMMA EndpointsStep ==
  ASSUME EndpointsInv, EndpointsNext \/ UNCHANGED receivers
  PROVE  EndpointsInv'
<1> USE DEF EndpointsInv
<1>1. ASSUME NEW e \in EndpointIds, NEW row \in EndpointRows, RowMoves(e, row), secret' = secret
      PROVE  endpoint' \in [EndpointIds -> EndpointRows] /\ SignInv'
  <2>1. \A f \in EndpointIds : EndpointListed(f)' => EndpointListed(f)
    BY SMTT(30), <1>1 DEF RowMoves, EndpointListed, EndpointsTypeOK
  <2> QED
    BY <1>1, <2>1 DEF RowMoves, SignInv, Lasts, EndpointsTypeOK
<1>2. ASSUME NEW e \in EndpointIds, NEW s \in {"active", "paused", "deleted"}, SetStatus(e, s) PROVE EndpointsInv'
  <2>1. PICK row \in EndpointRows : RowMoves(e, row)
    BY <1>2, StatusMoves
  <2>2. UNCHANGED <<secret, editor, rotator, clock, raced>>
    BY <1>2 DEF SetStatus
  <2>3. EditInv'
    BY Zenon, <2>1, <2>2, MovesKeepEdits DEF EditInv
  <2> QED
    BY <1>1, <2>1, <2>2, <2>3 DEF EndpointsTypeOK, ConflictChangedNothing, RotateInv
<1>3. ASSUME NEW c \in Editors, NEW e \in EndpointIds, GetEndpoint(c, e) PROVE EndpointsInv'
  <2>1. UNCHANGED <<endpoint, secret, rotator, clock, raced>>
    BY ZenonT(40), <1>3 DEF GetEndpoint, EditorGoes
  <2> QED
    BY Zenon, <1>3, <2>1, GetStep DEF EndpointsTypeOK, RotateInv, SignInv, EndpointListed, Lasts
<1>4. ASSUME NEW c \in Editors, FetchUpdated(c) \/ ExplainMismatch(c) PROVE EndpointsInv'
  <2>1. UNCHANGED <<endpoint, secret, rotator, clock, raced>>
    BY SMTT(30), <1>4 DEF FetchUpdated, ExplainMismatch, EditorGoes
  <2> QED
    BY <1>4, <2>1, AnswerStep DEF EndpointsTypeOK, RotateInv, SignInv, EndpointListed, Lasts
<1>5. ASSUME NEW c \in Editors, NEW v \in Configs, UpdateEndpoint(c, v) PROVE EndpointsInv'
  <2>1. UNCHANGED <<secret, rotator, clock, raced>>
    BY ZenonT(40), <1>5 DEF UpdateEndpoint, EditorGoes
  <2>2. endpoint' \in [EndpointIds -> EndpointRows] /\ SignInv'
    BY <1>1, <1>5, <2>1, UpdateStep DEF EndpointsTypeOK, SignInv, EndpointListed, Lasts
  <2> QED
    BY <1>5, <2>1, <2>2, UpdateStep DEF EndpointsTypeOK, RotateInv
<1>6. ASSUME \/ \E r \in Rotators, e \in EndpointIds, g \in Graces : RotateSecret(r, e, g)
             \/ RotatorStep
             \/ \E r \in Rotators : AbandonRotation(r)
      PROVE  EndpointsInv'
  <2>1. UNCHANGED <<endpoint, editor>>
    BY Zenon, <1>6 DEF RotateSecret, RotatorStep, BeginRotation, SnapshotSecrets, CommitRotation, AbandonRotation
  <2>2. secret' = secret \/ \E r \in Rotators : CommitRotation(r)
    BY ZenonT(40), <1>6 DEF RotateSecret, RotatorStep, BeginRotation, SnapshotSecrets, AbandonRotation
  <2>3. secret' \in [Secrets -> SecretRows] /\ SignInv'
    BY <2>1, <2>2, CommitKeepsSigning DEF EndpointsTypeOK, SignInv, EndpointListed, Lasts
  <2>4. EditInv' /\ ConflictChangedNothing'
    BY ZenonT(40), <2>1 DEF EditInv, EditOf, ConflictChangedNothing
  <2> QED
    BY Zenon, <1>6, <2>1, <2>3, <2>4, RotatorTypes DEF EndpointsTypeOK
<1>7. ASSUME SecondPasses \/ UNCHANGED receivers PROVE EndpointsInv'
  <2>1. UNCHANGED <<endpoint, secret, editor, rotator>>
    BY Zenon, <1>7 DEF SecondPasses, receivers
  <2>2. EndpointsTypeOK'
    BY <1>7, <2>1 DEF SecondPasses, receivers, EndpointsTypeOK
  <2>3. EditInv' /\ ConflictChangedNothing'
    BY ZenonT(40), <2>1 DEF EditInv, EditOf, ConflictChangedNothing
  <2>4. RotateInv' /\ SignInv'
    BY Zenon, <2>1 DEF RotateInv, SignInv, EndpointListed, Lasts
  <2> QED
    BY Zenon, <2>2, <2>3, <2>4
<1> QED
  BY SMTT(30), <1>2, <1>3, <1>4, <1>5, <1>6, <1>7, CreateStep, PublishingAssumption
     DEF EndpointsNext, Pause, Resume, DeleteEndpoint, EditorStep

\* Every other handler leaves endpoints and secrets alone.
LEMMA ReceiversStep ==
  ASSUME [Next]_vars
  PROVE  EndpointsNext \/ UNCHANGED receivers
<1>1. CASE OnCatalog
  <2>1. CASE CatalogRequest
    BY <2>1 DEF CatalogRequest, CreateApp, DeleteApp, RestoreApp, SetApp, CreateType, CreateVersion, DeleteType, Archive, Unarchive,
                SetArchived, SetType, Subscribe, SubscriberGoes, Unsubscribe
  <2>2. CASE SubscriberStep
    BY ZenonT(40), <2>2 DEF SubscriberStep, FindEndpoint, FindType, InsertSubscription, SubscriberGoes
  <2>3. CASE \E e \in EndpointIds : EndpointRequest(e)
    BY <2>3 DEF EndpointRequest, EndpointsNext
  <2> QED
    BY <1>1, <2>1, <2>2, <2>3 DEF OnCatalog
<1>2. CASE OnEndpoints
  BY Zenon, <1>2 DEF OnEndpoints, EndpointsNext
<1>3. ASSUME NEW p \in Publishers, Serve(p) \/ Stop(p) PROVE UNCHANGED receivers
  BY Zenon, <1>3 DEF Serve, Stop, Publish, ResolveType, AcquireLock, FindByKey, InsertEvent, InsertFails, LookUpSubscriptions, LookUpFails,
              CreateJob, CreateJobFails, ReleaseLock, catalog
<1>4. CASE (\E k \in IdemKeys : LockExpires(k)) \/ (\E v \in Events : LeaveWindow(v)) \/ UNCHANGED vars
  BY Zenon, <1>4 DEF LockExpires, LeaveWindow, catalog, vars
<1> QED
  BY <1>1, <1>2, <1>3, <1>4 DEF Next

\* The invariant holds in every state of the catalog that behaviours start in,
\* and is kept by every step.
LEMMA EndpointsInvariant == Spec => []EndpointsInv
<1>1. ASSUME Init PROVE EndpointsInv
  <2>1. IdleEditor \in EditorStates /\ IdleEditor.pc = "idle" /\ IdleEditor.answer = "none"
    BY ZenonT(40) DEF IdleEditor, EditorStates, EndpointRows, NoEndpoint
  <2>2. IdleRotator \in RotatorStates /\ IdleRotator.pc = "idle"
    BY DEF IdleRotator, RotatorStates
  <2>3. PICK c \in Started : endpoint = c.endpoint /\ secret = c.secret /\ clock = c.clock
    BY <1>1 DEF Init
  <2>4. EndpointsTypeOK
    BY Zenon, <1>1, <2>1, <2>2, <2>3, StartedAssumption DEF Init, EndpointsTypeOK
  <2>5. EditInv /\ ConflictChangedNothing /\ RotateInv
    BY ZenonT(40), <1>1, <2>1, <2>2 DEF Init, EditInv, EditOf, ConflictChangedNothing, RotateInv
  <2>6. SignInv
    BY <2>3, StartedAssumption DEF SignInv, EndpointListed, Lasts
  <2> QED
    BY Zenon, <2>4, <2>5, <2>6 DEF EndpointsInv
<1>2. EndpointsInv /\ [Next]_vars => EndpointsInv'
  BY EndpointsStep, ReceiversStep
<1> QED
  BY <1>1, <1>2, PTL DEF Spec

\* The version check of an update is sound: a client whose version is still
\* the current one has read the current row, for any number of clients,
\* pauses, resumes and deletes.
THEOREM UpdatesAreNotLost == Spec => []NoLostUpdate
<1>1. EndpointsInv => NoLostUpdate
  BY Zenon DEF EndpointsInv, EditInv, EditOf, NoLostUpdate
<1> QED
  BY <1>1, EndpointsInvariant, PTL

\* A client is told of a conflict only if its update changed nothing, and of
\* success only if it did.
THEOREM AnswersAreTrue == Spec => []ConflictChangedNothing
BY EndpointsInvariant, PTL DEF EndpointsInv

\* However rotations overlap, fail and set their grace periods, a listed
\* endpoint has a secret without expiry.
THEOREM EndpointsAlwaysSign == Spec => []AlwaysSigns
<1>1. EndpointsInv => AlwaysSigns
  BY DEF EndpointsInv, SignInv, AlwaysSigns, Permanent, SecretsOf, Lasts
<1> QED
  BY <1>1, EndpointsInvariant, PTL

-----------------------------------------------------------------------------
(* Types of what neither invariant speaks of. *)

AppStates == [Apps -> {"none", "live", "deleted"}]
TypeStates == [Types -> {"none", "live", "archived", "deleted"}]
RestInv ==
    /\ app \in AppStates /\ type \in TypeStates
    /\ left \in [Operations -> Nat]
    /\ missed \subseteq Events \X EndpointIds /\ cut \subseteq Events

LEMMA SpendKeepsBudget ==
  ASSUME left \in [Operations -> Nat], NEW kind \in Operations, Spend(kind)
  PROVE  left' \in [Operations -> Nat]
<1>1. left[kind] - 1 \in Nat
  BY DEF Spend
<1> QED
  BY <1>1 DEF Spend

\* An application or event type moves between the states of its table.
LEMMA CatalogTables ==
  ASSUME RestInv, OnCatalog
  PROVE  app' \in AppStates /\ type' \in TypeStates
<1>1. ASSUME NEW a \in Apps, NEW s \in {"none", "live", "deleted"}, SetApp(a, s) PROVE app' \in AppStates /\ type' = type
  BY Zenon, <1>1 DEF SetApp, RestInv, AppStates
<1>2. ASSUME NEW y \in Types, NEW s \in {"none", "live", "archived", "deleted"}, SetType(y, s) PROVE type' \in TypeStates /\ app' = app
  BY Zenon, <1>2 DEF SetType, RestInv, TypeStates
<1>3. ASSUME NEW a \in Apps, CreateApp(a) \/ DeleteApp(a) \/ RestoreApp(a) PROVE app' \in AppStates /\ type' = type
  BY Zenon, <1>1, <1>3 DEF CreateApp, DeleteApp, RestoreApp
<1>4. ASSUME NEW y \in Types, SetType(y, "live") \/ SetType(y, "archived") \/ SetType(y, "deleted") PROVE type' \in TypeStates /\ app' = app
  BY Zenon, <1>2, <1>4
<1>5. CASE CatalogRequest
  <2>1. \/ \E a \in Apps : CreateApp(a) \/ DeleteApp(a) \/ RestoreApp(a)
        \/ \E y \in Types : SetType(y, "live") \/ SetType(y, "archived") \/ SetType(y, "deleted")
        \/ UNCHANGED <<app, type>>
    BY Zenon, <1>5 DEF CatalogRequest, CreateType, CreateVersion, DeleteType, Archive, Unarchive, SetArchived, Subscribe, SubscriberGoes,
                       Unsubscribe
  <2> QED
    BY Zenon, <1>3, <1>4, <2>1 DEF RestInv
<1>6. CASE SubscriberStep \/ \E e \in EndpointIds : EndpointRequest(e)
  BY ZenonT(40), <1>6 DEF SubscriberStep, FindEndpoint, FindType, InsertSubscription, SubscriberGoes, EndpointRequest, RestInv
<1> QED
  BY Zenon, <1>5, <1>6 DEF OnCatalog

LEMMA RestStep ==
  ASSUME PublishingInv, RestInv, [Next]_vars
  PROVE  RestInv'
<1> DEFINE Spends == left' = left \/ \E kind \in Operations : Spend(kind)
<1>1. ASSUME Spends PROVE left' \in [Operations -> Nat]
  BY Zenon, <1>1, SpendKeepsBudget DEF RestInv
<1>2. CASE OnCatalog
  <2>1. Spends /\ UNCHANGED <<missed, cut>>
    BY Zenon, <1>2 DEF OnCatalog, Operations
  <2> QED
    BY Zenon, <1>1, <1>2, <2>1, CatalogTables DEF RestInv
<1>3. CASE OnEndpoints
  <2>1. Spends /\ UNCHANGED <<app, type, missed, cut>>
    BY Zenon, <1>3 DEF OnEndpoints, Operations
  <2> QED
    BY Zenon, <1>1, <2>1 DEF RestInv
<1>4. ASSUME NEW p \in Publishers, Serve(p) \/ Stop(p) PROVE RestInv'
  <2>1. Spends
    BY Zenon, <1>4 DEF Serve, Stop, Publish, ResolveType, AcquireLock, FindByKey, InsertEvent, InsertFails, LookUpSubscriptions, LookUpFails,
                       CreateJob, CreateJobFails, ReleaseLock, Operations
  <2>2. UNCHANGED <<app, type>>
    BY Zenon, <1>4 DEF Serve, Stop, Publish, ResolveType, AcquireLock, FindByKey, InsertEvent, InsertFails, LookUpSubscriptions, LookUpFails,
                       CreateJob, CreateJobFails, ReleaseLock, catalog
  <2>3. cut' = cut \/ (Working(p) /\ cut' = cut \cup {pub[p].event})
    BY Zenon, <1>4 DEF Serve, Stop, Publish, ResolveType, AcquireLock, FindByKey, InsertEvent, InsertFails, LookUpSubscriptions, LookUpFails,
                       CreateJob, CreateJobFails, ReleaseLock, Working
  <2>4. missed' = missed \/ \E s \in pub[p].todo : pub[p].pc = "fanout" /\ missed' = missed \cup {<<pub[p].event, sub[s].endpoint>>}
    BY Zenon, <1>4 DEF Serve, Stop, Publish, ResolveType, AcquireLock, FindByKey, InsertEvent, InsertFails, LookUpSubscriptions, LookUpFails,
                       CreateJob, CreateJobFails, ReleaseLock
  <2>5. Working(p) => pub[p].event \in Events
    BY Zenon DEF PublishingInv, PubRefs
  <2>6. cut' \subseteq Events
    BY Zenon, <2>3, <2>5 DEF RestInv
  <2>7. ASSUME NEW s \in pub[p].todo, pub[p].pc = "fanout" PROVE <<pub[p].event, sub[s].endpoint>> \in Events \X EndpointIds
    <3>1. s \in Subs /\ sub[s].status # "none"
      BY Zenon, <2>7 DEF PublishingInv, PubTypes, PubStates, FanInv, FanOf
    <3> QED
      BY Zenon, <2>5, <2>7, <3>1 DEF PublishingInv, SubInv, Working
  <2>8. missed' \subseteq Events \X EndpointIds
    BY Zenon, <2>4, <2>7 DEF RestInv
  <2> QED
    BY Zenon, <1>1, <2>1, <2>2, <2>6, <2>8 DEF RestInv
<1>5. CASE (\E k \in IdemKeys : LockExpires(k)) \/ (\E v \in Events : LeaveWindow(v)) \/ UNCHANGED vars
  <2>1. Spends /\ UNCHANGED <<app, type, missed, cut>>
    BY Zenon, <1>5 DEF LockExpires, LeaveWindow, catalog, vars, Operations
  <2> QED
    BY Zenon, <1>1, <2>1 DEF RestInv
<1> QED
  BY Zenon, <1>2, <1>3, <1>4, <1>5 DEF Next

\* Types of the catalog, the events and their jobs, the requests and the
\* secrets, for any number of them: no handler of the API leaves a row in a
\* state that its table does not know, and the fan-out only counts jobs and
\* failures of events and endpoints that exist.
THEOREM PublishingTypeCorrect == Spec => []TypeOK
<1>1. Init => RestInv
  <2>1. ASSUME NEW c \in Started PROVE c.app \in AppStates /\ c.type \in TypeStates
    BY Zenon, StartedAssumption DEF AppStates, TypeStates
  <2>2. Init => app \in AppStates /\ type \in TypeStates
    BY Zenon, <2>1 DEF Init
  <2>3. Init => left \in [Operations -> Nat]
    BY Zenon, PublishingAssumption DEF Init
  <2>4. Init => missed = {} /\ cut = {}
    BY Zenon DEF Init
  <2> QED
    BY Zenon, <2>2, <2>3, <2>4 DEF RestInv
<1>2. PublishingInv /\ EndpointsInv /\ RestInv => TypeOK
  BY Zenon DEF PublishingInv, PubTypes, SubscriberStates, EndpointsInv, RestInv, AppStates, TypeStates, TypeOK, CatalogTypeOK
<1> QED
  BY <1>1, <1>2, RestStep, PublishingInvariant, EndpointsInvariant, PTL DEF Spec

-----------------------------------------------------------------------------
(* What a worker signs with is what the owner is shown. *)

\* The newest of the endpoint's secrets, and the only one without expiry.
Newest(e, p) ==
    /\ Lasts(e, p)
    /\ \A s \in Secrets \ {p} :
         secret[s].owner = e /\ secret[s].active => secret[s].expires # 0 /\ secret[s].created < secret[p].created
SettledInv == \A e \in EndpointIds : EndpointListed(e) /\ e \notin raced => \E p \in Secrets : Newest(e, p)

\* A secret is inserted after its endpoint, at a moment that has passed.
OwnedInv ==
    \A s \in Secrets :
        secret[s].owner # Nobody => endpoint[secret[s].owner].status # "none" /\ secret[s].created <= clock

\* A rotation that nobody came between has seen every secret of its endpoint,
\* and all of them are older than it.
SpanOf(r) ==
    /\ rotator[r].pc # "idle" => endpoint[rotator[r].endpoint].status # "none"
    /\ rotator[r].pc \in {"update", "commit"} =>
         /\ rotator[r].at # 0 /\ rotator[r].at <= clock
         /\ rotator[r].alone => \A s \in Secrets : secret[s].owner = rotator[r].endpoint => secret[s].created < rotator[r].at
    /\ rotator[r].pc = "commit" /\ rotator[r].alone => rotator[r].rows = SecretsOf(rotator[r].endpoint, rotator[r].at)
SpanInv == \A r \in Rotators : SpanOf(r)

SigningInv == SettledInv /\ OwnedInv /\ SpanInv

\* Steps that leave the secrets alone, and no endpoint without a row.
Quiet ==
    /\ secret' = secret /\ raced' = raced /\ clock' \in Nat /\ clock <= clock'
    /\ \A f \in EndpointIds : /\ EndpointListed(f)' => EndpointListed(f)
                              /\ endpoint[f].status # "none" => endpoint'[f].status # "none"

LEMMA QuietStep ==
  ASSUME EndpointsInv, SigningInv, Quiet
  PROVE  /\ SettledInv' /\ OwnedInv'
         /\ \A r \in Rotators : rotator'[r] = rotator[r] => SpanOf(r)'
<1>1. SettledInv'
  BY Zenon DEF SigningInv, SettledInv, Quiet, Newest, Lasts
<1>2. OwnedInv'
  <2>1. ASSUME NEW s \in Secrets, secret'[s].owner # Nobody
        PROVE  endpoint'[secret'[s].owner].status # "none" /\ secret'[s].created <= clock'
    <3>1. secret'[s] = secret[s] /\ secret[s].owner \in EndpointIds /\ secret[s].created \in Nat
      BY <2>1 DEF Quiet, EndpointsInv, EndpointsTypeOK, SecretRows
    <3>2. endpoint[secret[s].owner].status # "none" /\ secret[s].created <= clock
      BY Zenon, <2>1, <3>1 DEF SigningInv, OwnedInv
    <3>3. secret[s].created <= clock'
      BY <3>1, <3>2 DEF Quiet, EndpointsInv, EndpointsTypeOK
    <3> QED
      BY Zenon, <3>1, <3>2, <3>3 DEF Quiet
  <2> QED
    BY Zenon, <2>1 DEF OwnedInv
<1>3. ASSUME NEW r \in Rotators, rotator'[r] = rotator[r] PROVE SpanOf(r)'
  <2>1. SpanOf(r)
    BY Zenon DEF SigningInv, SpanInv
  <2>2. rotator[r].at \in Nat /\ (rotator[r].pc # "idle" => rotator[r].endpoint \in EndpointIds)
    BY SMTT(30) DEF EndpointsInv, EndpointsTypeOK, RotatorStates, RotateInv
  <2>3. rotator[r].at <= clock => rotator[r].at <= clock'
    BY <2>2 DEF Quiet, EndpointsInv, EndpointsTypeOK
  <2>4. \A e, t : SecretsOf(e, t)' = SecretsOf(e, t)
    BY Zenon DEF Quiet, SecretsOf
  <2> QED
    BY Zenon, <1>3, <2>1, <2>2, <2>3, <2>4 DEF SpanOf, Quiet
<1> QED
  BY Zenon, <1>1, <1>2, <1>3

\* A rotation starts, begins its transaction and takes its snapshot.
LEMMA RotatorSpan ==
  ASSUME EndpointsInv, SigningInv, NEW r \in Rotators,
         \/ \E e \in EndpointIds, g \in Graces : RotateSecret(r, e, g)
         \/ BeginRotation(r) \/ SnapshotSecrets(r) \/ AbandonRotation(r)
  PROVE  SigningInv'
<1>1. Quiet /\ \A q \in Rotators \ {r} : rotator'[q] = rotator[q]
  <2>1. secret' = secret /\ raced' = raced /\ endpoint' = endpoint /\ clock' \in {clock, clock + 1}
    BY DEF RotateSecret, BeginRotation, SnapshotSecrets, AbandonRotation
  <2>2. \A q \in Rotators \ {r} : rotator'[q] = rotator[q]
    BY Zenon DEF RotateSecret, BeginRotation, SnapshotSecrets, AbandonRotation, EndpointsInv, EndpointsTypeOK
  <2>3. clock' \in Nat /\ clock <= clock'
    BY <2>1 DEF EndpointsInv, EndpointsTypeOK
  <2> QED
    BY ZenonT(40), <2>1, <2>2, <2>3 DEF Quiet, EndpointListed
<1>2. SettledInv' /\ OwnedInv' /\ \A q \in Rotators \ {r} : SpanOf(q)'
  BY Zenon, <1>1, QuietStep
<1>3. rotator[r] \in RotatorStates /\ SpanOf(r) /\ (rotator[r].pc # "idle" => rotator[r].endpoint \in EndpointIds)
  BY Zenon DEF EndpointsInv, EndpointsTypeOK, RotateInv, SigningInv, SpanInv
<1>4. ASSUME rotator'[r] = IdleRotator PROVE SpanOf(r)'
  <2>1. rotator'[r].pc = "idle"
    <3>1. IdleRotator.pc = "idle"
      BY SMTT(30) DEF IdleRotator
    <3> QED
      BY ZenonT(40), <1>4, <3>1
  <2>2. ~(rotator'[r].pc \in {"update", "commit"}) /\ rotator'[r].pc # "commit" /\ ~(rotator'[r].pc # "idle")
    BY <2>1
  <2> QED
    BY Zenon, <2>2 DEF SpanOf
<1>5. ASSUME NEW e \in EndpointIds, NEW g \in Graces, RotateSecret(r, e, g) PROVE SpanOf(r)'
  <2>1. rotator'[r].pc = "begin" /\ rotator'[r].endpoint = e
    BY Zenon, <1>5 DEF RotateSecret, IdleRotator, EndpointsInv, EndpointsTypeOK
  <2>2. endpoint'[e].status # "none"
    BY Zenon, <1>5 DEF RotateSecret, EndpointListed
  <2> QED
    BY Zenon, <2>1, <2>2 DEF SpanOf
<1>6. ASSUME BeginRotation(r) PROVE SpanOf(r)'
  <2>1. CASE EndpointListed(rotator[r].endpoint)
    <3>1. rotator'[r] = [rotator[r] EXCEPT !.pc = "update", !.at = clock', !.alone = TRUE]
      BY Zenon, <1>6, <2>1 DEF BeginRotation, EndpointsInv, EndpointsTypeOK
    <3>2. rotator'[r].pc = "update" /\ rotator'[r].at = clock' /\ rotator'[r].endpoint = rotator[r].endpoint
      BY Zenon, <1>3, <3>1 DEF RotatorStates
    <3>3. clock' = clock + 1 /\ clock \in Nat /\ secret' = secret /\ endpoint' = endpoint
      BY Zenon, <1>6 DEF BeginRotation, EndpointsInv, EndpointsTypeOK
    <3>4. clock' # 0 /\ clock' <= clock'
      BY <3>3
    <3>5. ASSUME NEW s \in Secrets, secret[s].owner = rotator[r].endpoint PROVE secret[s].created < clock'
      <4>1. secret[s].owner # Nobody /\ secret[s].created \in Nat
        <5>1. rotator[r].endpoint \in EndpointIds
          BY Zenon, <1>3, <1>6 DEF BeginRotation
        <5>2. secret[s].created \in Nat
          BY DEF EndpointsInv, EndpointsTypeOK, SecretRows
        <5> QED
          BY Zenon, <3>5, <5>1, <5>2, PublishingAssumption
      <4>2. secret[s].created <= clock
        BY Zenon, <4>1 DEF SigningInv, OwnedInv
      <4> QED
        BY <3>3, <4>1, <4>2
    <3>6. endpoint[rotator[r].endpoint].status # "none"
      BY ZenonT(40), <2>1 DEF EndpointListed
    <3>7. rotator'[r].pc # "commit"
      BY <3>2
    <3> QED
      BY Zenon, <3>2, <3>3, <3>4, <3>5, <3>6, <3>7 DEF SpanOf
  <2>2. CASE ~EndpointListed(rotator[r].endpoint)
    <3>1. rotator'[r] = IdleRotator
      BY Zenon, <1>6, <2>2 DEF BeginRotation, EndpointsInv, EndpointsTypeOK
    <3> QED
      BY <1>4, <3>1
  <2> QED
    BY Zenon, <2>1, <2>2
<1>7. ASSUME SnapshotSecrets(r) PROVE SpanOf(r)'
  <2> DEFINE seen == SecretsOf(rotator[r].endpoint, rotator[r].at)
  <2>1. rotator'[r] = [rotator[r] EXCEPT !.pc = "commit", !.rows = seen]
    BY Zenon, <1>3, <1>7 DEF SnapshotSecrets, RotatorStates, EndpointsInv, EndpointsTypeOK
  <2>2. /\ rotator'[r].pc = "commit" /\ rotator'[r].endpoint = rotator[r].endpoint /\ rotator'[r].at = rotator[r].at
        /\ rotator'[r].alone = rotator[r].alone /\ rotator'[r].rows = seen
    BY Zenon, <1>3, <2>1 DEF RotatorStates
  <2>3. rotator[r].pc = "update" /\ secret' = secret /\ endpoint' = endpoint /\ clock' = clock
    BY Zenon, <1>7 DEF SnapshotSecrets
  <2>4. SecretsOf(rotator[r].endpoint, rotator[r].at)' = seen
    BY ZenonT(40), <2>2, <2>3 DEF SecretsOf
  <2>5. rotator[r].pc \in {"update", "commit"} /\ rotator[r].pc # "idle"
    BY <2>3
  <2>6. /\ endpoint[rotator[r].endpoint].status # "none" /\ rotator[r].at # 0 /\ rotator[r].at <= clock
        /\ rotator[r].alone => \A s \in Secrets : secret[s].owner = rotator[r].endpoint => secret[s].created < rotator[r].at
    BY Zenon, <1>3, <2>5 DEF SpanOf
  <2> HIDE DEF seen
  <2> QED
    BY Zenon, <2>2, <2>3, <2>4, <2>6 DEF SpanOf
<1>8. ASSUME AbandonRotation(r) PROVE SpanOf(r)'
  <2>1. rotator'[r] = IdleRotator
    BY Zenon, <1>8 DEF AbandonRotation, EndpointsInv, EndpointsTypeOK
  <2> QED
    BY <1>4, <2>1
<1>9. SpanOf(r)'
  BY <1>5, <1>6, <1>7, <1>8
<1> QED
  BY Zenon, <1>2, <1>9 DEF SigningInv, SpanInv

\* What a write to secrets means for the endpoints it is not about.
Elsewhere(e) ==
    /\ e \in EndpointIds
    /\ \A s \in Secrets : secret[s].owner \notin {e, Nobody} => secret'[s] = secret[s]
    /\ \A s \in Secrets : secret[s].owner \in {e, Nobody} => secret'[s].owner \in {e, Nobody}
    /\ \A f \in EndpointIds \ {e} : endpoint'[f] = endpoint[f] /\ (f \in raced' <=> f \in raced)

LEMMA ElsewhereSettled ==
  ASSUME EndpointsInv, SigningInv, NEW e, Elsewhere(e), NEW f \in EndpointIds \ {e}, EndpointListed(f)', f \notin raced'
  PROVE  \E p \in Secrets : Newest(f, p)'
<1>1. f # Nobody /\ EndpointListed(f) /\ f \notin raced
  BY Zenon, PublishingAssumption DEF Elsewhere, EndpointListed
<1>2. PICK p \in Secrets : Newest(f, p)
  BY Zenon, <1>1 DEF SigningInv, SettledInv
<1>3. ASSUME NEW s \in Secrets PROVE (secret'[s].owner = f => secret[s].owner = f) /\ (secret[s].owner = f => secret'[s] = secret[s])
  <2>1. f \notin {e, Nobody}
    BY Zenon, <1>1
  <2> QED
    BY Zenon, <2>1 DEF Elsewhere
<1>4. secret'[p] = secret[p]
  BY Zenon, <1>2, <1>3 DEF Newest, Lasts
<1>5. Newest(f, p)'
  BY Zenon, <1>2, <1>3, <1>4 DEF Newest, Lasts
<1> QED
  BY <1>5

LEMMA ElsewhereSpan ==
  ASSUME EndpointsInv, SigningInv, NEW e, Elsewhere(e), NEW q \in Rotators, rotator'[q] = rotator[q],
         rotator[q].pc # "idle" => rotator[q].endpoint # e, clock' \in Nat, clock <= clock'
  PROVE  SpanOf(q)'
<1>1. SpanOf(q) /\ rotator[q].at \in Nat /\ (rotator[q].pc # "idle" => rotator[q].endpoint \in EndpointIds)
  BY Zenon DEF SigningInv, SpanInv, EndpointsInv, EndpointsTypeOK, RotatorStates, RotateInv
<1>2. CASE rotator[q].pc = "idle"
  <2>1. ~(rotator'[q].pc \in {"update", "commit"}) /\ rotator'[q].pc # "commit" /\ ~(rotator'[q].pc # "idle")
    BY <1>2
  <2> QED
    BY Zenon, <2>1 DEF SpanOf
<1>3. CASE rotator[q].pc # "idle"
  <2> DEFINE f == rotator[q].endpoint
  <2>1. f \in EndpointIds \ {e} /\ f \notin {e, Nobody}
    BY Zenon, <1>1, <1>3, PublishingAssumption
  <2>2. endpoint'[f] = endpoint[f]
    BY Zenon, <2>1 DEF Elsewhere
  <2>3. ASSUME NEW s \in Secrets PROVE (secret'[s].owner = f => secret[s].owner = f) /\ (secret[s].owner = f => secret'[s] = secret[s])
    BY Zenon, <2>1 DEF Elsewhere
  <2>4. SecretsOf(rotator[q].endpoint, rotator[q].at)' = SecretsOf(rotator[q].endpoint, rotator[q].at)
    BY ZenonT(40), <2>3 DEF SecretsOf
  <2>5. rotator[q].at <= clock => rotator[q].at <= clock'
    BY <1>1 DEF EndpointsInv, EndpointsTypeOK
  <2>6. \A s \in Secrets : secret'[s].owner = f => secret[s].owner = f /\ secret'[s].created = secret[s].created
    BY Zenon, <2>3
  <2> QED
    BY Zenon, <1>1, <2>2, <2>4, <2>5, <2>6 DEF SpanOf
<1> QED
  BY Zenon, <1>2, <1>3

LEMMA CreateSpan ==
  ASSUME EndpointsInv, SigningInv, NEW e \in EndpointIds, NEW v \in Configs, CreateEndpoint(e, v)
  PROVE  SigningInv'
<1> DEFINE row == [owner |-> e, active |-> TRUE, expires |-> 0, created |-> clock']
<1>1. PICK n \in Secrets : secret[n].owner = Nobody /\ secret' = [secret EXCEPT ![n] = row]
  BY Zenon DEF CreateEndpoint
<1>2. row.owner = e /\ row.active /\ row.expires = 0 /\ row.created = clock'
  BY Zenon
<1> HIDE DEF row
<1>3. secret'[n] = row /\ \A s \in Secrets \ {n} : secret'[s] = secret[s]
  BY ZenonT(40), <1>1 DEF EndpointsInv, EndpointsTypeOK
<1>4. clock' \in Nat /\ clock <= clock' /\ clock' <= clock' /\ UNCHANGED <<rotator, raced>> /\ endpoint[e].status = "none"
  BY DEF CreateEndpoint, EndpointsInv, EndpointsTypeOK
<1>5. endpoint'[e].status = "active" /\ \A f \in EndpointIds \ {e} : endpoint'[f] = endpoint[f]
  BY Zenon DEF CreateEndpoint, EndpointsInv, EndpointsTypeOK
<1>6. e # Nobody /\ \A s \in Secrets : secret[s].owner # e
  BY Zenon, <1>4, PublishingAssumption DEF SigningInv, OwnedInv
<1>7. Elsewhere(e)
  BY ZenonT(40), <1>1, <1>2, <1>3, <1>4, <1>5, <1>6 DEF Elsewhere
<1>8. SettledInv'
  <2>1. \A s \in Secrets \ {n} : secret'[s].owner # e
    BY Zenon, <1>3, <1>6
  <2>2. Newest(e, n)'
    BY Zenon, <1>2, <1>3, <2>1 DEF Newest, Lasts
  <2>3. ASSUME NEW f \in EndpointIds, EndpointListed(f)', f \notin raced' PROVE \E p \in Secrets : Newest(f, p)'
    <3>1. CASE f = e
      BY Zenon, <2>2, <3>1
    <3>2. CASE f # e
      BY Zenon, <1>7, <2>3, <3>2, ElsewhereSettled
    <3> QED
      BY Zenon, <3>1, <3>2
  <2> QED
    BY Zenon, <2>3 DEF SettledInv
<1>9. OwnedInv'
  <2>1. ASSUME NEW s \in Secrets, s # n, secret[s].owner # Nobody
        PROVE  endpoint'[secret[s].owner].status # "none" /\ secret[s].created <= clock'
    <3>1. endpoint[secret[s].owner].status # "none" /\ secret[s].created <= clock
      BY ZenonT(40), <2>1 DEF SigningInv, OwnedInv
    <3>2. secret[s].owner \in EndpointIds \ {e} /\ secret[s].created \in Nat
      BY SMTT(30), <1>6, <2>1 DEF EndpointsInv, EndpointsTypeOK, SecretRows
    <3>3. secret[s].created <= clock'
      BY SMTT(30), <1>4, <3>1, <3>2 DEF EndpointsInv, EndpointsTypeOK
    <3> QED
      BY Zenon, <1>5, <3>1, <3>2, <3>3
  <2>2. endpoint'[e].status # "none"
    BY <1>5
  <2> QED
    BY Zenon, <1>2, <1>3, <1>4, <2>1, <2>2 DEF OwnedInv
<1>10. ASSUME NEW q \in Rotators PROVE SpanOf(q)'
  <2>1. rotator[q].pc # "idle" => rotator[q].endpoint # e
    BY Zenon, <1>4 DEF SigningInv, SpanInv, SpanOf
  <2> QED
    BY Zenon, <1>4, <1>7, <2>1, ElsewhereSpan
<1> QED
  BY Zenon, <1>8, <1>9, <1>10 DEF SigningInv, SpanInv

\* A rotation that was alone has retired every secret but its own, which is
\* the newest; one that was not marks its endpoint as raced.
LEMMA CommitSpan ==
  ASSUME EndpointsInv, SigningInv, NEW r \in Rotators, CommitRotation(r)
  PROVE  SigningInv'
<1> DEFINE e == rotator[r].endpoint
           at == rotator[r].at
           grace == rotator[r].grace
           rows == rotator[r].rows
           old == rows \cap SecretsOf(e, at)
<1>1. PICK n \in Secrets : secret[n].owner = Nobody /\ secret' = RotatedTo(r, n)
  BY Zenon DEF CommitRotation
<1>2. e \in EndpointIds /\ e # Nobody /\ at \in Nat /\ grace \in Nat
  BY PublishingAssumption DEF CommitRotation, EndpointsInv, RotateInv, EndpointsTypeOK, RotatorStates
<1>3. /\ endpoint[e].status # "none" /\ at # 0 /\ at <= clock
      /\ rotator[r].alone => rows = SecretsOf(e, at) /\ \A s \in Secrets : secret[s].owner = e => secret[s].created < at
  <2>1. SpanOf(r) /\ rotator[r].pc \in {"update", "commit"} /\ rotator[r].pc = "commit" /\ rotator[r].pc # "idle"
    BY DEF SigningInv, SpanInv, CommitRotation
  <2> QED
    BY Zenon, <2>1 DEF SpanOf
<1>4. UNCHANGED <<endpoint, clock>> /\ clock \in Nat /\ clock <= clock
  BY DEF CommitRotation, EndpointsInv, EndpointsTypeOK
<1>5. /\ secret'[n].owner = e /\ secret'[n].active /\ secret'[n].expires = 0 /\ secret'[n].created = at
      /\ \A s \in Secrets \ {n} : secret'[s] = IF s \in old THEN Retired(secret[s], r) ELSE secret[s]
  <2>1. secret'[n] = Successor(r) /\ \A s \in Secrets \ {n} : secret'[s] = IF s \in old THEN Retired(secret[s], r) ELSE secret[s]
    BY Zenon, <1>1 DEF RotatedTo
  <2>2. Successor(r).owner = e /\ Successor(r).active /\ Successor(r).expires = 0 /\ Successor(r).created = at
    BY Zenon DEF Successor
  <2> QED
    BY Zenon, <2>1, <2>2
<1>6. ASSUME NEW s \in Secrets
      PROVE  LET new == Retired(secret[s], r)
             IN  new.owner = secret[s].owner /\ new.created = secret[s].created /\ (new.active => new.expires # 0)
  <2>1. secret[s] \in SecretRows /\ at + grace # 0
    BY <1>2, <1>3 DEF EndpointsInv, EndpointsTypeOK
  <2>2. CASE grace = 0
    <3>1. Retired(secret[s], r) = [secret[s] EXCEPT !.active = FALSE]
      BY Zenon, <2>2 DEF Retired
    <3> QED
      BY Zenon, <2>1, <3>1 DEF SecretRows
  <2>3. CASE grace # 0
    <3>1. Retired(secret[s], r) = [secret[s] EXCEPT !.expires = at + grace]
      BY Zenon, <2>3 DEF Retired
    <3> QED
      BY Zenon, <2>1, <3>1 DEF SecretRows
  <2> QED
    BY ZenonT(40), <2>2, <2>3
<1>7. \A s \in Secrets : s \in old => secret[s].owner = e
  BY Zenon DEF SecretsOf
<1>8. \A s \in Secrets \ {n} : secret'[s].owner = secret[s].owner /\ secret'[s].created = secret[s].created
  BY Zenon, <1>5, <1>6
<1>9. raced' = (IF rotator[r].alone THEN raced \ {e} ELSE raced \cup {e})
  BY Zenon DEF CommitRotation
<1>10. Elsewhere(e)
  <2>1. \A s \in Secrets : secret[s].owner \notin {e, Nobody} => secret'[s] = secret[s]
    BY Zenon, <1>1, <1>5, <1>7
  <2>2. \A s \in Secrets : secret[s].owner \in {e, Nobody} => secret'[s].owner \in {e, Nobody}
    BY ZenonT(40), <1>5, <1>8
  <2>3. \A f \in EndpointIds \ {e} : endpoint'[f] = endpoint[f] /\ (f \in raced' <=> f \in raced)
    BY <1>4, <1>9
  <2> QED
    BY ZenonT(40), <1>2, <2>1, <2>2, <2>3 DEF Elsewhere
<1>11. SettledInv'
  <2>1. ASSUME NEW f \in EndpointIds, f = e, f \notin raced' PROVE Newest(f, n)'
    <3>1. rotator[r].alone
      BY <1>9, <2>1
    <3>2. ASSUME NEW s \in Secrets \ {n}, secret'[s].owner = e, secret'[s].active
          PROVE  secret'[s].expires # 0 /\ secret'[s].created < at
      <4>1. secret[s].owner = e /\ secret'[s].created < at
        BY Zenon, <1>3, <1>8, <3>1, <3>2
      <4>2. CASE s \in old
        BY Zenon, <1>5, <1>6, <3>2, <4>1, <4>2
      <4>3. CASE s \notin old
        <5>1. secret'[s] = secret[s] /\ s \notin SecretsOf(e, at)
          BY Zenon, <1>3, <1>5, <3>1, <4>3
        <5> QED
          BY Zenon, <3>2, <4>1, <5>1 DEF SecretsOf
      <4> QED
        BY Zenon, <4>2, <4>3
    <3> HIDE DEF e, at, old
    <3> QED
      BY ZenonT(40), <1>5, <2>1, <3>2 DEF Newest, Lasts
  <2>2. ASSUME NEW f \in EndpointIds, EndpointListed(f)', f \notin raced' PROVE \E p \in Secrets : Newest(f, p)'
    <3>1. CASE f = e
      BY Zenon, <2>1, <2>2, <3>1
    <3>2. CASE f # e
      BY Zenon, <1>10, <2>2, <3>2, ElsewhereSettled
    <3> QED
      BY Zenon, <3>1, <3>2
  <2> QED
    BY Zenon, <2>2 DEF SettledInv
<1>12. OwnedInv'
  <2>1. ASSUME NEW s \in Secrets, s # n, secret[s].owner # Nobody PROVE endpoint[secret[s].owner].status # "none" /\ secret[s].created <= clock
    BY Zenon, <2>1 DEF SigningInv, OwnedInv
  <2> QED
    BY ZenonT(40), <1>3, <1>4, <1>5, <1>8, <2>1 DEF OwnedInv
<1>13. ASSUME NEW q \in Rotators PROVE SpanOf(q)'
  <2>1. rotator'[q] = IF q = r THEN IdleRotator ELSE IF rotator[q].endpoint = e THEN [rotator[q] EXCEPT !.alone = FALSE] ELSE rotator[q]
    BY Zenon DEF CommitRotation
  <2>2. CASE q = r
    <3>1. rotator'[q].pc = "idle"
      BY SMTT(30), <2>1, <2>2 DEF IdleRotator
    <3>2. ~(rotator'[q].pc \in {"update", "commit"}) /\ rotator'[q].pc # "commit" /\ ~(rotator'[q].pc # "idle")
      BY <3>1
    <3> QED
      BY Zenon, <3>2 DEF SpanOf
  <2>3. CASE q # r /\ rotator[q].endpoint = e
    <3>1. rotator[q] \in RotatorStates /\ SpanOf(q)
      BY Zenon DEF EndpointsInv, EndpointsTypeOK, SigningInv, SpanInv
    <3>2. rotator'[q] = [rotator[q] EXCEPT !.alone = FALSE]
      BY Zenon, <2>1, <2>3
    <3>3. /\ rotator'[q].pc = rotator[q].pc /\ rotator'[q].endpoint = rotator[q].endpoint /\ rotator'[q].at = rotator[q].at
          /\ ~rotator'[q].alone
      BY Zenon, <3>1, <3>2 DEF RotatorStates
    <3> QED
      BY Zenon, <1>4, <3>1, <3>3 DEF SpanOf
  <2>4. CASE q # r /\ rotator[q].endpoint # e
    BY ZenonT(40), <1>4, <1>10, <2>1, <2>4, ElsewhereSpan
  <2> QED
    BY Zenon, <2>2, <2>3, <2>4
<1> QED
  BY Zenon, <1>11, <1>12, <1>13 DEF SigningInv, SpanInv

LEMMA SigningStep ==
  ASSUME EndpointsInv, SigningInv, EndpointsNext \/ UNCHANGED receivers
  PROVE  SigningInv'
<1>1. ASSUME Quiet, rotator' = rotator PROVE SigningInv'
  BY Zenon, <1>1, QuietStep DEF SigningInv, SpanInv
<1>2. ASSUME NEW e \in EndpointIds, NEW row \in EndpointRows, RowMoves(e, row), UNCHANGED <<secret, rotator, clock, raced>> PROVE SigningInv'
  <2>1. /\ \A f \in EndpointIds : EndpointListed(f)' => EndpointListed(f)
        /\ \A f \in EndpointIds : endpoint[f].status # "none" => endpoint'[f].status # "none"
    BY <1>2 DEF RowMoves, EndpointListed, EndpointsInv, EndpointsTypeOK
  <2>2. clock \in Nat /\ clock <= clock
    BY DEF EndpointsInv, EndpointsTypeOK
  <2> QED
    BY ZenonT(40), <1>1, <1>2, <2>1, <2>2 DEF Quiet
<1>3. ASSUME UNCHANGED <<endpoint, secret, rotator, raced>>, clock' \in {clock, clock + 1} PROVE SigningInv'
  <2>1. clock' \in Nat /\ clock <= clock'
    BY <1>3 DEF EndpointsInv, EndpointsTypeOK
  <2> QED
    BY ZenonT(40), <1>1, <1>3, <2>1 DEF Quiet, EndpointListed
<1>4. ASSUME NEW e \in EndpointIds, NEW s \in {"active", "paused", "deleted"}, SetStatus(e, s) PROVE SigningInv'
  <2>1. PICK row \in EndpointRows : RowMoves(e, row)
    BY <1>4, StatusMoves DEF EndpointsInv
  <2> QED
    BY ZenonT(40), <1>2, <1>4, <2>1 DEF SetStatus
<1>5. CASE \/ \E c \in Editors, e \in EndpointIds : GetEndpoint(c, e)
           \/ \E c \in Editors : FetchUpdated(c) \/ ExplainMismatch(c)
           \/ SecondPasses \/ UNCHANGED receivers
  <2>1. UNCHANGED <<endpoint, secret, rotator, raced>> /\ clock' \in {clock, clock + 1}
    BY Zenon, <1>5 DEF GetEndpoint, FetchUpdated, ExplainMismatch, EditorGoes, SecondPasses, receivers
  <2> QED
    BY Zenon, <1>3, <2>1
<1>6. ASSUME NEW c \in Editors, NEW v \in Configs, UpdateEndpoint(c, v) PROVE SigningInv'
  <2>1. UNCHANGED <<secret, rotator, clock, raced>>
    BY Zenon, <1>6 DEF UpdateEndpoint, EditorGoes
  <2>2. endpoint' = endpoint \/ \E e \in EndpointIds, row \in EndpointRows : RowMoves(e, row)
    BY Zenon, <1>6, UpdateStep DEF EndpointsInv
  <2> QED
    BY Zenon, <1>2, <1>3, <2>1, <2>2
<1>7. CASE \E e \in EndpointIds, v \in Configs : CreateEndpoint(e, v)
  BY Zenon, <1>7, CreateSpan
<1>8. CASE \E r \in Rotators : \/ \E e \in EndpointIds, g \in Graces : RotateSecret(r, e, g)
                               \/ BeginRotation(r) \/ SnapshotSecrets(r) \/ AbandonRotation(r)
  BY Zenon, <1>8, RotatorSpan
<1>9. CASE \E r \in Rotators : CommitRotation(r)
  BY Zenon, <1>9, CommitSpan
<1> QED
  BY <1>4, <1>5, <1>6, <1>7, <1>8, <1>9 DEF EndpointsNext, Pause, Resume, DeleteEndpoint, EditorStep, RotatorStep

FST == INSTANCE FiniteSetTheorems

LEMMA CountOne == \A p : Cardinality({p}) = 1
<1> SUFFICES ASSUME NEW p PROVE Cardinality({p}) = 1
  OBVIOUS
<1>1. FST!Cardinality({p}) = Cardinality({p})
  BY DEF FST!Cardinality, Cardinality
<1>2. FST!Cardinality({p}) = 1
  BY Zenon, FST!FS_Singleton
<1> QED
  BY <1>1, <1>2

\* Whatever rotations are under way, with any grace periods, and however many
\* endpoints, secrets and rotations there are: unless the last rotation of an
\* endpoint overlapped with another one, ORDER BY expires_at NULLS FIRST and
\* ORDER BY created_at DESC find the same secret, and no other qualifies.
THEOREM WorkersSignWithShown == Spec => []SignsWithShown
<1>1. ASSUME Init PROVE SigningInv
  <2>1. PICK c \in Started : endpoint = c.endpoint /\ secret = c.secret /\ clock = c.clock
    BY Zenon, <1>1 DEF Init
  <2>2. OwnedInv
    BY Zenon, <2>1, SettledAssumption DEF OwnedInv
  <2>3. \A e \in EndpointIds : EndpointListed(e) => \E p \in Secrets : Newest(e, p)
    <3>1. ASSUME NEW e \in EndpointIds, EndpointListed(e)
          PROVE  \E p \in Secrets :
                     /\ secret[p].owner = e /\ secret[p].active /\ secret[p].expires = 0
                     /\ \A s \in Secrets \ {p} :
                          secret[s].owner = e /\ secret[s].active => secret[s].expires # 0 /\ secret[s].created < secret[p].created
      BY ZenonT(40), <2>1, <3>1, SettledAssumption DEF EndpointListed
    <3> QED
      BY Zenon, <3>1 DEF Newest, Lasts
  <2>4. ASSUME NEW r \in Rotators PROVE SpanOf(r)
    <3>1. rotator[r].pc = "idle"
      BY <1>1 DEF Init, IdleRotator
    <3>2. ~(rotator[r].pc \in {"update", "commit"}) /\ rotator[r].pc # "commit" /\ ~(rotator[r].pc # "idle")
      BY <3>1
    <3> QED
      BY Zenon, <3>2 DEF SpanOf
  <2> QED
    BY Zenon, <2>2, <2>3, <2>4 DEF SigningInv, SettledInv, SpanInv
<1>2. EndpointsInv /\ SigningInv /\ [Next]_vars => SigningInv'
  BY SigningStep, ReceiversStep
<1>3. EndpointsInv /\ SigningInv => SignsWithShown
  <2> SUFFICES ASSUME EndpointsInv, SigningInv, NEW e \in EndpointIds, EndpointListed(e), e \notin raced
               PROVE  Signing(e) = Shown(e) /\ Cardinality(Shown(e)) = 1
    BY Zenon DEF SignsWithShown
  <2>1. PICK p \in Secrets : Newest(e, p)
    BY Zenon DEF SigningInv, SettledInv
  <2>2. p \in SecretsOf(e, clock)
    BY Zenon, <2>1 DEF Newest, Lasts, SecretsOf
  <2>3. ASSUME NEW s \in SecretsOf(e, clock)
        PROVE  /\ secret[p].expires <= secret[s].expires /\ secret[s].created <= secret[p].created
               /\ s # p => ~(secret[s].expires <= secret[p].expires) /\ ~(secret[p].created <= secret[s].created)
    <3>1. s \in Secrets /\ secret[s].owner = e /\ secret[s].active
      BY Zenon DEF SecretsOf
    <3>2. secret[s].expires \in Nat /\ secret[s].created \in Nat /\ secret[p].created \in Nat /\ secret[p].expires = 0
      BY Zenon, <2>1, <3>1 DEF EndpointsInv, EndpointsTypeOK, SecretRows, Newest, Lasts
    <3>3. s # p => secret[s].expires # 0 /\ secret[s].created < secret[p].created
      BY Zenon, <2>1, <3>1 DEF Newest
    <3> QED
      BY <3>2, <3>3
  <2>4. Signing(e) = {p}
    BY Zenon, <2>2, <2>3 DEF Signing
  <2>5. Shown(e) = {p}
    BY Zenon, <2>2, <2>3 DEF Shown
  <2>6. Cardinality({p}) = 1
    BY Zenon, CountOne
  <2> QED
    BY Zenon, <2>4, <2>5, <2>6
<1> QED
  BY <1>1, <1>2, <1>3, EndpointsInvariant, PTL DEF Spec
=============================================================================
