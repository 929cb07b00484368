------------------------------ MODULE Catalog ------------------------------
(***************************************************************************)
(* What publishing an event looks up: applications, event types with their *)
(* schema versions, endpoints, and the subscriptions of endpoints to event *)
(* types, all of one tenant.                                               *)
(*                                                                         *)
(* A version of an event type is a row of its own, with its own id, and a  *)
(* subscription names one such row.  Only creating a subscription takes    *)
(* several statements.                                                     *)
(***************************************************************************)
EXTENDS Endpoints

CONSTANTS
    Apps, Types, Subs, Subscribers,
    AppOf,      \* the application of each endpoint
    FamilyOf,   \* the name of each event type row
    VersionOf   \* its schema_version, by its place in the order of texts

VARIABLES
    app,         \* status of each application
    type,        \* status of each event type row
    sub,         \* the subscriptions table
    subscriber   \* state of each request that creates a subscription

catalog == <<app, type, receivers, sub, subscriber>>

SubRows == [status: {"none", "active", "deleted"}, endpoint: EndpointIds \cup {Nobody}, type: Types \cup {Nobody},
            app: Apps \cup {Nobody}]
NoSub == [status |-> "none", endpoint |-> Nobody, type |-> Nobody, app |-> Nobody]
IdleSubscriber == [pc |-> "idle", app |-> Nobody, endpoint |-> Nobody, type |-> Nobody]

CatalogTypeOK ==
    /\ app \in [Apps -> {"none", "live", "deleted"}]
    /\ type \in [Types -> {"none", "live", "archived", "deleted"}]
    /\ EndpointsTypeOK
    /\ sub \in [Subs -> SubRows]
    /\ subscriber \in [Subscribers -> [pc: {"idle", "endpoint", "type", "insert"}, app: Apps \cup {Nobody},
                                       endpoint: EndpointIds \cup {Nobody}, type: Types \cup {Nobody}]]

(***************************************************************************)
(* Applications                                                            *)
(***************************************************************************)
SetApp(a, s) == app' = [app EXCEPT ![a] = s] /\ UNCHANGED <<type, receivers, sub, subscriber>>
\* Broken variant: the state column of another spelling.
CreateAppInactive(a) == app[a] = "none" /\ SetApp(a, "INACTIVE")
CreateApp(a) == app[a] = "none" /\ SetApp(a, "live")
DeleteApp(a) == app[a] = "live" /\ SetApp(a, "deleted")
RestoreApp(a) == app[a] # "none" /\ SetApp(a, "live")

(***************************************************************************)
(* Event types                                                             *)
(***************************************************************************)
Listed(y) == type[y] \in {"live", "archived"}
\* UNIQUE (tenant_id, name, schema_version) WHERE deleted_at IS NULL
VersionTaken(y) == \E x \in Types : Listed(x) /\ FamilyOf[x] = FamilyOf[y] /\ VersionOf[x] = VersionOf[y]
SetType(y, s) == type' = [type EXCEPT ![y] = s] /\ UNCHANGED <<app, receivers, sub, subscriber>>

CreateType(y, a) == app[a] = "live" /\ type[y] = "none" /\ ~VersionTaken(y) /\ SetType(y, "live")
\* from any listed row of the family, archived or not
CreateVersion(y, source) ==
    /\ Listed(source) /\ FamilyOf[source] = FamilyOf[y]
    /\ type[y] = "none" /\ ~VersionTaken(y) /\ SetType(y, "live")
DeleteType(y) == Listed(y) /\ SetType(y, "deleted")
SetArchived(y, s) == Listed(y) /\ SetType(y, s)
Archive(y) == SetArchived(y, "archived")
Unarchive(y) == SetArchived(y, "live")

(***************************************************************************)
(* Endpoints                                                               *)
(***************************************************************************)
\* One whose application is deleted after create has found it is like one
\* created just before.
EndpointRequest(e) ==
    /\ Pause(e) \/ Resume(e) \/ DeleteEndpoint(e) \/ (app[AppOf[e]] = "live" /\ \E v \in Configs : CreateEndpoint(e, v))
    /\ UNCHANGED <<app, type, sub, subscriber>>

(***************************************************************************)
(* Subscriptions                                                           *)
(***************************************************************************)
SubscriberGoes(u, r) == subscriber' = [subscriber EXCEPT ![u] = r] /\ UNCHANGED <<app, type, receivers>>

Subscribe(u, a, e, y) ==
    /\ subscriber[u].pc = "idle"
    /\ app[a] = "live"
    /\ SubscriberGoes(u, [pc |-> "endpoint", app |-> a, endpoint |-> e, type |-> y]) /\ UNCHANGED sub

FindEndpoint(u) ==
    LET r == subscriber[u] IN
    /\ r.pc = "endpoint"
    /\ SubscriberGoes(u, IF AppOf[r.endpoint] = r.app /\ endpoint[r.endpoint].status = "active"
                         THEN [r EXCEPT !.pc = "type"] ELSE IdleSubscriber)
    /\ UNCHANGED sub

FindType(u) ==
    LET r == subscriber[u] IN
    /\ r.pc = "type"
    /\ SubscriberGoes(u, IF type[r.type] = "live" THEN [r EXCEPT !.pc = "insert"] ELSE IdleSubscriber)
    /\ UNCHANGED sub

\* UNIQUE (endpoint_id, event_type_id) WHERE deleted_at IS NULL
AlreadySubscribed(e, y) == \E s \in Subs : sub[s].status = "active" /\ sub[s].endpoint = e /\ sub[s].type = y

InsertSubscription(u) ==
    LET r == subscriber[u] IN
    /\ r.pc = "insert"
    /\ \/ /\ ~AlreadySubscribed(r.endpoint, r.type)
          /\ \E s \in Subs :
               /\ sub[s].status = "none"
               /\ sub' = [sub EXCEPT ![s] = [status |-> "active", endpoint |-> r.endpoint, type |-> r.type, app |-> r.app]]
       \/ AlreadySubscribed(r.endpoint, r.type) /\ UNCHANGED sub
    /\ SubscriberGoes(u, IdleSubscriber)

Unsubscribe(s) ==
    /\ sub[s].status = "active"
    /\ sub' = [sub EXCEPT ![s].status = "deleted"]
    /\ UNCHANGED <<app, type, receivers, subscriber>>

CatalogRequest ==
    \/ \E a \in Apps : CreateApp(a) \/ DeleteApp(a) \/ RestoreApp(a)
    \/ \E y \in Types, a \in Apps : CreateType(y, a)
    \/ \E y, source \in Types : CreateVersion(y, source)
    \/ \E y \in Types : DeleteType(y) \/ Archive(y) \/ Unarchive(y)
    \/ \E u \in Subscribers, a \in Apps, e \in EndpointIds, y \in Types : Subscribe(u, a, e, y)
    \/ \E s \in Subs : Unsubscribe(s)

SubscriberStep == \E u \in Subscribers : FindEndpoint(u) \/ FindType(u) \/ InsertSubscription(u)
=============================================================================
