---------------------------- MODULE MCPublishing ----------------------------
(* An instance of Publishing for TLC.                                      *)
EXTENDS Publishing, TLC

CONSTANTS a1, y1, y2, e1, e2, s1, s2, s3, n1, n2, v1, fam

OneApp == [e \in EndpointIds |-> a1]
OneFamily == [y \in Types |-> fam]
TwoVersions == [y \in Types |-> IF y = y1 THEN 1 ELSE 2]

Active(e) == [status |-> "active", endpoint |-> e, type |-> y1, app |-> a1]
FirstOf(e) == [owner |-> e, active |-> TRUE, expires |-> 0, created |-> 1]
\* An application with an event type and two endpoints, both subscribed to
\* it; and nothing yet.
Populated ==
    [app |-> [a \in Apps |-> "live"], type |-> [y \in Types |-> IF y = y1 THEN "live" ELSE "none"],
     endpoint |-> [e \in EndpointIds |-> [status |-> "active", version |-> 0, config |-> v1]],
     secret |-> [s \in Secrets |-> IF s = n1 THEN FirstOf(e1) ELSE IF s = n2 THEN FirstOf(e2) ELSE NoSecret], clock |-> 1,
     sub |-> [s \in Subs |-> IF s = s1 THEN Active(e1) ELSE IF s = s2 THEN Active(e2) ELSE NoSub]]
Bare ==
    [app |-> [a \in Apps |-> "none"], type |-> [y \in Types |-> "none"], endpoint |-> [e \in EndpointIds |-> NoEndpoint],
     secret |-> [s \in Secrets |-> NoSecret], clock |-> 1, sub |-> [s \in Subs |-> NoSub]]
Both == {Populated, Bare}

Allow(request, receiver, publish, slow, fault, edit, rotate, tick) ==
    [x \in Operations |-> CASE x = "catalog" -> request [] x = "endpoint" -> receiver [] x = "publish" -> publish
                            [] x = "slow" -> slow [] x = "fault" -> fault [] x = "edit" -> edit [] x = "rotate" -> rotate [] x = "tick" -> tick]
\* Changes to the catalog around one event; requests with the same key;
\* clients that edit an endpoint others pause or delete; rotations.
Eight == {Allow(1, 1, 1, 0, 1, 0, 0, 0), Allow(2, 0, 1, 0, 0, 0, 0, 0), Allow(0, 0, 3, 1, 0, 0, 0, 0),
          Allow(0, 0, 2, 1, 1, 0, 0, 0), Allow(2, 1, 0, 0, 0, 0, 0, 0), Allow(0, 2, 0, 0, 0, 2, 0, 0),
          Allow(0, 0, 0, 0, 0, 0, 3, 0), Allow(0, 1, 0, 0, 1, 0, 2, 1)}

Symmetry == Permutations(Publishers) \cup Permutations(Events)
=============================================================================
