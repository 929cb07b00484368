----------------------------- MODULE Endpoints -----------------------------
(***************************************************************************)
(* Endpoints and their signing secrets.                                    *)
(*                                                                         *)
(* A client edits an endpoint with the version it read; pause, resume and  *)
(* delete take no version.  A rotation is one READ COMMITTED transaction:  *)
(* its UPDATE finds the secrets that were committed when it began, waits   *)
(* for rotations that hold them and looks again at those rows, but never   *)
(* at rows inserted since.  NOW() is the start of the transaction, for     *)
(* expires_at and for created_at alike.                                    *)
(***************************************************************************)
EXTENDS Naturals, FiniteSets

CONSTANTS
    EndpointIds, Secrets, Configs, Nobody,
    Editors,    \* clients that read and update an endpoint
    Rotators,   \* requests that rotate a secret
    Graces      \* values of expiry_seconds; those above a day are refused

VARIABLES
    endpoint,   \* the endpoints table
    secret,     \* the endpoint_secrets table
    editor,     \* state of each client that edits
    rotator,    \* state of each rotation
    clock,      \* now; no two transactions start in the same instant
    raced       \* history: the last rotation to commit began before the one it followed had committed

receivers == <<endpoint, secret, editor, rotator, clock, raced>>

EndpointRows == [status: {"none", "active", "paused", "deleted"}, version: Nat, config: Configs \cup {Nobody}]
NoEndpoint == [status |-> "none", version |-> 0, config |-> Nobody]
\* expires = 0 is NULL
SecretRows == [owner: EndpointIds \cup {Nobody}, active: BOOLEAN, expires: Nat, created: Nat]
NoSecret == [owner |-> Nobody, active |-> FALSE, expires |-> 0, created |-> 0]
\* applied is history: did the UPDATE match the row?
EditorStates ==
    [pc: {"idle", "edit", "fetch", "explain"}, endpoint: EndpointIds \cup {Nobody}, seen: EndpointRows,
     applied: BOOLEAN, answer: {"none", "ok", "conflict", "not_found"}]
IdleEditor ==
    [pc |-> "idle", endpoint |-> Nobody, seen |-> NoEndpoint, applied |-> FALSE, answer |-> "none"]
\* alone is history: no rotation of the endpoint has committed since this one began.
RotatorStates ==
    [pc: {"idle", "begin", "update", "commit"}, endpoint: EndpointIds \cup {Nobody}, grace: Nat, at: Nat,
     rows: SUBSET Secrets, alone: BOOLEAN]
IdleRotator == [pc |-> "idle", endpoint |-> Nobody, grace |-> 0, at |-> 0, rows |-> {}, alone |-> FALSE]

EndpointsTypeOK ==
    /\ endpoint \in [EndpointIds -> EndpointRows]
    /\ secret \in [Secrets -> SecretRows]
    /\ editor \in [Editors -> EditorStates]
    /\ rotator \in [Rotators -> RotatorStates]
    /\ clock \in Nat \ {0}
    /\ raced \subseteq EndpointIds

EndpointsInit ==
    /\ endpoint = [e \in EndpointIds |-> NoEndpoint]
    /\ secret = [s \in Secrets |-> NoSecret]
    /\ editor = [c \in Editors |-> IdleEditor]
    /\ rotator = [r \in Rotators |-> IdleRotator]
    /\ clock = 1
    /\ raced = {}

EndpointListed(e) == endpoint[e].status \in {"active", "paused"}
SecretsOf(e, at) ==
    {s \in Secrets : /\ secret[s].owner = e /\ secret[s].active
                     /\ secret[s].expires = 0 \/ secret[s].expires > at}

(***************************************************************************)
(* The endpoint row                                                        *)
(***************************************************************************)
\* A row in the state it is inserted in, and its first secret with it.
CreateEndpoint(e, v) ==
    /\ endpoint[e].status = "none"
    /\ endpoint' = [endpoint EXCEPT ![e] = [status |-> "active", version |-> 0, config |-> v]]
    /\ clock' = clock + 1
    /\ \E s \in Secrets :
         /\ secret[s].owner = Nobody
         /\ secret' = [secret EXCEPT ![s] = [owner |-> e, active |-> TRUE, expires |-> 0, created |-> clock']]
    /\ UNCHANGED <<editor, rotator, raced>>

\* Broken variant: a change of status is not a new version.
SetStatusQuietly(e, s) ==
    /\ EndpointListed(e)
    /\ endpoint' = [endpoint EXCEPT ![e].status = s]
    /\ UNCHANGED <<secret, editor, rotator, clock, raced>>

SetStatus(e, s) ==
    /\ EndpointListed(e)
    /\ endpoint' = [endpoint EXCEPT ![e].status = s, ![e].version = @ + 1]
    /\ UNCHANGED <<secret, editor, rotator, clock, raced>>

Pause(e) == SetStatus(e, "paused")
Resume(e) == SetStatus(e, "active")
DeleteEndpoint(e) == SetStatus(e, "deleted")

(***************************************************************************)
(* Editing it                                                              *)
(***************************************************************************)
EditorGoes(c, r) == editor' = [editor EXCEPT ![c] = r] /\ UNCHANGED <<secret, rotator, clock, raced>>

GetEndpoint(c, e) ==
    /\ editor[c].pc = "idle"
    /\ EndpointListed(e)
    /\ EditorGoes(c, [IdleEditor EXCEPT !.pc = "edit", !.endpoint = e, !.seen = endpoint[e]])
    /\ UNCHANGED endpoint

UpdateEndpoint(c, v) ==
    LET e == editor[c].endpoint IN
    /\ editor[c].pc = "edit"
    /\ IF EndpointListed(e) /\ endpoint[e].version = editor[c].seen.version
       THEN /\ endpoint' = [endpoint EXCEPT ![e].config = v, ![e].version = @ + 1]
            /\ EditorGoes(c, [editor[c] EXCEPT !.pc = "fetch", !.applied = TRUE])
       ELSE /\ EditorGoes(c, [editor[c] EXCEPT !.pc = "explain"])
            /\ UNCHANGED endpoint

\* The row for the answer; it may be deleted by now.
FetchUpdated(c) ==
    /\ editor[c].pc = "fetch"
    /\ EditorGoes(c, IF EndpointListed(editor[c].endpoint)
                     THEN [editor[c] EXCEPT !.pc = "idle", !.answer = "ok"]
                     ELSE [editor[c] EXCEPT !.pc = "explain"])
    /\ UNCHANGED endpoint

\* Broken variant: no row means another version, without a look.
ExplainAsConflict(c) ==
    /\ editor[c].pc = "explain"
    /\ EditorGoes(c, [editor[c] EXCEPT !.pc = "idle", !.answer = "conflict"])
    /\ UNCHANGED endpoint

ExplainMismatch(c) ==
    /\ editor[c].pc = "explain"
    /\ EditorGoes(c, [editor[c] EXCEPT !.pc = "idle",
                                       !.answer = IF EndpointListed(editor[c].endpoint) THEN "conflict" ELSE "not_found"])
    /\ UNCHANGED endpoint

(***************************************************************************)
(* Rotating its secret                                                     *)
(***************************************************************************)
RotateSecret(r, e, g) ==
    /\ rotator[r].pc = "idle"
    /\ EndpointListed(e)
    /\ rotator' = [rotator EXCEPT ![r] = [IdleRotator EXCEPT !.pc = "begin", !.endpoint = e, !.grace = g]]
    /\ UNCHANGED <<endpoint, secret, editor, clock, raced>>

BeginRotation(r) ==
    /\ rotator[r].pc = "begin"
    /\ clock' = clock + 1
    /\ rotator' = [rotator EXCEPT ![r] = IF EndpointListed(rotator[r].endpoint)
                                         THEN [rotator[r] EXCEPT !.pc = "update", !.at = clock', !.alone = TRUE]
                                         ELSE IdleRotator]
    /\ UNCHANGED <<endpoint, secret, editor, raced>>

\* What the UPDATE can see.
SnapshotSecrets(r) ==
    /\ rotator[r].pc = "update"
    /\ rotator' = [rotator EXCEPT ![r].pc = "commit", ![r].rows = SecretsOf(rotator[r].endpoint, rotator[r].at)]
    /\ UNCHANGED <<endpoint, secret, editor, clock, raced>>

\* Deactivated, or left to expire after the grace period.
Retired(row, r) ==
    IF rotator[r].grace = 0 THEN [row EXCEPT !.active = FALSE]
                            ELSE [row EXCEPT !.expires = rotator[r].at + rotator[r].grace]
Successor(r) == [owner |-> rotator[r].endpoint, active |-> TRUE, expires |-> 0, created |-> rotator[r].at]

\* Broken variant: the INSERT before the UPDATE, which then retires it too.
RotateInsertFirst(r, n) ==
    [s \in Secrets |-> IF s = n THEN Retired(Successor(r), r)
                       ELSE IF s \in rotator[r].rows \cap SecretsOf(rotator[r].endpoint, rotator[r].at)
                            THEN Retired(secret[s], r) ELSE secret[s]]

\* The rows it saw that still qualify, and the new one n.
RotatedTo(r, n) ==
    [s \in Secrets |-> IF s = n THEN Successor(r)
                       ELSE IF s \in rotator[r].rows \cap SecretsOf(rotator[r].endpoint, rotator[r].at)
                            THEN Retired(secret[s], r) ELSE secret[s]]

CommitRotation(r) ==
    LET e == rotator[r].endpoint IN
    /\ rotator[r].pc = "commit"
    /\ \E n \in Secrets : secret[n].owner = Nobody /\ secret' = RotatedTo(r, n)
    /\ raced' = IF rotator[r].alone THEN raced \ {e} ELSE raced \cup {e}
    /\ rotator' = [q \in Rotators |-> IF q = r THEN IdleRotator
                                      ELSE IF rotator[q].endpoint = e THEN [rotator[q] EXCEPT !.alone = FALSE]
                                      ELSE rotator[q]]
    /\ UNCHANGED <<endpoint, editor, clock>>

\* A statement fails or the server dies: the transaction is rolled back.
AbandonRotation(r) ==
    /\ rotator[r].pc # "idle"
    /\ rotator' = [rotator EXCEPT ![r] = IdleRotator]
    /\ UNCHANGED <<endpoint, secret, editor, clock, raced>>

SecondPasses ==
    /\ clock' = clock + 1
    /\ UNCHANGED <<endpoint, secret, editor, rotator, raced>>

EditorStep == \E c \in Editors : (\E v \in Configs : UpdateEndpoint(c, v)) \/ FetchUpdated(c) \/ ExplainMismatch(c)
RotatorStep == \E r \in Rotators : BeginRotation(r) \/ SnapshotSecrets(r) \/ CommitRotation(r)

EndpointsNext ==
    \/ \E e \in EndpointIds : Pause(e) \/ Resume(e) \/ DeleteEndpoint(e) \/ \E v \in Configs : CreateEndpoint(e, v)
    \/ \E e \in EndpointIds, c \in Editors : GetEndpoint(c, e)
    \/ \E e \in EndpointIds, r \in Rotators, g \in Graces : RotateSecret(r, e, g)
    \/ EditorStep \/ RotatorStep \/ \E r \in Rotators : AbandonRotation(r)
    \/ SecondPasses

(***************************************************************************)
(* Reading secrets                                                         *)
(***************************************************************************)
\* GET /endpoints/:id/secret: the newest
Shown(e) == {s \in SecretsOf(e, clock) : \A z \in SecretsOf(e, clock) : secret[z].created <= secret[s].created}

Permanent(e) == {s \in SecretsOf(e, clock) : secret[s].expires = 0}

\* Broken variant: without NULLS FIRST, the rows that expire come first.
SigningNullsLast(e) ==
    LET expiring == SecretsOf(e, clock) \ Permanent(e)
    IN  IF expiring = {} THEN Permanent(e) ELSE {s \in expiring : \A z \in expiring : secret[s].expires <= secret[z].expires}

\* What a worker may sign a delivery with: ORDER BY expires_at NULLS FIRST,
\* in any order among equals.
Signing(e) == {s \in SecretsOf(e, clock) : \A z \in SecretsOf(e, clock) : secret[s].expires <= secret[z].expires}

(***************************************************************************)
(* Properties                                                              *)
(***************************************************************************)

\* An update is only accepted on top of what its client has read: whenever
\* the version a client holds is the current one, the whole row is the one
\* it read, whatever was edited, paused, resumed or deleted meanwhile.
NoLostUpdate ==
    \A c \in Editors :
        (editor[c].pc = "edit" /\ editor[c].seen.version = endpoint[editor[c].endpoint].version)
        => editor[c].seen = endpoint[editor[c].endpoint]

\* A client that is told of a version conflict, and to retry, has changed
\* nothing, even when a delete came between the UPDATE and the lookups that
\* service.update makes for the answer; and one that is told of success has.
ConflictChangedNothing ==
    \A c \in Editors : /\ editor[c].answer = "conflict" => ~editor[c].applied
                       /\ editor[c].answer = "ok" => editor[c].applied

\* An endpoint always has a secret without expiry, however rotations
\* overlap, fail or are asked for with and without grace: a worker that
\* loads a job for it finds one to sign with (get_job_for_delivery joins it).
AlwaysSigns == \A e \in EndpointIds : EndpointListed(e) => Permanent(e) # {}

\* Workers sign with the secret that the owner is shown, at every moment of
\* every grace period, unless the last rotation overlapped with another one.
\* deliver makes one signature, with the secret get_job_for_delivery picks: the
\* old secret signs nothing during its grace period, although
\* docs/architecture/delivery-pipeline.md:126 has both produce valid signatures.
SignsWithShown ==
    \A e \in EndpointIds : EndpointListed(e) /\ e \notin raced => Signing(e) = Shown(e) /\ Cardinality(Shown(e)) = 1
=============================================================================
