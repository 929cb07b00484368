------------------------------ MODULE Invites ------------------------------
(***************************************************************************)
(* Invitations to a tenant: created and resent by an administrator, opened *)
(* and accepted with the token that was mailed, which makes its holder a   *)
(* member.                                                                 *)
(*                                                                         *)
(* Only resend is a transaction.  revoke, verify and accept read the row,  *)
(* check it, and then write the status by id whatever it has become;       *)
(* accept inserts the member in a further statement.  Invites are those of *)
(* one tenant; the tenant and the roles stay what they are.                *)
(***************************************************************************)
EXTENDS Naturals, FiniteSets

CONSTANTS
    Invites, Emails, Calls, NoInvite,
    MaxCalls   \* bound on the number of requests

ASSUME InvitesAssumption == NoInvite \notin Invites /\ MaxCalls \in Nat

VARIABLES
    inv,       \* the invites table
    members,   \* the tenant_members table: the invites that made a member
    call,      \* state of each request being served
    calls,     \* number of requests so far
    joins,     \* history: how often each address was answered with a membership
    stranded,  \* history: invites whose acceptance ended after its first write
    raced      \* history: invites revoked while a request that had read them ran

vars == <<inv, members, call, calls, joins, stranded, raced>>
history == <<joins, stranded, raced>>

Live == {"sent", "opened", "failed"}
Rows ==
    [status: Live \cup {"none", "accepted", "revoked"}, deleted: BOOLEAN, expired: BOOLEAN,
     acceptedAt: BOOLEAN, revokedAt: BOOLEAN, email: Emails]
Sent(email) ==
    [status |-> "sent", deleted |-> FALSE, expired |-> FALSE, acceptedAt |-> FALSE, revokedAt |-> FALSE, email |-> email]
NoCall == [pc |-> "idle", inv |-> NoInvite]

TypeOK ==
    /\ inv \in [Invites -> Rows]
    /\ members \subseteq Invites
    /\ call \in [Calls -> [pc: {"idle", "mail", "fail", "open", "revoke", "accept", "member"}, inv: Invites \cup {NoInvite}]]
    /\ calls \in 0..MaxCalls
    /\ joins \in [Emails -> 0..MaxCalls] /\ stranded \subseteq Invites /\ raced \subseteq Invites

Init ==
    /\ inv \in {[i \in Invites |-> [Sent(e) EXCEPT !.status = "none"]] : e \in Emails}
    /\ members = {}
    /\ call = [c \in Calls |-> NoCall]
    /\ calls = 0
    /\ joins = [e \in Emails |-> 0] /\ stranded = {} /\ raced = {}

Unused(i) == inv[i].status = "none"
Found(i) == ~Unused(i) /\ ~inv[i].deleted

Begin(c, pc, i) ==
    /\ call[c].pc = "idle" /\ calls < MaxCalls
    /\ calls' = calls + 1
    /\ call' = [call EXCEPT ![c] = [pc |-> pc, inv |-> i]]
Done(c) == call' = [call EXCEPT ![c] = NoCall] /\ UNCHANGED calls

\* Requests that hold an earlier state of the row, or the outcome of its mail.
Holds(c, i) == call[c].inv = i /\ call[c].pc # "idle"
NoteRace(c, i) == raced' = IF \E d \in Calls \ {c} : Holds(d, i) THEN raced \cup {i} ELSE raced

(***************************************************************************)
(* set_status: by id, whatever the status is now; a timestamp not given    *)
(* keeps its value.                                                        *)
(***************************************************************************)
WithStatus(row, s) ==
    [row EXCEPT !.status = s, !.revokedAt = @ \/ s = "revoked", !.acceptedAt = @ \/ s = "accepted"]

SetStatus(i, s) == inv' = IF Found(i) THEN [inv EXCEPT ![i] = WithStatus(@, s)] ELSE inv

(***************************************************************************)
(* Administrators                                                          *)
(***************************************************************************)
Create(c, i, email) ==
    /\ Unused(i)
    /\ Begin(c, "mail", i)
    /\ inv' = [inv EXCEPT ![i] = Sent(email)]
    /\ UNCHANGED <<members, history>>

\* One transaction: the old invite is revoked where it is live, and the new
\* one inserted.
Resend(c, i, new) ==
    /\ Found(i) /\ inv[i].status \in Live /\ Unused(new)
    /\ Begin(c, "mail", new)
    /\ inv' = [inv EXCEPT ![i] = [@ EXCEPT !.status = "revoked", !.revokedAt = TRUE], ![new] = Sent(inv[i].email)]
    /\ NoteRace(c, i)
    /\ UNCHANGED <<members, joins, stranded>>

\* The mail may arrive whether or not its sending is reported as failed.
SendMail(c) ==
    /\ call[c].pc = "mail"
    /\ \/ Done(c)
       \/ call' = [call EXCEPT ![c].pc = "fail"] /\ UNCHANGED calls
    /\ UNCHANGED <<inv, members, history>>

\* Broken variant: an invite that could not be mailed counts as expired.
MarkExpired(c) ==
    /\ call[c].pc = "fail"
    /\ inv' = [inv EXCEPT ![call[c].inv].status = "expired"]
    /\ Done(c)
    /\ UNCHANGED <<members, history>>

MarkFailed(c) ==
    /\ call[c].pc = "fail"
    /\ SetStatus(call[c].inv, "failed")
    /\ Done(c)
    /\ UNCHANGED <<members, history>>

Delete(c, i) ==
    /\ call[c].pc = "idle" /\ calls < MaxCalls
    /\ Found(i)
    /\ inv' = [inv EXCEPT ![i].deleted = TRUE]
    /\ calls' = calls + 1
    /\ UNCHANGED <<members, call, history>>

Revoke(c, i) ==
    /\ Found(i) /\ inv[i].status \in Live
    /\ Begin(c, "revoke", i)
    /\ UNCHANGED <<inv, members, history>>

WriteRevoked(c) ==
    LET i == call[c].inv IN
    /\ call[c].pc = "revoke"
    /\ SetStatus(i, "revoked")
    /\ IF Found(i) THEN NoteRace(c, i) ELSE UNCHANGED raced
    /\ Done(c)
    /\ UNCHANGED <<members, joins, stranded>>

(***************************************************************************)
(* Holders of the token                                                    *)
(***************************************************************************)
\* Broken variant: verify does not refuse a revoked invite.
OpensRevoked(i) == Found(i) /\ ~inv[i].expired /\ inv[i].status # "accepted"

Opens(i) == Found(i) /\ ~inv[i].expired /\ inv[i].status \notin {"revoked", "accepted"}

\* An invite already opened is only read.
Verify(c, i) ==
    /\ Opens(i) /\ inv[i].status # "opened"
    /\ Begin(c, "open", i)
    /\ UNCHANGED <<inv, members, history>>

WriteOpened(c) ==
    /\ call[c].pc = "open"
    /\ SetStatus(call[c].inv, "opened")
    /\ Done(c)
    /\ UNCHANGED <<members, history>>

Accept(c, i) ==
    /\ Opens(i)
    /\ Begin(c, "accept", i)
    /\ UNCHANGED <<inv, members, history>>

\* No row when it was deleted meanwhile: the request ends with an error.
WriteAccepted(c) ==
    LET i == call[c].inv IN
    /\ call[c].pc = "accept"
    /\ SetStatus(i, "accepted")
    /\ IF Found(i) THEN call' = [call EXCEPT ![c].pc = "member"] /\ UNCHANGED calls ELSE Done(c)
    /\ UNCHANGED <<members, history>>

\* UNIQUE (invite_id) and (tenant_id, user_email); a violation is a Conflict.
Taken(i) == \E m \in members : m = i \/ inv[m].email = inv[i].email

\* Broken variant: a member that is there already is as good as a new one.
CreateMemberAgain(c) ==
    LET i == call[c].inv IN
    /\ call[c].pc = "member"
    /\ members' = members \cup {i}
    /\ joins' = [joins EXCEPT ![inv[i].email] = @ + 1]
    /\ Done(c)
    /\ UNCHANGED <<inv, stranded, raced>>

\* Broken variant: the status is read again, and only an invite that still is
\* accepted makes a member.
CreateMemberIfStill(c) ==
    LET i == call[c].inv IN
    /\ call[c].pc = "member"
    /\ IF inv[i].status # "accepted" \/ Taken(i) THEN UNCHANGED <<members, joins>>
       ELSE members' = members \cup {i} /\ joins' = [joins EXCEPT ![inv[i].email] = @ + 1]
    /\ Done(c)
    /\ UNCHANGED <<inv, stranded, raced>>

CreateMember(c) ==
    LET i == call[c].inv IN
    /\ call[c].pc = "member"
    /\ IF Taken(i) THEN UNCHANGED <<members, joins>>
       ELSE members' = members \cup {i} /\ joins' = [joins EXCEPT ![inv[i].email] = @ + 1]
    /\ Done(c)
    /\ UNCHANGED <<inv, stranded, raced>>

(***************************************************************************)
(* The rest of the world                                                   *)
(***************************************************************************)
\* expires_at passes; no statement ever writes the status 'expired'
Expire(i) ==
    /\ ~Unused(i) /\ ~inv[i].expired
    /\ inv' = [inv EXCEPT ![i].expired = TRUE]
    /\ UNCHANGED <<members, call, calls, history>>

\* A statement fails, the client goes away or the server dies.
Stop(c) ==
    /\ call[c].pc # "idle"
    /\ stranded' = IF call[c].pc = "member" THEN stranded \cup {call[c].inv} ELSE stranded
    /\ Done(c)
    /\ UNCHANGED <<inv, members, joins, raced>>

Administer(c) ==
    \/ \E i \in Invites, e \in Emails : Create(c, i, e)
    \/ \E i, new \in Invites : Resend(c, i, new)
    \/ \E i \in Invites : Delete(c, i) \/ Revoke(c, i)
    \/ SendMail(c) \/ MarkFailed(c) \/ WriteRevoked(c)

Join(c) ==
    \/ \E i \in Invites : Verify(c, i) \/ Accept(c, i)
    \/ WriteOpened(c) \/ WriteAccepted(c) \/ CreateMember(c)

Next ==
    \/ \E c \in Calls : Administer(c) \/ Join(c) \/ Stop(c)
    \/ \E i \in Invites : Expire(i)

Spec == Init /\ [][Next]_vars

(***************************************************************************)
(* Properties                                                              *)
(***************************************************************************)

\* Every member comes from an invite that was accepted, and the record of it
\* is never lost: accepted_at is kept by every later set_status, even one of
\* a request that read the invite before it was accepted.  And who accepted an
\* invite is a member, through this invite or another one for the same
\* address, unless the request is still running or ended between the two
\* statements of accept.
MembersAccepted ==
    /\ \A i \in members : inv[i].acceptedAt
    /\ \A i \in Invites :
         inv[i].acceptedAt =>
             \/ Taken(i)
             \/ i \in stranded
             \/ \E c \in Calls : call[c] = [pc |-> "member", inv |-> i]

\* An address is answered with a new membership once, however many of its
\* invites are accepted and however often: the INSERT of create_member fails.
JoinsOnce == \A e \in Emails : joins[e] <= 1

\* An invite that was revoked, by revoke or because it was sent again, stays
\* revoked, unless a request that had read it before was still running then.
RevocationStands == \A i \in Invites \ raced : inv[i].revokedAt => inv[i].status = "revoked"
=============================================================================
