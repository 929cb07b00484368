--------------------------- MODULE Invites_proofs ---------------------------
(***************************************************************************)
(* The properties of Invites, proved for every number of invites,          *)
(* addresses and requests.                                                 *)
(*                                                                         *)
(* None of them is inductive.  InvitesInv adds that a request holds an     *)
(* invite that exists and, once it is about to insert a member, one that   *)
(* was accepted (CallInv); that a row not yet used carries no trace of a   *)
(* life (FreshInv); that an address that joined has its member             *)
(* (JoinInv); and that nobody holds an invite that was revoked (StandInv), *)
(* since a request that still did could write over its status.             *)
(***************************************************************************)
EXTENDS Invites, TLAPS

CallStates == [pc: {"idle", "mail", "fail", "open", "revoke", "accept", "member"}, inv: Invites \cup {NoInvite}]

Types ==
    /\ inv \in [Invites -> Rows]
    /\ members \subseteq Invites
    /\ call \in [Calls -> CallStates]
    /\ joins \in [Emails -> Nat]
    /\ stranded \subseteq Invites /\ raced \subseteq Invites

CallInv ==
    \A c \in Calls :
        /\ call[c].pc # "idle" => call[c].inv \in Invites /\ ~Unused(call[c].inv)
        /\ call[c].pc = "member" => inv[call[c].inv].acceptedAt

FreshInv == \A i \in Invites : Unused(i) => ~inv[i].acceptedAt /\ ~inv[i].revokedAt

JoinInv == \A e \in Emails : joins[e] = 0 \/ (joins[e] = 1 /\ \E m \in members : inv[m].email = e)

StandInv ==
    \A i \in Invites \ raced :
        inv[i].revokedAt => inv[i].status = "revoked" /\ \A c \in Calls : ~Holds(c, i)

InvitesInv == Types /\ CallInv /\ FreshInv /\ MembersAccepted /\ JoinInv /\ StandInv

\* A row in use stays in use, for the same address, and once accepted stays
\* accepted; a row not in use stays without a trace until it is filled.
Evolves ==
    \A i \in Invites :
        /\ ~Unused(i) => inv'[i].status # "none" /\ inv'[i].email = inv[i].email
        /\ inv[i].acceptedAt => inv'[i].acceptedAt

\* What set_status writes: rows of the type of the table, and nothing but the
\* status and the two times of the one row, if it is found.
LEMMA StatusEffect ==
  ASSUME Types, NEW i \in Invites, NEW s \in Live \cup {"accepted", "revoked"}, SetStatus(i, s)
  PROVE  /\ inv' \in [Invites -> Rows]
         /\ \A j \in Invites : j # i => inv'[j] = inv[j]
         /\ inv'[i].email = inv[i].email
         /\ inv'[i].status = IF Found(i) THEN s ELSE inv[i].status
         /\ inv'[i].acceptedAt <=> (inv[i].acceptedAt \/ (Found(i) /\ s = "accepted"))
         /\ inv'[i].revokedAt <=> (inv[i].revokedAt \/ (Found(i) /\ s = "revoked"))
<1>1. /\ WithStatus(inv[i], s) \in Rows
      /\ WithStatus(inv[i], s).email = inv[i].email
      /\ WithStatus(inv[i], s).status = s
      /\ WithStatus(inv[i], s).acceptedAt <=> (inv[i].acceptedAt \/ s = "accepted")
      /\ WithStatus(inv[i], s).revokedAt <=> (inv[i].revokedAt \/ s = "revoked")
  BY ZenonT(40) DEF WithStatus, Rows, Live, Types
<1>2. CASE Found(i)
  <2>1. inv' = [inv EXCEPT ![i] = WithStatus(inv[i], s)]
    BY <1>2 DEF SetStatus
  <2> QED
    BY <1>1, <1>2, <2>1 DEF Types
<1>3. CASE ~Found(i)
  BY <1>3 DEF SetStatus, Types, Rows
<1> QED
  BY <1>2, <1>3

\* What the transaction of resend writes.
LEMMA ResendEffect ==
  ASSUME Types, NEW c \in Calls, NEW i \in Invites, NEW new \in Invites, Resend(c, i, new)
  PROVE  /\ inv' \in [Invites -> Rows]
         /\ i # new /\ \A j \in Invites : j # i /\ j # new => inv'[j] = inv[j]
         /\ inv'[i].email = inv[i].email /\ inv'[i].acceptedAt = inv[i].acceptedAt
         /\ inv'[i].status = "revoked" /\ inv'[i].revokedAt
         /\ inv'[new].status = "sent" /\ inv'[new].email = inv[i].email
         /\ ~inv'[new].acceptedAt /\ ~inv'[new].revokedAt
<1>1. i # new
  BY DEF Resend, Found
<1> DEFINE old == [inv[i] EXCEPT !.status = "revoked", !.revokedAt = TRUE]
<1>2. old \in Rows /\ old.email = inv[i].email /\ old.acceptedAt = inv[i].acceptedAt /\ old.status = "revoked" /\ old.revokedAt
  BY ZenonT(40) DEF Types, Rows
<1> DEFINE row == Sent(inv[i].email)
<1>3. row \in Rows /\ row.status = "sent" /\ row.email = inv[i].email /\ ~row.acceptedAt /\ ~row.revokedAt
  BY DEF Types, Rows, Sent, Live
<1>4. inv' = [inv EXCEPT ![i] = old, ![new] = row]
  BY <1>1 DEF Resend
<1> HIDE DEF old, row
<1> QED
  BY <1>1, <1>2, <1>3, <1>4 DEF Types

\* A time that passes and a deletion set one flag of a row.
LEMMA FlagEffect ==
  ASSUME Types, NEW i \in Invites,
         \/ inv' = [inv EXCEPT ![i].deleted = TRUE]
         \/ inv' = [inv EXCEPT ![i].expired = TRUE]
  PROVE  /\ inv' \in [Invites -> Rows]
         /\ \A j \in Invites :
              /\ inv'[j].status = inv[j].status /\ inv'[j].email = inv[j].email
              /\ inv'[j].acceptedAt = inv[j].acceptedAt /\ inv'[j].revokedAt = inv[j].revokedAt
<1>1. PICK row \in Rows :
        /\ inv' = [inv EXCEPT ![i] = row]
        /\ row.status = inv[i].status /\ row.email = inv[i].email
        /\ row.acceptedAt = inv[i].acceptedAt /\ row.revokedAt = inv[i].revokedAt
  <2> inv[i] \in Rows
    BY DEF Types
  <2>1. [inv[i] EXCEPT !.deleted = TRUE] \in Rows /\ [inv[i] EXCEPT !.expired = TRUE] \in Rows
    BY Zenon DEF Rows
  <2>2. CASE inv' = [inv EXCEPT ![i].deleted = TRUE]
    BY Zenon, <2>1, <2>2 DEF Types, Rows
  <2>3. CASE inv' = [inv EXCEPT ![i].expired = TRUE]
    BY ZenonT(40), <2>1, <2>3 DEF Types, Rows
  <2> QED
    BY <2>2, <2>3
<1> QED
  BY <1>1 DEF Types

\* The handlers of invites write rows, requests and members of their type.
LEMMA TypesStep ==
  ASSUME Types, CallInv, [Next]_vars
  PROVE  Types'
<1>1. inv' \in [Invites -> Rows]
  <2>1. ASSUME NEW c \in Calls, NEW i \in Invites, NEW email \in Emails, Create(c, i, email) PROVE inv' \in [Invites -> Rows]
    BY <2>1 DEF Types, CallInv, Live, Create, Sent, history, Rows
  <2>2. ASSUME NEW c \in Calls, NEW i \in Invites, NEW new \in Invites, Resend(c, i, new) PROVE inv' \in [Invites -> Rows]
    BY <2>2, ResendEffect DEF Types, CallInv, Live, Resend, Sent, Found
  <2>3. ASSUME NEW c \in Calls, NEW i \in Invites, Delete(c, i) PROVE inv' \in [Invites -> Rows]
    BY Zenon, <2>3, FlagEffect DEF Types, CallInv, Live, Delete, Found, history
  <2>4. ASSUME NEW c \in Calls, NEW i \in Invites, Revoke(c, i) PROVE inv' \in [Invites -> Rows]
    BY <2>4 DEF Types, CallInv, Live, Revoke, Found, history
  <2>5. ASSUME NEW c \in Calls, SendMail(c) PROVE inv' \in [Invites -> Rows]
    BY <2>5 DEF Types, CallInv, Live, SendMail, history
  <2>6. ASSUME NEW c \in Calls, MarkFailed(c) PROVE inv' \in [Invites -> Rows]
    BY <2>6, StatusEffect DEF Types, CallInv, Live, MarkFailed, Found, history
  <2>7. ASSUME NEW c \in Calls, WriteRevoked(c) PROVE inv' \in [Invites -> Rows]
    BY <2>7, StatusEffect DEF Types, CallInv, Live, WriteRevoked, Found
  <2>8. ASSUME NEW c \in Calls, NEW i \in Invites, Verify(c, i) PROVE inv' \in [Invites -> Rows]
    BY <2>8 DEF Types, CallInv, Live, Verify, Opens, Found, history
  <2>9. ASSUME NEW c \in Calls, NEW i \in Invites, Accept(c, i) PROVE inv' \in [Invites -> Rows]
    BY <2>9 DEF Types, CallInv, Live, Accept, Opens, Found, history
  <2>10. ASSUME NEW c \in Calls, WriteOpened(c) PROVE inv' \in [Invites -> Rows]
    BY <2>10, StatusEffect DEF Types, CallInv, Live, WriteOpened, Found, history
  <2>11. ASSUME NEW c \in Calls, WriteAccepted(c) PROVE inv' \in [Invites -> Rows]
    BY <2>11, StatusEffect DEF Types, CallInv, Live, WriteAccepted, Found, history
  <2>12. ASSUME NEW c \in Calls, CreateMember(c) PROVE inv' \in [Invites -> Rows]
    BY <2>12 DEF Types, CallInv, Live, CreateMember
  <2>13. ASSUME NEW c \in Calls, Stop(c) PROVE inv' \in [Invites -> Rows]
    BY <2>13 DEF Types, CallInv, Live, Stop
  <2>14. ASSUME NEW i \in Invites, Expire(i) PROVE inv' \in [Invites -> Rows]
    BY Zenon, <2>14, FlagEffect DEF Types, CallInv, Live, Expire, history
  <2>15. ASSUME UNCHANGED vars PROVE inv' \in [Invites -> Rows]
    BY <2>15 DEF Types, CallInv, Live, vars
  <2> QED
    BY <2>1, <2>2, <2>3, <2>4, <2>5, <2>6, <2>7, <2>8, <2>9, <2>10, <2>11, <2>12, <2>13, <2>14, <2>15 DEF Next, Administer, Join
<1>2. call' \in [Calls -> CallStates]
  <2>1. ASSUME NEW c \in Calls, NEW i \in Invites, NEW email \in Emails, Create(c, i, email) PROVE call' \in [Calls -> CallStates]
    BY <2>1 DEF Types, CallInv, CallStates, Create, Begin, history
  <2>2. ASSUME NEW c \in Calls, NEW i \in Invites, NEW new \in Invites, Resend(c, i, new) PROVE call' \in [Calls -> CallStates]
    BY <2>2 DEF Types, CallInv, CallStates, Resend, Begin, Live
  <2>3. ASSUME NEW c \in Calls, NEW i \in Invites, Delete(c, i) PROVE call' \in [Calls -> CallStates]
    BY <2>3 DEF Types, CallInv, CallStates, Delete, history
  <2>4. ASSUME NEW c \in Calls, NEW i \in Invites, Revoke(c, i) PROVE call' \in [Calls -> CallStates]
    BY <2>4 DEF Types, CallInv, CallStates, Revoke, Begin, Live, history
  <2>5. ASSUME NEW c \in Calls, SendMail(c) PROVE call' \in [Calls -> CallStates]
    BY <2>5 DEF Types, CallInv, CallStates, SendMail, Done, NoCall, history
  <2>6. ASSUME NEW c \in Calls, MarkFailed(c) PROVE call' \in [Calls -> CallStates]
    BY <2>6 DEF Types, CallInv, CallStates, MarkFailed, Done, NoCall, history
  <2>7. ASSUME NEW c \in Calls, WriteRevoked(c) PROVE call' \in [Calls -> CallStates]
    BY <2>7 DEF Types, CallInv, CallStates, WriteRevoked, Done, NoCall
  <2>8. ASSUME NEW c \in Calls, NEW i \in Invites, Verify(c, i) PROVE call' \in [Calls -> CallStates]
    BY <2>8 DEF Types, CallInv, CallStates, Verify, Begin, history
  <2>9. ASSUME NEW c \in Calls, NEW i \in Invites, Accept(c, i) PROVE call' \in [Calls -> CallStates]
    BY <2>9 DEF Types, CallInv, CallStates, Accept, Begin, history
  <2>10. ASSUME NEW c \in Calls, WriteOpened(c) PROVE call' \in [Calls -> CallStates]
    BY <2>10 DEF Types, CallInv, CallStates, WriteOpened, Done, NoCall, history
  <2>11. ASSUME NEW c \in Calls, WriteAccepted(c) PROVE call' \in [Calls -> CallStates]
    BY <2>11 DEF Types, CallInv, CallStates, WriteAccepted, Done, NoCall, history
  <2>12. ASSUME NEW c \in Calls, CreateMember(c) PROVE call' \in [Calls -> CallStates]
    BY <2>12 DEF Types, CallInv, CallStates, CreateMember, Done, NoCall
  <2>13. ASSUME NEW c \in Calls, Stop(c) PROVE call' \in [Calls -> CallStates]
    BY <2>13 DEF Types, CallInv, CallStates, Stop, Done, NoCall
  <2>14. ASSUME NEW i \in Invites, Expire(i) PROVE call' \in [Calls -> CallStates]
    BY <2>14 DEF Types, CallInv, CallStates, Expire, history
  <2>15. ASSUME UNCHANGED vars PROVE call' \in [Calls -> CallStates]
    BY <2>15 DEF Types, CallInv, CallStates, vars
  <2> QED
    BY <2>1, <2>2, <2>3, <2>4, <2>5, <2>6, <2>7, <2>8, <2>9, <2>10, <2>11, <2>12, <2>13, <2>14, <2>15 DEF Next, Administer, Join
<1>3. members' \subseteq Invites /\ joins' \in [Emails -> Nat] /\ stranded' \subseteq Invites /\ raced' \subseteq Invites
  <2>1. ASSUME NEW c \in Calls, NEW i \in Invites, NEW email \in Emails, Create(c, i, email) PROVE members' \subseteq Invites /\ joins' \in [Emails -> Nat] /\ stranded' \subseteq Invites /\ raced' \subseteq Invites
    BY <2>1 DEF Types, CallInv, Create, history
  <2>2. ASSUME NEW c \in Calls, NEW i \in Invites, NEW new \in Invites, Resend(c, i, new) PROVE members' \subseteq Invites /\ joins' \in [Emails -> Nat] /\ stranded' \subseteq Invites /\ raced' \subseteq Invites
    BY <2>2 DEF Types, CallInv, Resend, Live, NoteRace
  <2>3. ASSUME NEW c \in Calls, NEW i \in Invites, Delete(c, i) PROVE members' \subseteq Invites /\ joins' \in [Emails -> Nat] /\ stranded' \subseteq Invites /\ raced' \subseteq Invites
    BY <2>3 DEF Types, CallInv, Delete, history
  <2>4. ASSUME NEW c \in Calls, NEW i \in Invites, Revoke(c, i) PROVE members' \subseteq Invites /\ joins' \in [Emails -> Nat] /\ stranded' \subseteq Invites /\ raced' \subseteq Invites
    BY <2>4 DEF Types, CallInv, Revoke, Live, history
  <2>5. ASSUME NEW c \in Calls, SendMail(c) PROVE members' \subseteq Invites /\ joins' \in [Emails -> Nat] /\ stranded' \subseteq Invites /\ raced' \subseteq Invites
    BY <2>5 DEF Types, CallInv, SendMail, history
  <2>6. ASSUME NEW c \in Calls, MarkFailed(c) PROVE members' \subseteq Invites /\ joins' \in [Emails -> Nat] /\ stranded' \subseteq Invites /\ raced' \subseteq Invites
    BY <2>6 DEF Types, CallInv, MarkFailed, history
  <2>7. ASSUME NEW c \in Calls, WriteRevoked(c) PROVE members' \subseteq Invites /\ joins' \in [Emails -> Nat] /\ stranded' \subseteq Invites /\ raced' \subseteq Invites
    BY <2>7 DEF Types, CallInv, WriteRevoked, NoteRace
  <2>8. ASSUME NEW c \in Calls, NEW i \in Invites, Verify(c, i) PROVE members' \subseteq Invites /\ joins' \in [Emails -> Nat] /\ stranded' \subseteq Invites /\ raced' \subseteq Invites
    BY <2>8 DEF Types, CallInv, Verify, history
  <2>9. ASSUME NEW c \in Calls, NEW i \in Invites, Accept(c, i) PROVE members' \subseteq Invites /\ joins' \in [Emails -> Nat] /\ stranded' \subseteq Invites /\ raced' \subseteq Invites
    BY <2>9 DEF Types, CallInv, Accept, history
  <2>10. ASSUME NEW c \in Calls, WriteOpened(c) PROVE members' \subseteq Invites /\ joins' \in [Emails -> Nat] /\ stranded' \subseteq Invites /\ raced' \subseteq Invites
    BY <2>10 DEF Types, CallInv, WriteOpened, history
  <2>11. ASSUME NEW c \in Calls, WriteAccepted(c) PROVE members' \subseteq Invites /\ joins' \in [Emails -> Nat] /\ stranded' \subseteq Invites /\ raced' \subseteq Invites
    BY <2>11 DEF Types, CallInv, WriteAccepted, history
  <2>12. ASSUME NEW c \in Calls, CreateMember(c) PROVE members' \subseteq Invites /\ joins' \in [Emails -> Nat] /\ stranded' \subseteq Invites /\ raced' \subseteq Invites
    BY <2>12 DEF Types, CallInv, CreateMember, Rows
  <2>13. ASSUME NEW c \in Calls, Stop(c) PROVE members' \subseteq Invites /\ joins' \in [Emails -> Nat] /\ stranded' \subseteq Invites /\ raced' \subseteq Invites
    BY <2>13 DEF Types, CallInv, Stop
  <2>14. ASSUME NEW i \in Invites, Expire(i) PROVE members' \subseteq Invites /\ joins' \in [Emails -> Nat] /\ stranded' \subseteq Invites /\ raced' \subseteq Invites
    BY <2>14 DEF Types, CallInv, Expire, history
  <2>15. ASSUME UNCHANGED vars PROVE members' \subseteq Invites /\ joins' \in [Emails -> Nat] /\ stranded' \subseteq Invites /\ raced' \subseteq Invites
    BY <2>15 DEF Types, CallInv, vars
  <2> QED
    BY <2>1, <2>2, <2>3, <2>4, <2>5, <2>6, <2>7, <2>8, <2>9, <2>10, <2>11, <2>12, <2>13, <2>14, <2>15 DEF Next, Administer, Join
<1> QED
  BY <1>1, <1>2, <1>3 DEF Types

\* What no handler of invites does to a row in use.
LEMMA EvolvesStep ==
  ASSUME Types, CallInv, FreshInv, [Next]_vars
  PROVE  Evolves
<1>1. ASSUME NEW c \in Calls, NEW i \in Invites, NEW email \in Emails, Create(c, i, email) PROVE Evolves
  BY <1>1 DEF CallInv, FreshInv, Evolves, Unused, Live, Create, Sent, Types
<1>2. ASSUME NEW c \in Calls, NEW i \in Invites, NEW new \in Invites, Resend(c, i, new) PROVE Evolves
  <2>1. Unused(new) /\ ~inv[new].acceptedAt /\ ~Unused(i)
    BY <1>2 DEF Resend, Found, FreshInv
  <2> QED
    BY <1>2, <2>1, ResendEffect DEF Evolves, Unused
<1>3. ASSUME NEW c \in Calls, NEW i \in Invites, Delete(c, i) PROVE Evolves
  BY <1>3, FlagEffect DEF CallInv, FreshInv, Evolves, Unused, Live, Delete, Found
<1>4. ASSUME NEW c \in Calls, NEW i \in Invites, Revoke(c, i) PROVE Evolves
  BY <1>4 DEF CallInv, FreshInv, Evolves, Unused, Live, Revoke, Found
<1>5. ASSUME NEW c \in Calls, SendMail(c) PROVE Evolves
  BY <1>5 DEF CallInv, FreshInv, Evolves, Unused, Live, SendMail
<1>6. ASSUME NEW c \in Calls, MarkFailed(c) PROVE Evolves
  BY <1>6, StatusEffect DEF CallInv, FreshInv, Evolves, Unused, Live, MarkFailed, Found
<1>7. ASSUME NEW c \in Calls, WriteRevoked(c) PROVE Evolves
  BY <1>7, StatusEffect DEF CallInv, FreshInv, Evolves, Unused, Live, WriteRevoked, Found
<1>8. ASSUME NEW c \in Calls, NEW i \in Invites, Verify(c, i) PROVE Evolves
  BY <1>8 DEF CallInv, FreshInv, Evolves, Unused, Live, Verify, Opens, Found
<1>9. ASSUME NEW c \in Calls, NEW i \in Invites, Accept(c, i) PROVE Evolves
  BY <1>9 DEF CallInv, FreshInv, Evolves, Unused, Live, Accept, Opens, Found
<1>10. ASSUME NEW c \in Calls, WriteOpened(c) PROVE Evolves
  BY <1>10, StatusEffect DEF CallInv, FreshInv, Evolves, Unused, Live, WriteOpened, Found
<1>11. ASSUME NEW c \in Calls, WriteAccepted(c) PROVE Evolves
  BY <1>11, StatusEffect DEF CallInv, FreshInv, Evolves, Unused, Live, WriteAccepted, Found
<1>12. ASSUME NEW c \in Calls, CreateMember(c) PROVE Evolves
  BY <1>12 DEF CallInv, FreshInv, Evolves, Unused, Live, CreateMember
<1>13. ASSUME NEW c \in Calls, Stop(c) PROVE Evolves
  BY <1>13 DEF CallInv, FreshInv, Evolves, Unused, Live, Stop
<1>14. ASSUME NEW i \in Invites, Expire(i) PROVE Evolves
  BY <1>14, FlagEffect DEF CallInv, FreshInv, Evolves, Unused, Live, Expire
<1>15. ASSUME UNCHANGED vars PROVE Evolves
  BY <1>15 DEF CallInv, FreshInv, Evolves, Unused, Live, vars
<1> QED
  BY <1>1, <1>2, <1>3, <1>4, <1>5, <1>6, <1>7, <1>8, <1>9, <1>10, <1>11, <1>12, <1>13, <1>14, <1>15 DEF Next, Administer, Join

\* A request holds an invite that is in use, and an accepted one before it
\* inserts the member.
LEMMA CallStep ==
  ASSUME Types, CallInv, FreshInv, [Next]_vars
  PROVE  CallInv'
<1>e. Evolves
  BY EvolvesStep
<1>1. ASSUME NEW c \in Calls, NEW i \in Invites, NEW email \in Emails, Create(c, i, email) PROVE CallInv'
  BY <1>1, <1>e DEF Types, CallInv, CallStates, Evolves, Unused, Create, Begin, Sent
<1>2. ASSUME NEW c \in Calls, NEW i \in Invites, NEW new \in Invites, Resend(c, i, new) PROVE CallInv'
  <2>1. call' = [call EXCEPT ![c] = [pc |-> "mail", inv |-> new]]
    BY <1>2 DEF Resend, Begin
  <2>2. inv'[new].status = "sent"
    BY <1>2, ResendEffect
  <2> QED
    BY <1>e, <2>1, <2>2 DEF Types, CallInv, Evolves, Unused
<1>3. ASSUME NEW c \in Calls, NEW i \in Invites, Delete(c, i) PROVE CallInv'
  BY <1>3, <1>e, FlagEffect DEF Types, CallInv, CallStates, Evolves, Unused, Delete, Found
<1>4. ASSUME NEW c \in Calls, NEW i \in Invites, Revoke(c, i) PROVE CallInv'
  BY <1>4, <1>e DEF Types, CallInv, CallStates, Evolves, Unused, Revoke, Begin, Found, Live
<1>5. ASSUME NEW c \in Calls, SendMail(c) PROVE CallInv'
  BY <1>5, <1>e DEF Types, CallInv, CallStates, Evolves, Unused, SendMail, Done, NoCall
<1>6. ASSUME NEW c \in Calls, MarkFailed(c) PROVE CallInv'
  BY <1>6, <1>e, StatusEffect DEF Types, CallInv, CallStates, Evolves, Unused, MarkFailed, Done, NoCall, Found
<1>7. ASSUME NEW c \in Calls, WriteRevoked(c) PROVE CallInv'
  BY <1>7, <1>e, StatusEffect DEF Types, CallInv, CallStates, Evolves, Unused, WriteRevoked, Done, NoCall, Found
<1>8. ASSUME NEW c \in Calls, NEW i \in Invites, Verify(c, i) PROVE CallInv'
  BY <1>8, <1>e DEF Types, CallInv, CallStates, Evolves, Unused, Verify, Begin, Opens, Found
<1>9. ASSUME NEW c \in Calls, NEW i \in Invites, Accept(c, i) PROVE CallInv'
  BY <1>9, <1>e DEF Types, CallInv, CallStates, Evolves, Unused, Accept, Begin, Opens, Found
<1>10. ASSUME NEW c \in Calls, WriteOpened(c) PROVE CallInv'
  BY <1>10, <1>e, StatusEffect DEF Types, CallInv, CallStates, Evolves, Unused, WriteOpened, Done, NoCall, Found
<1>11. ASSUME NEW c \in Calls, WriteAccepted(c) PROVE CallInv'
  BY <1>11, <1>e, StatusEffect DEF Types, CallInv, CallStates, Evolves, Unused, WriteAccepted, Done, NoCall, Found, Live
<1>12. ASSUME NEW c \in Calls, CreateMember(c) PROVE CallInv'
  BY <1>12, <1>e DEF Types, CallInv, CallStates, Evolves, Unused, CreateMember, Done, NoCall
<1>13. ASSUME NEW c \in Calls, Stop(c) PROVE CallInv'
  BY <1>13, <1>e DEF Types, CallInv, CallStates, Evolves, Unused, Stop, Done, NoCall
<1>14. ASSUME NEW i \in Invites, Expire(i) PROVE CallInv'
  BY <1>14, <1>e, FlagEffect DEF Types, CallInv, CallStates, Evolves, Unused, Expire
<1>15. ASSUME UNCHANGED vars PROVE CallInv'
  BY <1>15, <1>e DEF Types, CallInv, CallStates, Evolves, Unused, vars
<1> QED
  BY <1>1, <1>2, <1>3, <1>4, <1>5, <1>6, <1>7, <1>8, <1>9, <1>10, <1>11, <1>12, <1>13, <1>14, <1>15 DEF Next, Administer, Join

\* An insert is the only write to a row that is not in use, and it leaves it in use.
LEMMA FreshStep ==
  ASSUME Types, CallInv, FreshInv, [Next]_vars
  PROVE  FreshInv'
<1>1. ASSUME NEW c \in Calls, NEW i \in Invites, NEW email \in Emails, Create(c, i, email) PROVE FreshInv'
  BY <1>1 DEF CallInv, FreshInv, Unused, Create, Sent, Types
<1>2. ASSUME NEW c \in Calls, NEW i \in Invites, NEW new \in Invites, Resend(c, i, new) PROVE FreshInv'
  BY <1>2, ResendEffect DEF FreshInv, Unused
<1>3. ASSUME NEW c \in Calls, NEW i \in Invites, Delete(c, i) PROVE FreshInv'
  BY <1>3, FlagEffect DEF CallInv, FreshInv, Unused, Delete, Found
<1>4. ASSUME NEW c \in Calls, NEW i \in Invites, Revoke(c, i) PROVE FreshInv'
  BY <1>4 DEF CallInv, FreshInv, Unused, Revoke, Found, Live
<1>5. ASSUME NEW c \in Calls, SendMail(c) PROVE FreshInv'
  BY <1>5 DEF CallInv, FreshInv, Unused, SendMail
<1>6. ASSUME NEW c \in Calls, MarkFailed(c) PROVE FreshInv'
  BY <1>6, StatusEffect DEF CallInv, FreshInv, Unused, MarkFailed, Found, Live
<1>7. ASSUME NEW c \in Calls, WriteRevoked(c) PROVE FreshInv'
  BY <1>7, StatusEffect DEF CallInv, FreshInv, Unused, WriteRevoked, Found, Live
<1>8. ASSUME NEW c \in Calls, NEW i \in Invites, Verify(c, i) PROVE FreshInv'
  BY <1>8 DEF CallInv, FreshInv, Unused, Verify, Opens, Found
<1>9. ASSUME NEW c \in Calls, NEW i \in Invites, Accept(c, i) PROVE FreshInv'
  BY <1>9 DEF CallInv, FreshInv, Unused, Accept, Opens, Found
<1>10. ASSUME NEW c \in Calls, WriteOpened(c) PROVE FreshInv'
  BY <1>10, StatusEffect DEF CallInv, FreshInv, Unused, WriteOpened, Found, Live
<1>11. ASSUME NEW c \in Calls, WriteAccepted(c) PROVE FreshInv'
  BY <1>11, StatusEffect DEF CallInv, FreshInv, Unused, WriteAccepted, Found, Live
<1>12. ASSUME NEW c \in Calls, CreateMember(c) PROVE FreshInv'
  BY <1>12 DEF CallInv, FreshInv, Unused, CreateMember
<1>13. ASSUME NEW c \in Calls, Stop(c) PROVE FreshInv'
  BY <1>13 DEF CallInv, FreshInv, Unused, Stop
<1>14. ASSUME NEW i \in Invites, Expire(i) PROVE FreshInv'
  BY <1>14, FlagEffect DEF CallInv, FreshInv, Unused, Expire
<1>15. ASSUME UNCHANGED vars PROVE FreshInv'
  BY ZenonT(40), <1>15 DEF CallInv, FreshInv, Unused, vars
<1> QED
  BY <1>1, <1>2, <1>3, <1>4, <1>5, <1>6, <1>7, <1>8, <1>9, <1>10, <1>11, <1>12, <1>13, <1>14, <1>15 DEF Next, Administer, Join

\* An invite becomes accepted by the first statement of accept only.
LEMMA AcceptedStep ==
  ASSUME Types, CallInv, FreshInv, [Next]_vars,
         NEW j \in Invites, inv'[j].acceptedAt
  PROVE  inv[j].acceptedAt \/ \E d \in Calls : call'[d] = [pc |-> "member", inv |-> j]
<1>1. ASSUME NEW c \in Calls, NEW i \in Invites, NEW email \in Emails, Create(c, i, email) PROVE inv[j].acceptedAt \/ \E d \in Calls : call'[d] = [pc |-> "member", inv |-> j]
  BY <1>1 DEF CallInv, Create, Sent, Types
<1>2. ASSUME NEW c \in Calls, NEW i \in Invites, NEW new \in Invites, Resend(c, i, new) PROVE inv[j].acceptedAt \/ \E d \in Calls : call'[d] = [pc |-> "member", inv |-> j]
  BY <1>2, ResendEffect
<1>3. ASSUME NEW c \in Calls, NEW i \in Invites, Delete(c, i) PROVE inv[j].acceptedAt \/ \E d \in Calls : call'[d] = [pc |-> "member", inv |-> j]
  BY <1>3, FlagEffect DEF CallInv, Delete
<1>4. ASSUME NEW c \in Calls, NEW i \in Invites, Revoke(c, i) PROVE inv[j].acceptedAt \/ \E d \in Calls : call'[d] = [pc |-> "member", inv |-> j]
  BY <1>4 DEF CallInv, Revoke, Live
<1>5. ASSUME NEW c \in Calls, SendMail(c) PROVE inv[j].acceptedAt \/ \E d \in Calls : call'[d] = [pc |-> "member", inv |-> j]
  BY <1>5 DEF CallInv, SendMail
<1>6. ASSUME NEW c \in Calls, MarkFailed(c) PROVE inv[j].acceptedAt \/ \E d \in Calls : call'[d] = [pc |-> "member", inv |-> j]
  BY SMTT(30), <1>6, StatusEffect DEF CallInv, MarkFailed, Live
<1>7. ASSUME NEW c \in Calls, WriteRevoked(c) PROVE inv[j].acceptedAt \/ \E d \in Calls : call'[d] = [pc |-> "member", inv |-> j]
  BY <1>7, StatusEffect DEF CallInv, WriteRevoked, Live
<1>8. ASSUME NEW c \in Calls, NEW i \in Invites, Verify(c, i) PROVE inv[j].acceptedAt \/ \E d \in Calls : call'[d] = [pc |-> "member", inv |-> j]
  BY <1>8 DEF CallInv, Verify, Opens
<1>9. ASSUME NEW c \in Calls, NEW i \in Invites, Accept(c, i) PROVE inv[j].acceptedAt \/ \E d \in Calls : call'[d] = [pc |-> "member", inv |-> j]
  BY <1>9 DEF CallInv, Accept, Opens
<1>10. ASSUME NEW c \in Calls, WriteOpened(c) PROVE inv[j].acceptedAt \/ \E d \in Calls : call'[d] = [pc |-> "member", inv |-> j]
  BY <1>10, StatusEffect DEF CallInv, WriteOpened, Live
<1>11. ASSUME NEW c \in Calls, WriteAccepted(c) PROVE inv[j].acceptedAt \/ \E d \in Calls : call'[d] = [pc |-> "member", inv |-> j]
  <2>1. call[c].inv \in Invites
    BY <1>11 DEF WriteAccepted, CallInv
  <2>2. CASE j = call[c].inv /\ Found(j)
    <3>1. call' = [call EXCEPT ![c].pc = "member"]
      BY <1>11, <2>2 DEF WriteAccepted
    <3> QED
      BY <2>2, <3>1 DEF Types, CallStates
  <2>3. CASE ~(j = call[c].inv /\ Found(j))
    BY <1>11, <2>1, <2>3, StatusEffect DEF WriteAccepted
  <2> QED
    BY <2>2, <2>3
<1>12. ASSUME NEW c \in Calls, CreateMember(c) PROVE inv[j].acceptedAt \/ \E d \in Calls : call'[d] = [pc |-> "member", inv |-> j]
  BY <1>12 DEF CallInv, CreateMember
<1>13. ASSUME NEW c \in Calls, Stop(c) PROVE inv[j].acceptedAt \/ \E d \in Calls : call'[d] = [pc |-> "member", inv |-> j]
  BY <1>13 DEF CallInv, Stop
<1>14. ASSUME NEW i \in Invites, Expire(i) PROVE inv[j].acceptedAt \/ \E d \in Calls : call'[d] = [pc |-> "member", inv |-> j]
  BY <1>14, FlagEffect DEF CallInv, Expire
<1>15. ASSUME UNCHANGED vars PROVE inv[j].acceptedAt \/ \E d \in Calls : call'[d] = [pc |-> "member", inv |-> j]
  BY ZenonT(40), <1>15 DEF CallInv, vars
<1> QED
  BY <1>1, <1>2, <1>3, <1>4, <1>5, <1>6, <1>7, <1>8, <1>9, <1>10, <1>11, <1>12, <1>13, <1>14, <1>15 DEF Next, Administer, Join

\* A request about to insert the member goes on to be so, inserts it, finds
\* the place taken, or leaves the invite stranded.
LEMMA PendingStep ==
  ASSUME Types, CallInv, FreshInv, [Next]_vars,
         NEW j \in Invites, NEW d \in Calls, call[d] = [pc |-> "member", inv |-> j]
  PROVE  call'[d] = call[d] \/ j \in stranded' \/ Taken(j) \/ j \in members'
<1>1. ASSUME NEW c \in Calls, NEW i \in Invites, NEW email \in Emails, Create(c, i, email) PROVE call'[d] = call[d] \/ j \in stranded' \/ Taken(j) \/ j \in members'
  BY <1>1 DEF Types, Create, Begin
<1>2. ASSUME NEW c \in Calls, NEW i \in Invites, NEW new \in Invites, Resend(c, i, new) PROVE call'[d] = call[d] \/ j \in stranded' \/ Taken(j) \/ j \in members'
  BY <1>2 DEF Types, Resend, Begin
<1>3. ASSUME NEW c \in Calls, NEW i \in Invites, Delete(c, i) PROVE call'[d] = call[d] \/ j \in stranded' \/ Taken(j) \/ j \in members'
  BY <1>3 DEF Types, Delete
<1>4. ASSUME NEW c \in Calls, NEW i \in Invites, Revoke(c, i) PROVE call'[d] = call[d] \/ j \in stranded' \/ Taken(j) \/ j \in members'
  BY <1>4 DEF Types, Revoke, Begin
<1>5. ASSUME NEW c \in Calls, SendMail(c) PROVE call'[d] = call[d] \/ j \in stranded' \/ Taken(j) \/ j \in members'
  BY <1>5 DEF Types, SendMail, Done
<1>6. ASSUME NEW c \in Calls, MarkFailed(c) PROVE call'[d] = call[d] \/ j \in stranded' \/ Taken(j) \/ j \in members'
  BY <1>6 DEF Types, MarkFailed, Done
<1>7. ASSUME NEW c \in Calls, WriteRevoked(c) PROVE call'[d] = call[d] \/ j \in stranded' \/ Taken(j) \/ j \in members'
  BY <1>7 DEF Types, WriteRevoked, Done
<1>8. ASSUME NEW c \in Calls, NEW i \in Invites, Verify(c, i) PROVE call'[d] = call[d] \/ j \in stranded' \/ Taken(j) \/ j \in members'
  BY <1>8 DEF Types, Verify, Begin
<1>9. ASSUME NEW c \in Calls, NEW i \in Invites, Accept(c, i) PROVE call'[d] = call[d] \/ j \in stranded' \/ Taken(j) \/ j \in members'
  BY <1>9 DEF Types, Accept, Begin
<1>10. ASSUME NEW c \in Calls, WriteOpened(c) PROVE call'[d] = call[d] \/ j \in stranded' \/ Taken(j) \/ j \in members'
  BY <1>10 DEF Types, WriteOpened, Done
<1>11. ASSUME NEW c \in Calls, WriteAccepted(c) PROVE call'[d] = call[d] \/ j \in stranded' \/ Taken(j) \/ j \in members'
  BY <1>11 DEF Types, WriteAccepted, Done
<1>12. ASSUME NEW c \in Calls, CreateMember(c) PROVE call'[d] = call[d] \/ j \in stranded' \/ Taken(j) \/ j \in members'
  BY <1>12 DEF Types, CreateMember, Done
<1>13. ASSUME NEW c \in Calls, Stop(c) PROVE call'[d] = call[d] \/ j \in stranded' \/ Taken(j) \/ j \in members'
  BY <1>13 DEF Types, Stop, Done
<1>14. ASSUME NEW i \in Invites, Expire(i) PROVE call'[d] = call[d] \/ j \in stranded' \/ Taken(j) \/ j \in members'
  BY <1>14 DEF Types, Expire
<1>15. ASSUME UNCHANGED vars PROVE call'[d] = call[d] \/ j \in stranded' \/ Taken(j) \/ j \in members'
  BY Zenon, <1>15 DEF Types, vars
<1> QED
  BY <1>1, <1>2, <1>3, <1>4, <1>5, <1>6, <1>7, <1>8, <1>9, <1>10, <1>11, <1>12, <1>13, <1>14, <1>15 DEF Next, Administer, Join

\* Members are never removed.
LEMMA MembersGrow ==
  ASSUME [Next]_vars
  PROVE  /\ members \subseteq members' /\ stranded \subseteq stranded'
         /\ members' = members \/ \E c \in Calls : CreateMember(c)
BY Zenon DEF Next, Administer, Join, vars, history, Create, Resend, Delete, Revoke, SendMail, MarkFailed, WriteRevoked,
       Verify, Accept, WriteOpened, WriteAccepted, CreateMember, Stop, Expire

\* MembersAccepted is kept by every handler of invites.
LEMMA MembersStep ==
  ASSUME Types, CallInv, FreshInv, MembersAccepted, [Next]_vars
  PROVE  MembersAccepted'
<1>e. Evolves
  BY EvolvesStep
<1>t. ASSUME NEW j \in Invites, inv[j].acceptedAt, Taken(j) PROVE Taken(j)'
  BY <1>e, <1>t, MembersGrow DEF Taken, MembersAccepted, FreshInv, Evolves, Types
<1>1. \A j \in members' : inv'[j].acceptedAt
  <2>1. CASE members' = members
    BY <1>e, <2>1 DEF MembersAccepted, Evolves, Types
  <2>2. ASSUME NEW c \in Calls, CreateMember(c) PROVE \A j \in members' : inv'[j].acceptedAt
    BY <1>e, <2>2 DEF CreateMember, MembersAccepted, CallInv, Evolves, Types
  <2> QED
    BY <2>1, <2>2, MembersGrow
<1>2. ASSUME NEW j \in Invites, inv'[j].acceptedAt, j \notin stranded', ~\E c \in Calls : call'[c] = [pc |-> "member", inv |-> j]
      PROVE  Taken(j)'
  <2>1. inv[j].acceptedAt
    BY <1>2, AcceptedStep
  <2>2. Taken(j) \/ \E d \in Calls : call[d] = [pc |-> "member", inv |-> j]
    BY <1>2, <2>1, MembersGrow DEF MembersAccepted
  <2>3. Taken(j) \/ j \in members'
    BY <1>2, <2>2, PendingStep
  <2> QED
    BY <1>t, <2>1, <2>3 DEF Taken
<1> QED
  BY <1>1, <1>2 DEF MembersAccepted

\* An address joins when it has no member, and then has one for good.
LEMMA JoinStep ==
  ASSUME Types, CallInv, FreshInv, MembersAccepted, JoinInv, [Next]_vars
  PROVE  JoinInv'
<1>e. Evolves
  BY EvolvesStep
<1>1. \A m \in members : m \in members' /\ inv'[m].email = inv[m].email
  BY <1>e, MembersGrow DEF MembersAccepted, FreshInv, Evolves, Types
<1>2. CASE joins' = joins
  BY <1>1, <1>2 DEF JoinInv
<1>3. ASSUME NEW c \in Calls, CreateMember(c), ~Taken(call[c].inv) PROVE JoinInv'
  <2> DEFINE i == call[c].inv
  <2>1. i \in Invites /\ inv[i].email \in Emails
    BY <1>3 DEF CreateMember, CallInv, Types, Rows
  <2>2. /\ members' = members \cup {i}
        /\ joins' = [joins EXCEPT ![inv[i].email] = joins[inv[i].email] + 1]
        /\ inv' = inv
    BY <1>3 DEF CreateMember
  <2>3. joins[inv[i].email] = 0
    BY Zenon, <1>3, <2>1 DEF Taken, JoinInv
  <2> HIDE DEF i
  <2> QED
    BY <2>1, <2>2, <2>3 DEF JoinInv, Types
<1>4. joins' = joins \/ \E c \in Calls : CreateMember(c) /\ ~Taken(call[c].inv)
  BY Zenon DEF Next, Administer, Join, vars, history, Create, Resend, Delete, Revoke, SendMail, MarkFailed, WriteRevoked,
         Verify, Accept, WriteOpened, WriteAccepted, CreateMember, Stop, Expire
<1> QED
  BY <1>2, <1>3, <1>4

\* A revoked invite that nobody else held at the time is out of reach of
\* every handler that writes a status.
LEMMA StandStep ==
  ASSUME Types, CallInv, FreshInv, StandInv, [Next]_vars
  PROVE  StandInv'
<1>1. ASSUME NEW c \in Calls, NEW i \in Invites, NEW email \in Emails, Create(c, i, email) PROVE StandInv'
  BY <1>1 DEF Types, CallInv, FreshInv, StandInv, Holds, Unused, Create, Begin, Sent, history
<1>2. ASSUME NEW c \in Calls, NEW i \in Invites, NEW new \in Invites, Resend(c, i, new) PROVE StandInv'
  <2>1. call' = [call EXCEPT ![c] = [pc |-> "mail", inv |-> new]] /\ i # new
    BY Zenon, <1>2, ResendEffect DEF Resend, Begin
  <2>2. raced \subseteq raced' /\ (i \notin raced' => \A d \in Calls \ {c} : ~Holds(d, i))
    BY <1>2 DEF Resend, NoteRace
  <2>3. ASSUME NEW j \in Invites, j \notin raced', inv'[j].revokedAt
        PROVE  inv'[j].status = "revoked" /\ \A d \in Calls : ~Holds(d, j)'
    <3>1. CASE j = i
      BY <1>2, <2>1, <2>2, <2>3, <3>1, ResendEffect DEF Holds, Types
    <3>2. CASE j # i
      <4>1. j # new /\ inv'[j] = inv[j]
        BY <1>2, <2>3, <3>2, ResendEffect
      <4> QED
        BY <2>1, <2>2, <2>3, <4>1 DEF StandInv, Holds, Types
    <3> QED
      BY <3>1, <3>2
  <2> QED
    BY Zenon, <2>3 DEF StandInv
<1>3. ASSUME NEW c \in Calls, NEW i \in Invites, Delete(c, i) PROVE StandInv'
  BY <1>3, FlagEffect DEF Types, CallInv, FreshInv, StandInv, Holds, Unused, Delete, Found, history
<1>4. ASSUME NEW c \in Calls, NEW i \in Invites, Revoke(c, i) PROVE StandInv'
  BY <1>4 DEF Types, CallInv, FreshInv, StandInv, Holds, Unused, Revoke, Begin, Found, Live, history
<1>5. ASSUME NEW c \in Calls, SendMail(c) PROVE StandInv'
  BY <1>5 DEF Types, CallInv, FreshInv, StandInv, Holds, Unused, SendMail, Done, NoCall, history, CallStates
<1>6. ASSUME NEW c \in Calls, MarkFailed(c) PROVE StandInv'
  BY <1>6, StatusEffect DEF Types, CallInv, FreshInv, StandInv, Holds, Unused, MarkFailed, Done, NoCall, Found, history, Live
<1>7. ASSUME NEW c \in Calls, WriteRevoked(c) PROVE StandInv'
  BY <1>7, StatusEffect DEF Types, CallInv, FreshInv, StandInv, Holds, Unused, WriteRevoked, Done, NoCall, Found, NoteRace, Live
<1>8. ASSUME NEW c \in Calls, NEW i \in Invites, Verify(c, i) PROVE StandInv'
  BY <1>8 DEF Types, CallInv, FreshInv, StandInv, Holds, Unused, Verify, Begin, Opens, Found, history
<1>9. ASSUME NEW c \in Calls, NEW i \in Invites, Accept(c, i) PROVE StandInv'
  BY <1>9 DEF Types, CallInv, FreshInv, StandInv, Holds, Unused, Accept, Begin, Opens, Found, history
<1>10. ASSUME NEW c \in Calls, WriteOpened(c) PROVE StandInv'
  BY <1>10, StatusEffect DEF Types, CallInv, FreshInv, StandInv, Holds, Unused, WriteOpened, Done, NoCall, Found, history, Live
<1>11. ASSUME NEW c \in Calls, WriteAccepted(c) PROVE StandInv'
  <2> DEFINE i == call[c].inv
  <2>1. i \in Invites /\ Holds(c, i) /\ raced' = raced
    BY <1>11 DEF WriteAccepted, CallInv, Holds, history
  <2>2. \A d \in Calls, j \in Invites : Holds(d, j)' => Holds(d, j)
    <3>1. CASE call' = [call EXCEPT ![c].pc = "member"]
      BY <2>1, <3>1 DEF Holds, Types, CallStates
    <3>2. CASE call' = [call EXCEPT ![c] = NoCall]
      BY <3>2 DEF Holds, Types, NoCall
    <3> QED
      BY <1>11, <3>1, <3>2 DEF WriteAccepted, Done
  <2>3. inv'[i].revokedAt = inv[i].revokedAt /\ \A j \in Invites : j # i => inv'[j] = inv[j]
    <3>1. SetStatus(i, "accepted")
      BY <1>11 DEF WriteAccepted
    <3>2. inv'[i].revokedAt <=> inv[i].revokedAt
      BY <2>1, <3>1, StatusEffect
    <3>3. inv'[i] \in Rows /\ inv[i] \in Rows
      BY <2>1, <3>1, StatusEffect DEF Types
    <3> QED
      BY <2>1, <3>1, <3>2, <3>3, StatusEffect DEF Rows
  <2> QED
    BY <2>1, <2>2, <2>3 DEF StandInv
<1>12. ASSUME NEW c \in Calls, CreateMember(c) PROVE StandInv'
  BY <1>12 DEF Types, CallInv, FreshInv, StandInv, Holds, Unused, CreateMember, Done, NoCall
<1>13. ASSUME NEW c \in Calls, Stop(c) PROVE StandInv'
  BY <1>13 DEF Types, CallInv, FreshInv, StandInv, Holds, Unused, Stop, Done, NoCall
<1>14. ASSUME NEW i \in Invites, Expire(i) PROVE StandInv'
  BY <1>14, FlagEffect DEF Types, CallInv, FreshInv, StandInv, Holds, Unused, Expire, history
<1>15. ASSUME UNCHANGED vars PROVE StandInv'
  BY <1>15 DEF Types, CallInv, FreshInv, StandInv, Holds, Unused, vars
<1> QED
  BY <1>1, <1>2, <1>3, <1>4, <1>5, <1>6, <1>7, <1>8, <1>9, <1>10, <1>11, <1>12, <1>13, <1>14, <1>15 DEF Next, Administer, Join

\* A request that is served, and so every membership, was counted.
CallsInv ==
    /\ calls \in 0..MaxCalls
    /\ \A c \in Calls : call[c].pc # "idle" => calls >= 1
    /\ \A e \in Emails : joins[e] # 0 => calls >= 1

\* A step counts a new request, or continues one.
LEMMA CountStep ==
  ASSUME Types, CallsInv, [Next]_vars
  PROVE  CallsInv'
<1>0. calls \in Nat /\ MaxCalls \in Nat /\ calls <= MaxCalls /\ call \in [Calls -> CallStates]
  BY InvitesAssumption DEF CallsInv, Types
<1>1. ASSUME calls < MaxCalls, calls' = calls + 1 PROVE CallsInv'
  BY <1>0, <1>1 DEF CallsInv
<1>2. ASSUME calls' = calls, \A d \in Calls : call'[d].pc # "idle" => call[d].pc # "idle",
             joins' = joins \/ \E c \in Calls : call[c].pc # "idle"
      PROVE  CallsInv'
  BY <1>2 DEF CallsInv
<1>3. ASSUME NEW c \in Calls, Done(c) PROVE calls' = calls /\ \A d \in Calls : call'[d].pc # "idle" => call[d].pc # "idle"
  BY <1>0, <1>3 DEF Done, NoCall
<1>4. ASSUME NEW c \in Calls, NEW pc, call[c].pc # "idle", call' = [call EXCEPT ![c].pc = pc]
      PROVE  \A d \in Calls : call'[d].pc # "idle" => call[d].pc # "idle"
  BY <1>0, <1>4
<1>5. ASSUME NEW c \in Calls, Administer(c) PROVE CallsInv'
  <2>1. ASSUME \/ \E i \in Invites, e \in Emails : Create(c, i, e)
               \/ \E i, new \in Invites : Resend(c, i, new)
               \/ \E i \in Invites : Delete(c, i) \/ Revoke(c, i)
        PROVE  CallsInv'
    BY Zenon, <1>1, <2>1 DEF Create, Resend, Delete, Revoke, Begin
  <2>2. ASSUME SendMail(c) PROVE CallsInv'
    <3>1. call[c].pc # "idle" /\ joins' = joins /\ (Done(c) \/ (call' = [call EXCEPT ![c].pc = "fail"] /\ calls' = calls))
      BY <2>2 DEF SendMail, history
    <3> QED
      BY Zenon, <1>2, <1>3, <1>4, <3>1
  <2>3. ASSUME MarkFailed(c) \/ WriteRevoked(c) PROVE CallsInv'
    BY Zenon, <1>2, <1>3, <2>3 DEF MarkFailed, WriteRevoked, history
  <2> QED
    BY Zenon, <1>5, <2>1, <2>2, <2>3 DEF Administer
<1>6. ASSUME NEW c \in Calls, Join(c) PROVE CallsInv'
  <2>1. ASSUME NEW i \in Invites, Verify(c, i) \/ Accept(c, i) PROVE CallsInv'
    BY Zenon, <1>1, <2>1 DEF Verify, Accept, Begin
  <2>2. ASSUME WriteOpened(c) PROVE CallsInv'
    BY Zenon, <1>2, <1>3, <2>2 DEF WriteOpened, history
  <2>3. ASSUME WriteAccepted(c) PROVE CallsInv'
    <3>1. call[c].pc # "idle" /\ joins' = joins /\ (Done(c) \/ (call' = [call EXCEPT ![c].pc = "member"] /\ calls' = calls))
      BY <2>3 DEF WriteAccepted, history
    <3> QED
      BY Zenon, <1>2, <1>3, <1>4, <3>1
  <2>4. ASSUME CreateMember(c) PROVE CallsInv'
    <3>1. call[c].pc # "idle" /\ Done(c)
      BY <2>4 DEF CreateMember
    <3> QED
      BY Zenon, <1>2, <1>3, <3>1
  <2> QED
    BY Zenon, <1>6, <2>1, <2>2, <2>3, <2>4 DEF Join
<1>7. ASSUME NEW c \in Calls, Stop(c) PROVE CallsInv'
  BY Zenon, <1>2, <1>3, <1>7 DEF Stop
<1>8. ASSUME UNCHANGED <<call, calls, joins>> PROVE CallsInv'
  BY Zenon, <1>2, <1>8
<1> QED
  BY Zenon, <1>5, <1>6, <1>7, <1>8 DEF Next, Expire, vars, history

\* The invariant holds initially and is kept by every step.
LEMMA InvitesInvariant == Spec => []InvitesInv
<1>1. ASSUME Init PROVE InvitesInv
  <2>1. PICK e \in Emails : inv = [i \in Invites |-> [Sent(e) EXCEPT !.status = "none"]]
    BY <1>1 DEF Init
  <2>2. [Sent(e) EXCEPT !.status = "none"] \in Rows
    BY Zenon DEF Sent, Rows, Live
  <2>3. \A i \in Invites : ~inv[i].acceptedAt /\ ~inv[i].revokedAt
    BY <2>1 DEF Sent
  <2>4. Types
    BY <1>1, <2>1, <2>2 DEF Init, Types, CallStates, NoCall
  <2> QED
    BY <1>1, <2>3, <2>4 DEF Init, InvitesInv, CallInv, FreshInv, MembersAccepted, JoinInv, StandInv, NoCall
<1>2. InvitesInv /\ [Next]_vars => InvitesInv'
  BY TypesStep, CallStep, FreshStep, MembersStep, JoinStep, StandStep DEF InvitesInv
<1> QED
  BY <1>1, <1>2, PTL DEF Spec

\* A member always comes from an accepted invite, and an accepted invite makes
\* its address a member unless the request ended between the two statements of
\* accept, whatever the number of invites, addresses and requests.
THEOREM AcceptanceMakesMembers == Spec => []MembersAccepted
BY InvitesInvariant, PTL DEF InvitesInv

\* The INSERT of create_member succeeds at most once for an address.
THEOREM AddressJoinsOnce == Spec => []JoinsOnce
<1>1. InvitesInv => JoinsOnce
  BY DEF InvitesInv, JoinInv, JoinsOnce
<1> QED
  BY <1>1, InvitesInvariant, PTL

\* A revocation that no running request could overtake is final.
THEOREM RevocationIsFinal == Spec => []RevocationStands
<1>1. InvitesInv => RevocationStands
  BY DEF InvitesInv, StandInv, RevocationStands
<1> QED
  BY <1>1, InvitesInvariant, PTL

\* The invites, the members and the requests on them keep their types in every
\* state of the handlers of invites.
THEOREM InviteTypeCorrect == Spec => []TypeOK
<1>1. Init => CallsInv
  BY InvitesAssumption DEF Init, CallsInv, NoCall
<1>2. CallsInv /\ InvitesInv /\ [Next]_vars => CallsInv'
  BY CountStep DEF InvitesInv
<1>3. InvitesInv /\ CallsInv => TypeOK
  <2> SUFFICES ASSUME InvitesInv, CallsInv PROVE TypeOK
    OBVIOUS
  <2>1. joins \in [Emails -> 0..MaxCalls]
    BY InvitesAssumption DEF InvitesInv, JoinInv, CallsInv, Types
  <2> QED
    BY <2>1 DEF InvitesInv, Types, TypeOK, CallsInv, CallStates
<1> QED
  BY <1>1, <1>2, <1>3, InvitesInvariant, PTL DEF Spec

=============================================================================
