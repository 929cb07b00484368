--------------------------- MODULE JwtKeys_proofs ---------------------------
(***************************************************************************)
(* Proofs about JwtKeys, for every number of keys, rotations and requests, *)
(* every interval, TTL, grace period and bound.                            *)
(*                                                                         *)
(* That the detailed specification implements BoundedStaleness rests on    *)
(* StaleInv: what a request has read of a key, or the cache holds, was     *)
(* true at a recorded time not before the read. The bound on grace periods *)
(* rests on GraceInv: the next run of the task is at most an interval      *)
(* away, and comes in time for every key that is past its grace period.    *)
(* That no rotated key is retired without a successor rests on MarkedInv:  *)
(* a key with a grace period has one, or a rotation still owes it.         *)
(***************************************************************************)
EXTENDS JwtKeys, TLAPS

-----------------------------------------------------------------------------
(* Types                                                                   *)

RotatorStates == [pc: {"idle", "mark", "insert"}, old: Keys \cup {NoKey}, kind: Kinds, expires: Nat, grace: Nat, since: Nat]
Entries == [full: BOOLEAN, ok: BOOLEAN, read: Nat, set: Nat]
VerifierStates == [pc: {"idle", "select", "fill"}, key: Keys \cup {NoKey}, ok: BOOLEAN, read: Nat]

\* A rotation or request under way works on a key, and no grace period is
\* shorter than MinGrace.
Known ==
    /\ \A r \in Rotators : rotator[r].pc # "idle" => rotator[r].old \in Keys /\ rotator[r].grace >= MinGrace
    /\ \A v \in Verifiers : verifier[v].pc # "idle" => verifier[v].key \in Keys

TypeInv == TypeOK /\ Known

\* A step writes the tables, or moves a request that presents a JWT, or
\* answers one, or is time.
KeyStep ==
    \/ \E j \in Keys, kind \in Uses, e \in Expiries : CreateKey(j, kind, e)
    \/ \E j \in Keys, e \in Expiries : UpdateKey(j, e)
    \/ \E j \in Keys : EnableKey(j) \/ DisableKey(j) \/ DeleteKey(j)
RotateStep ==
    \/ \E r \in Rotators, j \in Keys, g \in Graces : BeginRotation(r, j, g)
    \/ \E r \in Rotators : MarkOld(r) \/ InsertSuccessor(r) \/ RotationStops(r)
AskStep ==
    \/ \E v \in Verifiers, j \in Keys : CacheMiss(v, j)
    \/ \E v \in Verifiers : SelectKey(v) \/ Abandon(v)
    \/ \E j \in Keys : Evict(j)
AnswerStep ==
    \/ \E v \in Verifiers, j \in Keys : CacheHit(v, j)
    \/ \E v \in Verifiers : SelectNothing(v) \/ FillAndAnswer(v)

LEMMA StepKinds ==
  ASSUME [Next]_vars
  PROVE  \/ OnAccounts /\ Observe /\ UNCHANGED <<now, jwt, rotator, sweep, authVars, history>>
         \/ KeyStep /\ Observe /\ UNCHANGED <<accounts, now, rotator, sweep, authVars, missed, halfway, swept>>
         \/ RotateStep /\ Observe /\ UNCHANGED <<accounts, now, sweep, authVars, enabled, missed, swept>>
         \/ (Sweep \/ SweepFails) /\ Observe /\ UNCHANGED <<accounts, now, rotator, authVars, enabled, halfway>>
         \/ AskStep /\ Observe /\ UNCHANGED <<accounts, now, jwt, rotator, sweep, history>>
         \/ AnswerStep /\ UNCHANGED <<accounts, now, jwt, rotator, sweep, left, observed, history>>
         \/ Tick /\ Observe /\ UNCHANGED <<accounts, jwt, rotator, sweep, authVars, history>>
         \/ UNCHANGED vars
<1>1. OnAccounts => Observe /\ UNCHANGED <<now, jwt, rotator, sweep, authVars, history>>
  BY Zenon DEF OnAccounts
<1>2. KeyStep => Observe /\ UNCHANGED <<accounts, now, rotator, sweep, authVars, missed, halfway, swept>>
  BY Zenon DEF KeyStep, CreateKey, UpdateKey, EnableKey, DisableKey, DeleteKey, SetKey
<1>3. RotateStep => Observe /\ UNCHANGED <<accounts, now, sweep, authVars, enabled, missed, swept>>
  BY Zenon DEF RotateStep, BeginRotation, MarkOld, InsertSuccessor, RotationStops, history
<1>4. Sweep \/ SweepFails => Observe /\ UNCHANGED <<accounts, now, rotator, authVars, enabled, halfway>>
  BY Zenon DEF Sweep, SweepFails
<1>5. AskStep => Observe /\ UNCHANGED <<accounts, now, jwt, rotator, sweep, history>>
  BY Zenon DEF AskStep, CacheMiss, SelectKey, Abandon, Evict
<1>6. AnswerStep => UNCHANGED <<accounts, now, jwt, rotator, sweep, left, observed, history>>
  BY Zenon DEF AnswerStep, CacheHit, SelectNothing, FillAndAnswer, authVars
<1>7. Tick => Observe /\ UNCHANGED <<accounts, jwt, rotator, sweep, authVars, history>>
  BY Zenon DEF Tick
<1>8. OnAccounts \/ KeyStep \/ RotateStep \/ Sweep \/ SweepFails \/ AskStep \/ AnswerStep \/ Tick \/ UNCHANGED vars
  BY Zenon DEF Next, KeyStep, RotateStep, AskStep, AnswerStep
<1> QED
  BY Zenon, <1>1, <1>2, <1>3, <1>4, <1>5, <1>6, <1>7, <1>8

\* Every statement on organizations, tenants and environments writes a row of
\* its table's type.
LEMMA AccountTypes ==
  ASSUME AccountsTypeOK, AccountStep
  PROVE  AccountsTypeOK'
<1>1. /\ NewAccount \in AccountRows
      /\ \A r \in AccountRows : DeletedOrg(r) \in AccountRows /\ RestoredOrg(r) \in AccountRows /\ DeletedTenant(r) \in AccountRows
      /\ \A r \in AccountRows : [r EXCEPT !.status = "suspended"] \in AccountRows /\ [r EXCEPT !.status = "active"] \in AccountRows
  BY Zenon DEF NewAccount, AccountRows, Statuses, DeletedOrg, RestoredOrg, DeletedTenant
<1>2. ASSUME NEW r \in AccountRows, NEW o \in Orgs, SetOrg(o, r) PROVE AccountsTypeOK'
  BY Zenon, <1>2 DEF AccountsTypeOK, SetOrg
<1>3. ASSUME NEW r \in AccountRows, NEW t \in Tenants, SetTenant(t, r) PROVE AccountsTypeOK'
  BY Zenon, <1>3 DEF AccountsTypeOK, SetTenant
<1>4. (\A o \in Orgs : org[o] \in AccountRows) /\ (\A t \in Tenants : tenant[t] \in AccountRows)
  BY Zenon DEF AccountsTypeOK
<1>5. ASSUME NEW t \in Tenants, CreateEnvironment(t) \/ EnableEnvironment(t) \/ DisableEnvironment(t)
      PROVE  AccountsTypeOK'
  BY Zenon, <1>5 DEF AccountsTypeOK, CreateEnvironment, EnableEnvironment, DisableEnvironment, WithEnvStatus, SetEnv
<1> QED
  BY Zenon, <1>1, <1>2, <1>3, <1>4, <1>5 DEF AccountStep, DeleteOrg, RestoreOrg, SuspendOrg, CreateTenant, DeleteTenant,
     SuspendTenant, ReactivateTenant

\* A key is created active, without a grace period.
LEMMA NewRow ==
  ASSUME NEW kind \in Kinds, NEW e \in Nat, NEW old \in Keys \cup {NoKey}
  PROVE  /\ NewJwt(kind, e, old) \in JwtRows /\ NewJwt(kind, e, old).grace = 0
         /\ NewJwt(kind, e, old).status = "active" /\ NewJwt(kind, e, old).from = old
<1>1. NoJwt \in JwtRows /\ NoJwt.grace = 0
  BY Zenon DEF NoJwt, JwtRows, Kinds
<1> QED
  BY Zenon, <1>1 DEF NewJwt, JwtRows

\* Every row a request or the task writes has its type.
LEMMA RowTypes ==
  /\ NoJwt \in JwtRows
  /\ \A row \in JwtRows, e \in Nat :
       WithExpiry(row, e) \in JwtRows /\ SoftDeleted(row) \in JwtRows /\ [row EXCEPT !.grace = e] \in JwtRows
  /\ \A row \in JwtRows, s \in {"active", "disabled"} : WithStatus(row, s) \in JwtRows
  /\ IdleRotator \in RotatorStates /\ IdleVerifier \in VerifierStates /\ NoEntry \in Entries
  /\ NoVerdict \in [cred: Keys \cup {NoKey}, ok: BOOLEAN]
<1>1. NoJwt \in JwtRows
  BY Zenon DEF NoJwt, JwtRows, Kinds
<1>3. \A row \in JwtRows, e \in Nat :
       WithExpiry(row, e) \in JwtRows /\ SoftDeleted(row) \in JwtRows /\ [row EXCEPT !.grace = e] \in JwtRows
  BY Zenon DEF WithExpiry, SoftDeleted, JwtRows
<1>4. \A row \in JwtRows, s \in {"active", "disabled"} : WithStatus(row, s) \in JwtRows
  BY Zenon DEF WithStatus, JwtRows
<1>5. IdleRotator \in RotatorStates /\ IdleVerifier \in VerifierStates /\ NoEntry \in Entries
      /\ NoVerdict \in [cred: Keys \cup {NoKey}, ok: BOOLEAN]
  BY Zenon DEF IdleRotator, RotatorStates, IdleVerifier, VerifierStates, NoEntry, Entries, NoVerdict, Kinds
<1> QED
  BY Zenon, <1>1, <1>3, <1>4, <1>5

\* What a request may do to the row of key j: a key is born without a grace
\* period, its row and its predecessor stay, and it becomes active again only
\* when a request enables it.
RowMove(j) ==
    /\ jwt[j].status # "none" => jwt'[j].status # "none" /\ jwt'[j].from = jwt[j].from
    /\ jwt'[j].grace = jwt[j].grace \/ jwt'[j].grace = 0
    /\ jwt'[j].status = "active" /\ ~jwt'[j].deleted /\ jwt'[j].grace # 0 =>
         \/ jwt[j].status = "active" /\ ~jwt[j].deleted /\ jwt[j].grace = jwt'[j].grace /\ enabled'[j] = enabled[j]
         \/ enabled'[j] = now

LEMMA KeyMoves ==
  ASSUME TypeInv, KeyStep
  PROVE  jwt' \in [Keys -> JwtRows] /\ enabled' \in [Keys -> Nat] /\ \A j \in Keys : RowMove(j)
<1>0. jwt \in [Keys -> JwtRows] /\ enabled \in [Keys -> Nat] /\ now \in Nat /\ Uses \subseteq Kinds /\ Expiries \subseteq Nat
  BY JwtAssumption DEF TypeInv, TypeOK
<1> DEFINE Goal == jwt' \in [Keys -> JwtRows] /\ enabled' \in [Keys -> Nat] /\ \A j \in Keys : RowMove(j)
<1>1. ASSUME NEW k \in Keys, NEW row \in JwtRows, jwt' = [jwt EXCEPT ![k] = row],
             \/ jwt[k].status = "none" /\ row.grace = 0
             \/ /\ row.status # "none" /\ row.from = jwt[k].from /\ row.grace = jwt[k].grace
                /\ row.status = "active" /\ ~row.deleted => jwt[k].status = "active" /\ ~jwt[k].deleted,
             enabled' = enabled
      PROVE  Goal
  BY Zenon, <1>0, <1>1 DEF RowMove
<1>2. ASSUME NEW k \in Keys, NEW kind \in Uses, NEW e \in Expiries, CreateKey(k, kind, e) PROVE Goal
  <2>1. kind \in Kinds /\ e \in Nat /\ NoKey \in Keys \cup {NoKey}
    BY Zenon, <1>0
  <2>2. NewJwt(kind, e, NoKey) \in JwtRows /\ NewJwt(kind, e, NoKey).grace = 0
    BY Zenon, <2>1, NewRow
  <2>3. jwt' = [jwt EXCEPT ![k] = NewJwt(kind, e, NoKey)] /\ jwt[k].status = "none" /\ enabled' = enabled
    BY Zenon, <1>2 DEF CreateKey, SetKey, Unused
  <2> QED
    BY Zenon, <1>1, <2>2, <2>3
<1>3. ASSUME NEW k \in Keys, NEW e \in Expiries, UpdateKey(k, e) PROVE Goal
  <2>1. jwt[k] \in JwtRows /\ jwt[k].status # "none" /\ e \in Nat /\ enabled' = enabled /\ jwt' = [jwt EXCEPT ![k] = WithExpiry(jwt[k], e)]
    BY Zenon, <1>0, <1>3 DEF UpdateKey, SetKey, Found
  <2>2. WithExpiry(jwt[k], e) \in JwtRows
    BY Zenon, <2>1, RowTypes
  <2>3. /\ WithExpiry(jwt[k], e).status = jwt[k].status /\ WithExpiry(jwt[k], e).from = jwt[k].from
        /\ WithExpiry(jwt[k], e).grace = jwt[k].grace /\ WithExpiry(jwt[k], e).deleted = jwt[k].deleted
    BY Zenon, <2>1 DEF WithExpiry, JwtRows
  <2> HIDE DEF Goal
  <2> QED
    BY Zenon, <1>1, <2>1, <2>2, <2>3
<1>4. ASSUME NEW k \in Keys, DisableKey(k) PROVE Goal
  <2>1. jwt[k] \in JwtRows /\ enabled' = enabled /\ jwt' = [jwt EXCEPT ![k] = WithStatus(jwt[k], "disabled")]
    BY Zenon, <1>0, <1>4 DEF DisableKey, SetKey
  <2>2. WithStatus(jwt[k], "disabled") \in JwtRows
    BY Zenon, <2>1, RowTypes
  <2>3. LET row == WithStatus(jwt[k], "disabled") IN row.status = "disabled" /\ row.from = jwt[k].from /\ row.grace = jwt[k].grace
    BY Zenon, <2>1 DEF WithStatus, JwtRows
  <2> HIDE DEF Goal
  <2> QED
    BY Zenon, <1>1, <2>1, <2>2, <2>3
<1>5. ASSUME NEW k \in Keys, DeleteKey(k) PROVE Goal
  <2>1. jwt[k] \in JwtRows /\ jwt[k].status # "none" /\ enabled' = enabled /\ jwt' = [jwt EXCEPT ![k] = SoftDeleted(jwt[k])]
    BY Zenon, <1>0, <1>5 DEF DeleteKey, SetKey, Found
  <2>2. SoftDeleted(jwt[k]) \in JwtRows
    BY Zenon, <1>0, <2>1, RowTypes
  <2>3. LET row == SoftDeleted(jwt[k]) IN
          row.status = jwt[k].status /\ row.deleted /\ row.from = jwt[k].from /\ row.grace = jwt[k].grace
    BY Zenon, <2>1 DEF SoftDeleted, JwtRows
  <2> HIDE DEF Goal
  <2> QED
    BY Zenon, <1>1, <2>1, <2>2, <2>3
<1>6. ASSUME NEW k \in Keys, EnableKey(k) PROVE Goal
  <2>1. /\ jwt[k] \in JwtRows /\ jwt[k].status # "none" /\ enabled' = [enabled EXCEPT ![k] = now]
        /\ jwt' = [jwt EXCEPT ![k] = WithStatus(jwt[k], "active")]
    BY Zenon, <1>0, <1>6 DEF EnableKey, SetKey, Found
  <2>2. WithStatus(jwt[k], "active") \in JwtRows
    BY Zenon, <2>1, RowTypes
  <2>3. LET row == WithStatus(jwt[k], "active") IN row.status = "active" /\ row.from = jwt[k].from /\ row.grace = jwt[k].grace
    BY Zenon, <2>1 DEF WithStatus, JwtRows
  <2> QED
    BY Zenon, <1>0, <2>1, <2>2, <2>3 DEF RowMove
<1> HIDE DEF Goal
<1>7. Goal
  BY Zenon, <1>2, <1>3, <1>4, <1>5, <1>6 DEF KeyStep
<1> QED
  BY Zenon, <1>7 DEF Goal

\* What rotate does to the row of key j: the row and its predecessor stay, and
\* a grace period that is written lasts from the start of the rotation.
RotateMove(j) ==
    /\ jwt[j].status # "none" => jwt'[j].status # "none" /\ jwt'[j].from = jwt[j].from
    /\ \/ jwt'[j] = jwt[j] \/ jwt'[j].grace = 0
       \/ \E r \in Rotators : rotator[r].pc = "mark" /\ rotator[r].since + MinGrace <= jwt'[j].grace

RotatorMoves(r, m) == rotator' = [rotator EXCEPT ![r] = m]

\* The four steps of a rotation, by what they leave.
LEMMA BeginMoves ==
  ASSUME TypeInv, NEW r \in Rotators, NEW j \in Keys, NEW g \in Graces, BeginRotation(r, j, g)
  PROVE  /\ jwt' = jwt /\ halfway' = halfway
         /\ \E m \in RotatorStates : RotatorMoves(r, m) /\ m.pc = "mark" /\ m.old = j /\ m.grace >= MinGrace /\ m.since = now
<1>1. jwt[j] \in JwtRows /\ g \in Nat /\ now \in Nat /\ MinGrace \in Nat /\ MaxGrace \in Nat /\ MinGrace <= MaxGrace
  BY JwtAssumption DEF TypeInv, TypeOK
<1>2. Clamp(g) \in Nat /\ Clamp(g) >= MinGrace
  BY <1>1 DEF Clamp
<1> DEFINE m == [pc |-> "mark", old |-> j, kind |-> jwt[j].kind, expires |-> jwt[j].expires, grace |-> Clamp(g), since |-> now]
<1>3. m \in RotatorStates /\ m.pc = "mark" /\ m.old = j /\ m.grace >= MinGrace /\ m.since = now
  BY Zenon, <1>1, <1>2 DEF RotatorStates, JwtRows
<1>4. RotatorMoves(r, m) /\ jwt' = jwt /\ halfway' = halfway
  BY Zenon DEF BeginRotation, RotatorMoves, history
<1> QED
  BY Zenon, <1>3, <1>4

LEMMA MarkMoves ==
  ASSUME TypeInv, NEW r \in Rotators, MarkOld(r)
  PROVE  /\ rotator[r].pc = "mark" /\ rotator[r].old \in Keys /\ halfway' = halfway /\ jwt' \in [Keys -> JwtRows]
         /\ \A j \in Keys : j # rotator[r].old => jwt'[j] = jwt[j]
         /\ LET j == rotator[r].old IN
              \/ jwt'[j] = jwt[j]
              \/ \E n \in Nat : /\ rotator[r].since + MinGrace <= n
                               /\ jwt[j].status # "none" /\ jwt'[j] = [jwt[j] EXCEPT !.grace = n]
         /\ \E m \in RotatorStates :
              /\ RotatorMoves(r, m) /\ m.pc = "insert" /\ m.old = rotator[r].old
              /\ m.grace >= MinGrace /\ m.since = rotator[r].since
<1>1. /\ rotator[r] \in RotatorStates /\ now \in Nat /\ rotator \in [Rotators -> RotatorStates] /\ jwt \in [Keys -> JwtRows]
      /\ rotator[r].pc = "mark" /\ rotator[r].old \in Keys /\ rotator[r].grace >= MinGrace
      /\ rotator[r].since \in Nat /\ rotator[r].grace \in Nat /\ MinGrace \in Nat
  BY JwtAssumption DEF TypeInv, TypeOK, Known, MarkOld, RotatorStates
<1> DEFINE m == [rotator[r] EXCEPT !.pc = "insert"]
           j == rotator[r].old
<1>2. /\ m \in RotatorStates /\ m.pc = "insert" /\ m.old = rotator[r].old
      /\ m.grace >= MinGrace /\ m.since = rotator[r].since
  BY Zenon, <1>1 DEF RotatorStates
<1>3. RotatorMoves(r, m) /\ halfway' = halfway
  BY Zenon, <1>1 DEF MarkOld, RotatorMoves, history
<1>a. PICK at \in rotator[r].since..now : jwt' = IF Found(j) THEN [jwt EXCEPT ![j].grace = at + rotator[r].grace] ELSE jwt
  BY Zenon DEF MarkOld
<1>n. PICK n \in Nat : n = at + rotator[r].grace
  BY <1>1
<1>4. jwt' = jwt \/ (jwt[j].status # "none" /\ jwt' = [jwt EXCEPT ![j] = [jwt[j] EXCEPT !.grace = n]])
  BY Zenon, <1>a, <1>n DEF Found
<1>5. rotator[r].since + MinGrace <= n /\ jwt[j] \in JwtRows
  BY <1>1, <1>n
<1>6. [jwt[j] EXCEPT !.grace = n] \in JwtRows
  BY Zenon, <1>5, RowTypes
<1>7. jwt' \in [Keys -> JwtRows]
  BY Zenon, <1>1, <1>4, <1>6
<1> HIDE DEF m
<1>8. \A i \in Keys : i # j => jwt'[i] = jwt[i]
  BY Zenon, <1>1, <1>4
<1>9. jwt'[j] = jwt[j] \/ (jwt[j].status # "none" /\ jwt'[j] = [jwt[j] EXCEPT !.grace = n])
  BY Zenon, <1>1, <1>4
<1> QED
  BY Zenon, <1>1, <1>2, <1>3, <1>5, <1>7, <1>8, <1>9

LEMMA InsertMoves ==
  ASSUME TypeInv, NEW r \in Rotators, InsertSuccessor(r)
  PROVE  /\ rotator[r].pc = "insert" /\ halfway' = halfway /\ jwt' \in [Keys -> JwtRows] /\ RotatorMoves(r, IdleRotator)
         /\ \E s \in Keys :
              /\ jwt[s].status = "none" /\ jwt'[s].status = "active" /\ jwt'[s].grace = 0 /\ jwt'[s].from = rotator[r].old
              /\ \A j \in Keys : j # s => jwt'[j] = jwt[j]
<1>1. rotator[r].pc = "insert" /\ halfway' = halfway /\ RotatorMoves(r, IdleRotator)
  BY Zenon DEF InsertSuccessor, RotatorMoves, history
<1>2. rotator[r].kind \in Kinds /\ rotator[r].expires \in Nat /\ rotator[r].old \in Keys \cup {NoKey} /\ jwt \in [Keys -> JwtRows]
  BY Zenon DEF TypeInv, TypeOK
<1>3. PICK s \in Keys : jwt[s].status = "none" /\ jwt' = [jwt EXCEPT ![s] = NewJwt(rotator[r].kind, rotator[r].expires, rotator[r].old)]
  BY Zenon DEF InsertSuccessor, Unused
<1> DEFINE row == NewJwt(rotator[r].kind, rotator[r].expires, rotator[r].old)
<1>4. row \in JwtRows /\ row.grace = 0 /\ row.status = "active" /\ row.from = rotator[r].old
  BY Zenon, <1>2, NewRow
<1> HIDE DEF row
<1>5. jwt' = [jwt EXCEPT ![s] = row]
  BY Zenon, <1>3 DEF row
<1>6. jwt' \in [Keys -> JwtRows] /\ jwt'[s] = row /\ \A j \in Keys : j # s => jwt'[j] = jwt[j]
  BY Zenon, <1>2, <1>4, <1>5
<1> QED
  BY Zenon, <1>1, <1>3, <1>4, <1>6

LEMMA StopMoves ==
  ASSUME NEW r \in Rotators, RotationStops(r)
  PROVE  /\ jwt' = jwt /\ RotatorMoves(r, IdleRotator) /\ rotator[r].pc # "idle"
         /\ halfway' = IF rotator[r].pc = "insert" THEN halfway \cup {rotator[r].old} ELSE halfway
  BY Zenon DEF RotationStops, RotatorMoves

LEMMA RotateTypes ==
  ASSUME TypeInv, RotateStep
  PROVE  /\ jwt' \in [Keys -> JwtRows] /\ rotator' \in [Rotators -> RotatorStates] /\ halfway' \subseteq Keys
         /\ \A r \in Rotators : rotator'[r].pc # "idle" => rotator'[r].old \in Keys /\ rotator'[r].grace >= MinGrace
         /\ \A j \in Keys : RotateMove(j)
<1>0. /\ rotator \in [Rotators -> RotatorStates] /\ jwt \in [Keys -> JwtRows] /\ halfway \subseteq Keys /\ now \in Nat
      /\ \A r \in Rotators : rotator[r].pc # "idle" => rotator[r].old \in Keys /\ rotator[r].grace >= MinGrace
      /\ \A r \in Rotators : rotator[r].grace \in Nat
  BY DEF TypeInv, TypeOK, Known, RotatorStates
<1> DEFINE Live(m) == m.pc # "idle" => m.old \in Keys /\ m.grace >= MinGrace
<1>1. ASSUME NEW r \in Rotators, NEW m \in RotatorStates, RotatorMoves(r, m), Live(m)
      PROVE  rotator' \in [Rotators -> RotatorStates] /\ \A q \in Rotators : Live(rotator'[q])
  BY Zenon, <1>0, <1>1 DEF RotatorMoves
<1>2. IdleRotator \in RotatorStates /\ Live(IdleRotator)
  BY Zenon, RowTypes DEF IdleRotator
<1>3. ASSUME jwt' = jwt PROVE jwt' \in [Keys -> JwtRows] /\ \A j \in Keys : RotateMove(j)
  BY Zenon, <1>0, <1>3 DEF RotateMove
<1>4. ASSUME NEW r \in Rotators, NEW j \in Keys, NEW g \in Graces, BeginRotation(r, j, g)
      PROVE  /\ jwt' = jwt /\ halfway' = halfway /\ \E m \in RotatorStates : RotatorMoves(r, m) /\ Live(m)
  BY Zenon, <1>4, BeginMoves
<1>5. ASSUME NEW r \in Rotators, MarkOld(r)
      PROVE  /\ jwt' \in [Keys -> JwtRows] /\ halfway' = halfway /\ \E m \in RotatorStates : RotatorMoves(r, m) /\ Live(m)
             /\ \A j \in Keys : RotateMove(j)
  <2>1. \E m \in RotatorStates : RotatorMoves(r, m) /\ Live(m)
    BY Zenon, <1>5, MarkMoves
  <2> DEFINE k == rotator[r].old
  <2>2. /\ k \in Keys /\ rotator[r].pc = "mark" /\ halfway' = halfway /\ jwt' \in [Keys -> JwtRows]
        /\ \A j \in Keys : j # k => jwt'[j] = jwt[j]
        /\ \/ jwt'[k] = jwt[k]
           \/ \E n \in Nat : /\ rotator[r].since + MinGrace <= n
                            /\ jwt[k].status # "none" /\ jwt'[k] = [jwt[k] EXCEPT !.grace = n]
    BY Zenon, <1>5, MarkMoves
  <2>3. ASSUME NEW j \in Keys PROVE RotateMove(j)
    <3>1. CASE jwt'[j] = jwt[j]
      BY Zenon, <1>0, <3>1 DEF RotateMove
    <3>2. CASE jwt'[j] # jwt[j]
      <4>1. j = k /\ \E n \in Nat : /\ rotator[r].since + MinGrace <= n
                                     /\ jwt[j].status # "none" /\ jwt'[j] = [jwt[j] EXCEPT !.grace = n]
        BY Zenon, <2>2, <3>2
      <4>2. PICK n \in Nat : rotator[r].since + MinGrace <= n /\ jwt[j].status # "none" /\ jwt'[j] = [jwt[j] EXCEPT !.grace = n]
        BY Zenon, <4>1
      <4>3. jwt'[j].grace = n /\ jwt'[j].status = jwt[j].status /\ jwt'[j].from = jwt[j].from
        <5>1. jwt[j] \in JwtRows
          BY Zenon, <1>0
        <5> QED
          BY Zenon, <5>1, <4>2 DEF JwtRows
      <4> QED
        BY Zenon, <2>2, <4>2, <4>3 DEF RotateMove
    <3> QED
      BY Zenon, <3>1, <3>2
  <2> QED
    BY Zenon, <2>1, <2>2, <2>3
<1>6. ASSUME NEW r \in Rotators, InsertSuccessor(r)
      PROVE  jwt' \in [Keys -> JwtRows] /\ halfway' = halfway /\ RotatorMoves(r, IdleRotator) /\ \A j \in Keys : RotateMove(j)
  <2>1. jwt' \in [Keys -> JwtRows] /\ halfway' = halfway /\ RotatorMoves(r, IdleRotator)
    BY Zenon, <1>6, InsertMoves
  <2>2. PICK s \in Keys : /\ jwt[s].status = "none" /\ jwt'[s].grace = 0 
                          /\ \A j \in Keys : j # s => jwt'[j] = jwt[j]
    BY Zenon, <1>6, InsertMoves
  <2> QED
    BY Zenon, <2>1, <2>2 DEF RotateMove
<1>7. ASSUME NEW r \in Rotators, RotationStops(r)
      PROVE  jwt' = jwt /\ halfway' \subseteq Keys /\ RotatorMoves(r, IdleRotator)
  BY Zenon, <1>0, <1>7, StopMoves
<1> HIDE DEF Live
<1>8. \A r \in Rotators : Live(rotator'[r])
  BY Zenon, <1>1, <1>2, <1>4, <1>5, <1>6, <1>7 DEF RotateStep
<1>9. jwt' \in [Keys -> JwtRows] /\ rotator' \in [Rotators -> RotatorStates] /\ halfway' \subseteq Keys
  BY Zenon, <1>0, <1>1, <1>2, <1>3, <1>4, <1>5, <1>6, <1>7 DEF RotateStep
<1>10. \A j \in Keys : RotateMove(j)
  BY Zenon, <1>3, <1>4, <1>5, <1>6, <1>7 DEF RotateStep
<1> QED
  BY Zenon, <1>8, <1>9, <1>10 DEF Live

\* The task: a run disables what is past its grace period and nothing else.
LEMMA SweepMoves ==
  ASSUME TypeInv, Sweep \/ SweepFails
  PROVE  /\ jwt' \in [Keys -> JwtRows] /\ swept' \subseteq Keys /\ sweep' = sweep + Period /\ now >= sweep
         /\ missed' \in Nat /\ \/ Sweep /\ missed' = missed
                               \/ SweepFails /\ missed' = missed + 1 /\ swept' = swept /\ jwt' = jwt
         /\ Sweep => \A j \in Keys : ~PastGrace(j)'
         /\ \A j \in Keys : jwt'[j].grace = jwt[j].grace /\ jwt'[j].from = jwt[j].from
         /\ \A j \in Keys : jwt[j].status # "none" => jwt'[j].status # "none"
         /\ \A j \in Keys : jwt'[j].status = "active" => jwt'[j] = jwt[j]
         /\ \A j \in swept' : j \in swept \/ PastGrace(j)
<1>0. jwt \in [Keys -> JwtRows] /\ missed \in Nat /\ swept \subseteq Keys
  BY Zenon DEF TypeInv, TypeOK
<1>1. CASE SweepFails
  BY <1>0, <1>1 DEF SweepFails, Sweep
<1>2. CASE Sweep
  <2>1. /\ sweep' = sweep + Period /\ now >= sweep /\ missed' = missed /\ now' = now
        /\ swept' = swept \cup {j \in Keys : PastGrace(j)}
        /\ jwt' = [j \in Keys |-> IF PastGrace(j) THEN [jwt[j] EXCEPT !.status = "disabled"] ELSE jwt[j]]
    BY Zenon, <1>2 DEF Sweep
  <2>2. ASSUME NEW j \in Keys PROVE [jwt[j] EXCEPT !.status = "disabled"] \in JwtRows
    BY Zenon, <1>0 DEF JwtRows
  <2>3. jwt' \in [Keys -> JwtRows] /\ swept' \subseteq Keys
    BY Zenon, <1>0, <2>1, <2>2
  <2>4. ASSUME NEW j \in Keys
        PROVE  /\ jwt'[j].grace = jwt[j].grace /\ jwt'[j].from = jwt[j].from
               /\ jwt[j].status # "none" => jwt'[j].status # "none"
               /\ jwt'[j].status = "active" => jwt'[j] = jwt[j] /\ ~PastGrace(j)
    BY Zenon, <1>0, <2>1 DEF JwtRows
  <2>5. ASSUME NEW j \in Keys PROVE ~PastGrace(j)'
    BY Zenon, <2>1, <2>4 DEF PastGrace
  <2> QED
    BY Zenon, <1>0, <1>2, <2>1, <2>3, <2>4, <2>5
<1> QED
  BY Zenon, <1>1, <1>2

\* Requests that present a JWT, and the cache.
LEMMA AuthTypes ==
  ASSUME TypeInv, AskStep \/ AnswerStep
  PROVE  /\ cache' \in [Keys -> Entries] /\ verifier' \in [Verifiers -> VerifierStates]
         /\ \A v \in Verifiers : verifier'[v].pc # "idle" => verifier'[v].key \in Keys
<1>0. /\ cache \in [Keys -> Entries] /\ verifier \in [Verifiers -> VerifierStates] /\ now \in Nat
      /\ \A v \in Verifiers : verifier[v].pc # "idle" => verifier[v].key \in Keys
  BY DEF TypeInv, TypeOK, Known, Entries, VerifierStates
<1> DEFINE Moves(v, m) == verifier' = [verifier EXCEPT ![v] = m]
           Live(m) == m.pc # "idle" => m.key \in Keys
           Goal == cache' \in [Keys -> Entries] /\ verifier' \in [Verifiers -> VerifierStates] /\ \A v \in Verifiers : Live(verifier'[v])
<1>1. ASSUME NEW v \in Verifiers, NEW m \in VerifierStates, Moves(v, m), Live(m), cache' \in [Keys -> Entries] PROVE Goal
  BY Zenon, <1>0, <1>1
<1>2. ASSUME verifier' = verifier, cache' \in [Keys -> Entries] PROVE Goal
  BY Zenon, <1>0, <1>2
<1>3. IdleVerifier \in VerifierStates /\ IdleVerifier.pc = "idle" /\ NoEntry \in Entries
  BY Zenon, RowTypes DEF IdleVerifier
<1>4. ASSUME NEW v \in Verifiers, NEW j \in Keys, CacheMiss(v, j) PROVE Goal
  <2> DEFINE m == [IdleVerifier EXCEPT !.pc = "select", !.key = j]
  <2>1. m \in VerifierStates /\ Live(m)
    BY Zenon, <1>3 DEF VerifierStates
  <2>2. Moves(v, m) /\ cache' = cache
    BY Zenon, <1>4 DEF CacheMiss
  <2> HIDE DEF m, Moves, Live, Goal
  <2> QED
    BY Zenon, <1>0, <1>1, <2>1, <2>2
<1>5. ASSUME NEW v \in Verifiers, SelectKey(v) PROVE Goal
  <2> DEFINE m == [verifier[v] EXCEPT !.pc = "fill", !.ok = Accepts(verifier[v].key), !.read = now]
  <2>1. Accepts(verifier[v].key) \in BOOLEAN /\ verifier[v] \in VerifierStates /\ verifier[v].key \in Keys
    BY Zenon, <1>0, <1>5 DEF Accepts, SelectKey
  <2>2. m \in VerifierStates /\ Live(m)
    BY Zenon, <1>0, <2>1 DEF VerifierStates
  <2>3. Moves(v, m) /\ cache' = cache
    BY Zenon, <1>0, <1>5 DEF SelectKey
  <2> HIDE DEF m, Moves, Live, Goal
  <2> QED
    BY Zenon, <1>0, <1>1, <2>2, <2>3
<1>6. ASSUME NEW v \in Verifiers, SelectNothing(v) \/ Abandon(v) PROVE Goal
  <2>1. Moves(v, IdleVerifier) /\ cache' = cache
    BY Zenon, <1>6 DEF SelectNothing, Abandon
  <2> HIDE DEF Moves, Goal
  <2> QED
    BY Zenon, <1>0, <1>1, <1>3, <2>1
<1>7. ASSUME NEW v \in Verifiers, FillAndAnswer(v) PROVE Goal
  <2>1. Moves(v, IdleVerifier) /\ verifier[v] \in VerifierStates
    BY Zenon, <1>0, <1>7 DEF FillAndAnswer
  <2>2. [full |-> TRUE, ok |-> verifier[v].ok, read |-> verifier[v].read, set |-> now] \in Entries
    BY Zenon, <1>0, <2>1 DEF VerifierStates, Entries
  <2>3. cache' \in [Keys -> Entries]
    BY Zenon, <1>0, <1>7, <2>2 DEF FillAndAnswer, SetEx
  <2> HIDE DEF Moves, Goal
  <2> QED
    BY Zenon, <1>1, <1>3, <2>1, <2>3
<1>8. ASSUME NEW j \in Keys, Evict(j) PROVE Goal
  <2>1. verifier' = verifier /\ cache' \in [Keys -> Entries]
    BY Zenon, <1>0, <1>3, <1>8 DEF Evict
  <2> HIDE DEF Goal
  <2> QED
    BY Zenon, <1>2, <2>1
<1>9. ASSUME NEW v \in Verifiers, NEW j \in Keys, CacheHit(v, j) PROVE Goal
  <2>1. verifier' = verifier /\ cache' = cache
    BY Zenon, <1>9 DEF CacheHit, authVars
  <2> HIDE DEF Goal
  <2> QED
    BY Zenon, <1>0, <1>2, <2>1
<1> HIDE DEF Goal
<1>10. Goal
  BY Zenon, <1>4, <1>5, <1>6, <1>7, <1>8, <1>9 DEF AskStep, AnswerStep
<1> QED
  BY Zenon, <1>10 DEF Goal

\* Every step spends one operation of some kind or none.
LEMMA BudgetType ==
  ASSUME TypeInv, [Next]_vars
  PROVE  left' \in [Operations -> Nat]
<1>1. left' = left \/ \E x \in Operations : Spend(x)
  <2>1. {"account", "key", "rotate", "lookup", "fault", "tick"} = Operations
    BY Zenon DEF Operations
  <2>2. OnAccounts \/ KeyStep \/ Tick => \E x \in Operations : Spend(x)
    BY Zenon, <2>1 DEF OnAccounts, KeyStep, CreateKey, UpdateKey, EnableKey, DisableKey, DeleteKey, SetKey, Tick
  <2>3. RotateStep \/ Sweep \/ SweepFails => left' = left \/ \E x \in Operations : Spend(x)
    BY Zenon, <2>1 DEF RotateStep, BeginRotation, MarkOld, InsertSuccessor, RotationStops, Sweep, SweepFails
  <2>4. AskStep => left' = left \/ \E x \in Operations : Spend(x)
    <3>1. ASSUME NEW j \in Keys, Evict(j) PROVE left' = left
      BY Zenon, <3>1 DEF Evict
    <3>2. ASSUME NEW v \in Verifiers, SelectKey(v) \/ Abandon(v) PROVE left' = left
      BY Zenon, <3>2 DEF SelectKey, Abandon
    <3> QED
      BY Zenon, <2>1, <3>1, <3>2 DEF AskStep, CacheMiss
  <2> QED
    BY Zenon, <2>2, <2>3, <2>4, StepKinds DEF vars
<1>2. ASSUME NEW x \in Operations, Spend(x) PROVE left' \in [Operations -> Nat]
  BY <1>2 DEF TypeInv, TypeOK, Spend
<1> QED
  BY Zenon, <1>1, <1>2 DEF TypeInv, TypeOK

\* The clock and what is recorded of validity.
LEMMA HistoryTypes ==
  ASSUME TypeInv, [Next]_vars
  PROVE  /\ now' \in 1..MaxTime /\ now' \in {now, now + 1}
         /\ lastOk' \in [Keys -> Nat] /\ lastBad' \in [Keys -> Nat]
         /\ verdict' \in [cred: Keys \cup {NoKey}, ok: BOOLEAN]
<1>1. /\ now \in 1..MaxTime /\ lastOk \in [Keys -> Nat] /\ lastBad \in [Keys -> Nat]
      /\ verdict \in [cred: Keys \cup {NoKey}, ok: BOOLEAN] /\ MaxTime \in Nat
  BY Zenon, JwtAssumption DEF TypeInv, TypeOK
<1>2. now' \in 1..MaxTime /\ now' \in {now, now + 1}
  <2>1. ASSUME Tick PROVE now' \in 1..MaxTime /\ now' = now + 1
    BY <1>1, <2>1 DEF Tick
  <2>2. now' = now \/ Tick
    BY Zenon, StepKinds DEF vars
  <2> QED
    BY Zenon, <1>1, <2>1, <2>2
<1>3. ASSUME Observe PROVE lastOk' \in [Keys -> Nat] /\ lastBad' \in [Keys -> Nat]
  <2>1. now' \in Nat
    BY <1>1, <1>2
  <2> QED
    BY Zenon, <1>1, <1>3, <2>1 DEF Observe
<1>5. ASSUME AnswerStep PROVE verdict' \in [cred: Keys \cup {NoKey}, ok: BOOLEAN]
  <2>1. PICK j \in Keys, ok \in BOOLEAN : verdict' = [cred |-> j, ok |-> ok]
    <3>1. ASSUME NEW v \in Verifiers, SelectNothing(v) \/ FillAndAnswer(v)
          PROVE  verifier[v].key \in Keys /\ verifier[v].ok \in BOOLEAN
      BY Zenon, <3>1 DEF TypeInv, TypeOK, Known, SelectNothing, FillAndAnswer
    <3>2. \A j \in Keys : cache[j].ok \in BOOLEAN
      BY Zenon DEF TypeInv, TypeOK
    <3>3. FALSE \in BOOLEAN
      OBVIOUS
    <3> QED
      BY Zenon, <1>5, <3>1, <3>2, <3>3 DEF AnswerStep, CacheHit, SelectNothing, FillAndAnswer, Decide
  <2> QED
    BY Zenon, <2>1
<1>6. lastOk' \in [Keys -> Nat] /\ lastBad' \in [Keys -> Nat]
  BY Zenon, <1>1, <1>3, StepKinds DEF vars, observed
<1>7. verdict' \in [cred: Keys \cup {NoKey}, ok: BOOLEAN]
  BY Zenon, <1>1, <1>5, RowTypes, StepKinds DEF vars, Observe
<1> QED
  BY Zenon, <1>2, <1>6, <1>7

\* The tables, the rotations, the task and its history.
LEMMA TableTypes ==
  ASSUME TypeInv, [Next]_vars
  PROVE  /\ AccountsTypeOK' /\ jwt' \in [Keys -> JwtRows] /\ rotator' \in [Rotators -> RotatorStates] /\ sweep' \in Nat
         /\ \A r \in Rotators : rotator'[r].pc # "idle" => rotator'[r].old \in Keys /\ rotator'[r].grace >= MinGrace
         /\ enabled' \in [Keys -> Nat] /\ missed' \in Nat /\ halfway' \subseteq Keys /\ swept' \subseteq Keys
<1>0. /\ AccountsTypeOK /\ jwt \in [Keys -> JwtRows] /\ rotator \in [Rotators -> RotatorStates] /\ sweep \in Nat
      /\ \A r \in Rotators : rotator[r].pc # "idle" => rotator[r].old \in Keys /\ rotator[r].grace >= MinGrace
      /\ enabled \in [Keys -> Nat] /\ missed \in Nat /\ halfway \subseteq Keys /\ swept \subseteq Keys
  BY Zenon DEF TypeInv, TypeOK, Known, RotatorStates
<1>1. AccountsTypeOK'
  <2>1. ASSUME UNCHANGED accounts PROVE AccountsTypeOK'
    BY Zenon, <1>0, <2>1 DEF AccountsTypeOK, accounts
  <2> QED
    BY Zenon, <1>0, <2>1, AccountTypes, StepKinds DEF OnAccounts, vars, accounts
<1>2. sweep' \in Nat
  <2>1. ASSUME Sweep \/ SweepFails PROVE sweep' \in Nat
    BY <1>0, <2>1, JwtAssumption DEF Sweep, SweepFails
  <2> QED
    BY Zenon, <1>0, <2>1, StepKinds DEF vars
<1>3. jwt' \in [Keys -> JwtRows]
  BY Zenon, <1>0, KeyMoves, RotateTypes, SweepMoves, StepKinds DEF vars
<1>4. enabled' \in [Keys -> Nat]
  BY Zenon, <1>0, KeyMoves, StepKinds DEF vars, history
<1>5. missed' \in Nat /\ swept' \subseteq Keys
  BY Zenon, <1>0, SweepMoves, StepKinds DEF vars, history
<1>6. halfway' \subseteq Keys
  BY Zenon, <1>0, RotateTypes, StepKinds DEF vars, history
<1>7. /\ rotator' \in [Rotators -> RotatorStates]
      /\ \A r \in Rotators : rotator'[r].pc # "idle" => rotator'[r].old \in Keys /\ rotator'[r].grace >= MinGrace
  BY Zenon, <1>0, RotateTypes, StepKinds DEF vars
<1> QED
  BY Zenon, <1>1, <1>2, <1>3, <1>4, <1>5, <1>6, <1>7

LEMMA InitTypes == Init => TypeInv
<1> SUFFICES ASSUME Init PROVE TypeInv
  OBVIOUS
<1>1. NewAccount \in AccountRows
  BY Zenon DEF NewAccount, AccountRows, Statuses
<1>2. AccountsTypeOK
  BY Zenon, <1>1 DEF Init, AccountsTypeOK
<1>3. now \in 1..MaxTime /\ left \in [Operations -> Nat]
  BY JwtAssumption DEF Init
<1>4. /\ jwt \in [Keys -> JwtRows] /\ rotator \in [Rotators -> RotatorStates] /\ cache \in [Keys -> Entries]
      /\ verifier \in [Verifiers -> VerifierStates] /\ verdict \in [cred: Keys \cup {NoKey}, ok: BOOLEAN]
  BY Zenon, RowTypes DEF Init
<1>5. IdleRotator.pc = "idle" /\ IdleVerifier.pc = "idle"
  BY Zenon DEF IdleRotator, IdleVerifier
<1>6. Known
  BY Zenon, <1>5 DEF Init, Known
<1>7. /\ sweep \in Nat /\ lastOk \in [Keys -> Nat] /\ lastBad \in [Keys -> Nat] /\ enabled \in [Keys -> Nat]
      /\ missed \in Nat /\ halfway \subseteq Keys /\ swept \subseteq Keys
  BY Zenon DEF Init
<1> QED
  BY Zenon, <1>2, <1>3, <1>4, <1>6, <1>7 DEF TypeInv, TypeOK, RotatorStates, Entries, VerifierStates

LEMMA NextTypes == TypeInv /\ [Next]_vars => TypeInv'
<1> SUFFICES ASSUME TypeInv, [Next]_vars PROVE TypeInv'
  OBVIOUS
<1>1. /\ cache' \in [Keys -> Entries] /\ verifier' \in [Verifiers -> VerifierStates]
      /\ \A v \in Verifiers : verifier'[v].pc # "idle" => verifier'[v].key \in Keys
  <2>1. ASSUME UNCHANGED authVars
        PROVE  /\ cache' \in [Keys -> Entries] /\ verifier' \in [Verifiers -> VerifierStates]
               /\ \A v \in Verifiers : verifier'[v].pc # "idle" => verifier'[v].key \in Keys
    BY Zenon, <2>1 DEF TypeInv, TypeOK, Known, Entries, VerifierStates, authVars
  <2> QED
    BY Zenon, <2>1, AuthTypes, StepKinds DEF vars, authVars
<1> QED
  BY Zenon, <1>1, TableTypes, HistoryTypes, BudgetType DEF TypeInv, TypeOK, Known, RotatorStates, Entries, VerifierStates

-----------------------------------------------------------------------------
(* Keys past their grace period                                            *)

\* No rotation takes longer than Hold.
HoldInv == \A r \in Rotators : rotator[r].pc # "idle" => now <= rotator[r].since + Hold

\* The task is due at most one interval from now, and the clock waits for it.
SweepInv == now <= sweep /\ sweep <= now + Period

\* From when the task has the time to disable key j.
From(j) == IF enabled[j] > jwt[j].grace THEN enabled[j] ELSE jwt[j].grace

\* The run that disables a key past its grace period comes in time, unless
\* runs fail.
DueInv == \A j \in Keys : PastGrace(j) => sweep <= From(j) + Period * (1 + missed)

GraceInv == SweepInv /\ DueInv

\* The time allowed for, by the number of failed runs.
LEMMA Allowance ==
  ASSUME NEW n \in Nat
  PROVE  /\ Period * (1 + n) \in Nat /\ Period <= Period * (1 + n)
         /\ Period * (1 + (n + 1)) = Period * (1 + n) + Period
<1>1. Period \in Nat
  BY Zenon, JwtAssumption
<1> QED
  BY <1>1

LEMMA NextSweep == TypeInv /\ TypeInv' /\ SweepInv /\ [Next]_vars => SweepInv'
<1> SUFFICES ASSUME TypeInv, TypeInv', SweepInv, [Next]_vars PROVE SweepInv'
  OBVIOUS
<1>0. now \in Nat /\ sweep \in Nat /\ Period \in Nat /\ now <= sweep /\ sweep <= now + Period
  BY JwtAssumption DEF TypeInv, TypeOK, SweepInv
<1>1. ASSUME Sweep \/ SweepFails, now' = now PROVE SweepInv'
  <2>1. sweep' = sweep + Period /\ now >= sweep
    BY Zenon, <1>1, SweepMoves
  <2> QED
    BY <1>0, <1>1, <2>1 DEF SweepInv
<1>2. ASSUME Tick PROVE SweepInv'
  <2>1. now' = now + 1 /\ sweep' = sweep /\ now < sweep
    BY Zenon, <1>2 DEF Tick
  <2> QED
    BY <1>0, <2>1 DEF SweepInv
<1>3. ASSUME UNCHANGED <<now, sweep>> PROVE SweepInv'
  BY Zenon, <1>0, <1>3 DEF SweepInv
<1> QED
  BY Zenon, <1>1, <1>2, <1>3, StepKinds DEF vars

LEMMA NextDue == TypeInv /\ TypeInv' /\ HoldInv /\ SweepInv /\ DueInv /\ [Next]_vars => DueInv'
<1> SUFFICES ASSUME TypeInv, TypeInv', HoldInv, SweepInv, DueInv, [Next]_vars, NEW j \in Keys, PastGrace(j)'
             PROVE  sweep' <= From(j)' + Period * (1 + missed')
  BY Zenon DEF DueInv
<1>0. /\ now \in Nat /\ sweep \in Nat /\ Period \in Nat /\ now <= sweep /\ sweep <= now + Period
      /\ missed \in Nat /\ missed' \in Nat /\ jwt[j].grace \in Nat /\ jwt'[j].grace \in Nat
      /\ enabled[j] \in Nat /\ enabled'[j] \in Nat
  BY JwtAssumption DEF TypeInv, TypeOK, JwtRows, SweepInv
<1>1. /\ From(j) \in Nat /\ From(j)' \in Nat /\ From(j)' >= jwt'[j].grace /\ From(j)' >= enabled'[j]
  BY <1>0 DEF From
<1>2. /\ jwt'[j].status = "active" /\ jwt'[j].grace # 0 /\ jwt'[j].grace < now' /\ ~jwt'[j].deleted
  BY Zenon DEF PastGrace
\* the task has one interval from now
<1>3. ASSUME now <= From(j)', sweep' = sweep, missed' = missed PROVE sweep' <= From(j)' + Period * (1 + missed')
  <2>1. Period * (1 + missed) \in Nat /\ Period <= Period * (1 + missed)
    BY Zenon, <1>0, Allowance
  <2> HIDE DEF From
  <2> QED
    BY <1>0, <1>1, <1>3, <2>1
\* nothing that counts has changed
<1>4. ASSUME PastGrace(j), From(j)' = From(j), sweep' = sweep, missed' = missed
      PROVE  sweep' <= From(j)' + Period * (1 + missed')
  BY Zenon, <1>4 DEF DueInv
<1>5. ASSUME KeyStep, UNCHANGED <<now, sweep, missed>> PROVE sweep' <= From(j)' + Period * (1 + missed')
  <2>1. \/ jwt[j].status = "active" /\ ~jwt[j].deleted /\ jwt[j].grace = jwt'[j].grace /\ enabled'[j] = enabled[j]
        \/ enabled'[j] = now
    BY Zenon, <1>2, <1>5, KeyMoves DEF RowMove
  <2>2. CASE enabled'[j] = now
    <3>1. now <= From(j)'
      BY Zenon, <1>0, <1>1, <2>2
    <3> QED
      BY Zenon, <1>3, <1>5, <3>1
  <2>3. CASE jwt[j].status = "active" /\ ~jwt[j].deleted /\ jwt[j].grace = jwt'[j].grace /\ enabled'[j] = enabled[j]
    <3>1. PastGrace(j) /\ From(j)' = From(j)
      BY Zenon, <1>2, <1>5, <2>3 DEF PastGrace, From
    <3> QED
      BY Zenon, <1>4, <1>5, <3>1
  <2> QED
    BY Zenon, <2>1, <2>2, <2>3
<1>6. ASSUME RotateStep, UNCHANGED <<now, sweep, enabled, missed>> PROVE sweep' <= From(j)' + Period * (1 + missed')
  <2>0. ASSUME NEW r \in Rotators, rotator[r].pc = "mark" PROVE now <= rotator[r].since + MinGrace /\ rotator[r].since \in Nat
    <3>1. now <= rotator[r].since + Hold
      BY Zenon, <2>0 DEF HoldInv
    <3>2. rotator[r].since \in Nat
      BY Zenon DEF TypeInv, TypeOK, RotatorStates
    <3> QED
      BY <1>0, <3>1, <3>2, JwtAssumption
  <2>1. jwt'[j] = jwt[j]
    <3>1. RotateMove(j)
      BY Zenon, <1>6, RotateTypes
    <3>2. ASSUME NEW r \in Rotators, rotator[r].pc = "mark" PROVE ~(rotator[r].since + MinGrace <= jwt'[j].grace)
      BY <1>0, <1>2, <1>6, <2>0, <3>2, JwtAssumption
    <3> QED
      BY Zenon, <1>2, <3>1, <3>2 DEF RotateMove
  <2>2. PastGrace(j) /\ From(j)' = From(j)
    BY Zenon, <1>2, <1>6, <2>1 DEF PastGrace, From
  <2> QED
    BY Zenon, <1>4, <1>6, <2>2
<1>7. ASSUME Sweep \/ SweepFails, UNCHANGED <<now, enabled>> PROVE sweep' <= From(j)' + Period * (1 + missed')
  <2>1. SweepFails /\ missed' = missed + 1 /\ jwt' = jwt /\ sweep' = sweep + Period
    BY Zenon, <1>7, SweepMoves
  <2>2. PastGrace(j) /\ From(j)' = From(j)
    BY Zenon, <1>2, <1>7, <2>1 DEF PastGrace, From
  <2>3. sweep <= From(j) + Period * (1 + missed)
    BY Zenon, <2>2 DEF DueInv
  <2>4. Period * (1 + missed') = Period * (1 + missed) + Period /\ Period * (1 + missed) \in Nat
    BY Zenon, <1>0, <2>1, Allowance
  <2> HIDE DEF From
  <2> QED
    BY <1>0, <1>1, <2>1, <2>2, <2>3, <2>4
<1>8. ASSUME Tick, UNCHANGED <<jwt, sweep, enabled, missed>> PROVE sweep' <= From(j)' + Period * (1 + missed')
  <2>1. now' = now + 1
    BY Zenon, <1>8 DEF Tick
  <2>2. From(j)' = From(j)
    BY Zenon, <1>8 DEF From
  <2>3. CASE PastGrace(j)
    BY Zenon, <1>4, <1>8, <2>2, <2>3
  <2>4. CASE ~PastGrace(j)
    <3>1. now <= From(j)'
      BY <1>0, <1>1, <1>2, <1>8, <2>1, <2>4 DEF PastGrace
    <3> QED
      BY Zenon, <1>3, <1>8, <3>1
  <2> QED
    BY Zenon, <2>3, <2>4
<1>9. ASSUME UNCHANGED <<now, jwt, sweep, enabled, missed>> PROVE sweep' <= From(j)' + Period * (1 + missed')
  <2>1. PastGrace(j) /\ From(j)' = From(j)
    BY Zenon, <1>2, <1>9 DEF PastGrace, From
  <2> QED
    BY Zenon, <1>4, <1>9, <2>1
<1> QED
  BY Zenon, <1>5, <1>6, <1>7, <1>8, <1>9, StepKinds DEF vars, history

LEMMA GraceBounds == TypeInv /\ GraceInv => GraceOverrun
<1> SUFFICES ASSUME TypeInv, GraceInv, NEW j \in Keys, PastGrace(j) PROVE now <= From(j) + Period * (1 + missed)
  BY Zenon DEF GraceOverrun, From
<1>1. now <= sweep /\ sweep <= From(j) + Period * (1 + missed)
  BY Zenon DEF GraceInv, SweepInv, DueInv
<1>2. now \in Nat /\ sweep \in Nat /\ jwt[j].grace \in Nat /\ enabled[j] \in Nat /\ missed \in Nat
  BY DEF TypeInv, TypeOK, JwtRows
<1>3. From(j) \in Nat
  BY Zenon, <1>2 DEF From
<1>4. Period * (1 + missed) \in Nat
  BY Zenon, <1>2, Allowance
<1> HIDE DEF From
<1> QED
  BY <1>1, <1>2, <1>3, <1>4

-----------------------------------------------------------------------------
(* Rotated keys have successors                                            *)

HasSuccessor(j) == \E s \in Keys : jwt[s].status # "none" /\ jwt[s].from = j

\* Rotation r marked key j, and still is to insert its successor.
Owes(r, j) == rotator[r].pc = "insert" /\ rotator[r].old = j /\ rotator[r].since + MinGrace <= jwt[j].grace

MarkedInv ==
    \A j \in Keys : j \notin halfway /\ jwt[j].grace # 0 => HasSuccessor(j) \/ \E r \in Rotators : Owes(r, j)

\* No statement takes a row away or changes its predecessor.
LEMMA SuccessorsStay ==
  ASSUME TypeInv, [Next]_vars, NEW j \in Keys, HasSuccessor(j)
  PROVE  HasSuccessor(j)'
<1>1. PICK s \in Keys : jwt[s].status # "none" /\ jwt[s].from = j
  BY Zenon DEF HasSuccessor
<1>2. ASSUME KeyStep PROVE jwt'[s].status # "none" /\ jwt'[s].from = j
  BY Zenon, <1>1, <1>2, KeyMoves DEF RowMove
<1>3. ASSUME RotateStep PROVE jwt'[s].status # "none" /\ jwt'[s].from = j
  BY Zenon, <1>1, <1>3, RotateTypes DEF RotateMove
<1>4. ASSUME Sweep \/ SweepFails PROVE jwt'[s].status # "none" /\ jwt'[s].from = j
  BY Zenon, <1>1, <1>4, SweepMoves
<1>5. ASSUME UNCHANGED jwt PROVE jwt'[s].status # "none" /\ jwt'[s].from = j
  BY Zenon, <1>1, <1>5
<1>6. jwt'[s].status # "none" /\ jwt'[s].from = j
  BY Zenon, <1>2, <1>3, <1>4, <1>5, StepKinds DEF vars
<1> QED
  BY Zenon, <1>6 DEF HasSuccessor

LEMMA NextHold == TypeInv /\ TypeInv' /\ HoldInv /\ [Next]_vars => HoldInv'
<1> SUFFICES ASSUME TypeInv, TypeInv', HoldInv, [Next]_vars, NEW q \in Rotators, rotator'[q].pc # "idle"
             PROVE  now' <= rotator'[q].since + Hold
  BY Zenon DEF HoldInv
<1>0. now \in Nat /\ Hold \in Nat /\ rotator \in [Rotators -> RotatorStates] /\ \A r \in Rotators : rotator[r].since \in Nat
  BY JwtAssumption DEF TypeInv, TypeOK, RotatorStates
<1> DEFINE Timed(r, m) == m.pc = "idle" \/ m.since = now \/ (rotator[r].pc # "idle" /\ m.since = rotator[r].since)
<1>1. ASSUME UNCHANGED <<now, rotator>> PROVE now' <= rotator'[q].since + Hold
  BY Zenon, <1>1 DEF HoldInv
<1>2. ASSUME Tick, UNCHANGED rotator PROVE now' <= rotator'[q].since + Hold
  BY <1>0, <1>2 DEF Tick
<1>3. ASSUME NEW r \in Rotators, NEW m \in RotatorStates, RotatorMoves(r, m), Timed(r, m), now' = now
      PROVE  now' <= rotator'[q].since + Hold
  <2>1. CASE q = r
    BY <1>0, <1>3, <2>1 DEF RotatorMoves, HoldInv
  <2>2. CASE q # r
    BY Zenon, <1>0, <1>3, <2>2 DEF RotatorMoves, HoldInv
  <2> QED
    BY Zenon, <2>1, <2>2
<1>4. IdleRotator \in RotatorStates /\ IdleRotator.pc = "idle"
  BY Zenon, RowTypes DEF IdleRotator
<1>5. ASSUME NEW r \in Rotators, MarkOld(r) \/ InsertSuccessor(r) \/ RotationStops(r)
      PROVE  \E m \in RotatorStates : RotatorMoves(r, m) /\ Timed(r, m)
  BY Zenon, <1>4, <1>5, MarkMoves, InsertMoves, StopMoves
<1>6. ASSUME NEW r \in Rotators, NEW j \in Keys, NEW g \in Graces, BeginRotation(r, j, g)
      PROVE  \E m \in RotatorStates : RotatorMoves(r, m) /\ Timed(r, m)
  BY Zenon, <1>6, BeginMoves
<1> HIDE DEF Timed
<1>7. ASSUME RotateStep, now' = now PROVE now' <= rotator'[q].since + Hold
  BY Zenon, <1>3, <1>5, <1>6, <1>7 DEF RotateStep
<1> QED
  BY Zenon, <1>1, <1>2, <1>7, StepKinds DEF vars

LEMMA NextMarked == TypeInv /\ MarkedInv /\ [Next]_vars => MarkedInv'
<1> SUFFICES ASSUME TypeInv, MarkedInv, [Next]_vars, NEW j \in Keys, j \notin halfway', jwt'[j].grace # 0
             PROVE  HasSuccessor(j)' \/ \E r \in Rotators : Owes(r, j)'
  BY Zenon DEF MarkedInv
<1> DEFINE Goal == HasSuccessor(j)' \/ \E r \in Rotators : Owes(r, j)'
<1>0. now \in Nat /\ rotator \in [Rotators -> RotatorStates] /\ jwt \in [Keys -> JwtRows]
  BY DEF TypeInv, TypeOK, RotatorStates
<1>1. ASSUME jwt'[j].grace = jwt[j].grace, UNCHANGED <<rotator, halfway>> PROVE Goal
  <2>1. \A r \in Rotators : Owes(r, j) => Owes(r, j)'
    BY Zenon, <1>1 DEF Owes
  <2> QED
    BY Zenon, <1>1, <2>1, SuccessorsStay DEF MarkedInv
<1>2. ASSUME KeyStep, UNCHANGED <<rotator, halfway>> PROVE Goal
  <2>1. jwt'[j].grace = jwt[j].grace
    BY Zenon, <1>2, KeyMoves DEF RowMove
  <2> QED
    BY Zenon, <1>1, <1>2, <2>1
<1>3. ASSUME Sweep \/ SweepFails, UNCHANGED <<rotator, halfway>> PROVE Goal
  <2>1. jwt'[j].grace = jwt[j].grace
    BY Zenon, <1>3, SweepMoves
  <2> QED
    BY Zenon, <1>1, <1>3, <2>1
\* a rotation that is not between its statements, or not of j, moves
<1>4. ASSUME NEW r \in Rotators, NEW m \in RotatorStates, RotatorMoves(r, m), rotator[r].pc # "insert" \/ rotator[r].old # j,
             jwt'[j].grace = jwt[j].grace, j \notin halfway
      PROVE  Goal
  <2>1. \A q \in Rotators : Owes(q, j) => Owes(q, j)'
    BY Zenon, <1>0, <1>4 DEF Owes, RotatorMoves
  <2> QED
    BY Zenon, <1>4, <2>1, SuccessorsStay DEF MarkedInv
<1>5. ASSUME NEW r \in Rotators, NEW i \in Keys, NEW g \in Graces, BeginRotation(r, i, g) PROVE Goal
  <2>1. rotator[r].pc # "insert"
    BY Zenon, <1>5 DEF BeginRotation
  <2>2. jwt' = jwt /\ halfway' = halfway
    BY Zenon, <1>5, BeginMoves
  <2>3. PICK m \in RotatorStates : RotatorMoves(r, m)
    BY Zenon, <1>5, BeginMoves
  <2> HIDE DEF Goal
  <2> QED
    BY Zenon, <1>4, <2>1, <2>2, <2>3
<1>6. ASSUME NEW r \in Rotators, MarkOld(r) PROVE Goal
  <2> DEFINE k == rotator[r].old
  <2>1. /\ rotator[r].pc = "mark" /\ k \in Keys /\ halfway' = halfway
        /\ \A i \in Keys : i # k => jwt'[i] = jwt[i]
        /\ \/ jwt'[k] = jwt[k]
           \/ \E n \in Nat : rotator[r].since + MinGrace <= n /\ jwt'[k] = [jwt[k] EXCEPT !.grace = n]
    BY Zenon, <1>6, MarkMoves
  <2>2. PICK m \in RotatorStates : RotatorMoves(r, m) /\ m.pc = "insert" /\ m.old = k /\ m.since = rotator[r].since
    BY Zenon, <1>6, MarkMoves
  <2>3. CASE jwt'[j].grace = jwt[j].grace
    BY Zenon, <1>4, <2>1, <2>2, <2>3
  <2>4. CASE jwt'[j].grace # jwt[j].grace
    <3>1. j = k
      BY Zenon, <2>1, <2>4
    <3>2. rotator[r].since + MinGrace <= jwt'[j].grace
      BY Zenon, <1>0, <2>1, <2>4, <3>1 DEF JwtRows
    <3>3. rotator'[r] = m
      BY Zenon, <1>0, <2>2 DEF RotatorMoves
    <3>4. Owes(r, j)'
      BY Zenon, <1>0, <2>1, <2>2, <3>1, <3>2, <3>3 DEF Owes
    <3> QED
      BY Zenon, <3>4
  <2> QED
    BY Zenon, <2>3, <2>4
<1>7. ASSUME NEW r \in Rotators, InsertSuccessor(r) PROVE Goal
  <2>1. halfway' = halfway /\ RotatorMoves(r, IdleRotator) /\ IdleRotator \in RotatorStates
    BY Zenon, <1>7, InsertMoves, RowTypes
  <2>2. PICK s \in Keys : /\ jwt'[s].status = "active" /\ jwt'[s].grace = 0 /\ jwt'[s].from = rotator[r].old
                          /\ \A i \in Keys : i # s => jwt'[i] = jwt[i]
    BY Zenon, <1>7, InsertMoves
  <2>3. CASE rotator[r].old = j
    BY Zenon, <2>2, <2>3 DEF HasSuccessor
  <2>4. CASE rotator[r].old # j
    <3>1. jwt'[j].grace = jwt[j].grace
      BY Zenon, <2>2
    <3> QED
      BY Zenon, <1>4, <2>1, <2>4, <3>1
  <2> QED
    BY Zenon, <2>3, <2>4
<1>8. ASSUME NEW r \in Rotators, RotationStops(r) PROVE Goal
  <2>1. jwt' = jwt /\ RotatorMoves(r, IdleRotator) /\ IdleRotator \in RotatorStates
    BY Zenon, <1>8, StopMoves, RowTypes
  <2>2. j \notin halfway /\ (rotator[r].pc # "insert" \/ rotator[r].old # j)
    BY Zenon, <1>8, StopMoves
  <2> HIDE DEF Goal
  <2> QED
    BY Zenon, <1>4, <2>1, <2>2
<1> HIDE DEF Goal
<1>9. Goal
  BY Zenon, <1>1, <1>2, <1>3, <1>5, <1>6, <1>7, <1>8, StepKinds DEF RotateStep, vars, history
<1> QED
  BY Zenon, <1>9 DEF Goal

\* A grace period outlasts the time a rotation may spend between its two
\* statements, so the task never comes between them.
LEMMA NextSwept ==
  ASSUME TypeInv, HoldInv, MarkedInv, SweptHasSuccessor, [Next]_vars
  PROVE  SweptHasSuccessor'
<1> SUFFICES ASSUME NEW j \in swept', j \notin halfway' PROVE HasSuccessor(j)'
  BY Zenon DEF SweptHasSuccessor, HasSuccessor
<1>0. halfway \subseteq halfway'
  <2>1. ASSUME NEW r \in Rotators, MarkOld(r) \/ InsertSuccessor(r) \/ RotationStops(r) PROVE halfway \subseteq halfway'
    BY Zenon, <2>1 DEF MarkOld, InsertSuccessor, RotationStops, history
  <2>2. ASSUME NEW r \in Rotators, NEW i \in Keys, NEW g \in Graces, BeginRotation(r, i, g) PROVE halfway \subseteq halfway'
    BY Zenon, <2>2 DEF BeginRotation, history
  <2>3. ASSUME halfway' = halfway PROVE halfway \subseteq halfway'
    BY Zenon, <2>3
  <2> QED
    BY Zenon, <2>1, <2>2, <2>3, StepKinds DEF RotateStep, vars, history
<1>1. j \in Keys /\ j \notin halfway
  BY Zenon, <1>0, TableTypes
<1>2. ASSUME j \in swept PROVE HasSuccessor(j)
  BY Zenon, <1>1, <1>2 DEF SweptHasSuccessor, HasSuccessor
<1>3. ASSUME PastGrace(j) PROVE HasSuccessor(j)
  <2>1. now \in Nat /\ Hold \in Nat /\ jwt[j].grace \in Nat /\ jwt[j].grace # 0 /\ jwt[j].grace < now
    BY <1>1, <1>3, JwtAssumption DEF TypeInv, TypeOK, JwtRows, PastGrace
  <2>2. ASSUME NEW r \in Rotators, Owes(r, j) PROVE FALSE
    <3>1. rotator[r].since \in Nat /\ now <= rotator[r].since + Hold /\ rotator[r].since + MinGrace <= jwt[j].grace
      BY Zenon, <2>2 DEF Owes, HoldInv, TypeInv, TypeOK
    <3> QED
      BY <2>1, <3>1, JwtAssumption
  <2> QED
    BY Zenon, <1>1, <2>1, <2>2 DEF MarkedInv
<1>4. j \in swept \/ PastGrace(j)
  BY Zenon, SweepMoves, StepKinds DEF vars, history
<1> QED
  BY Zenon, <1>1, <1>2, <1>3, <1>4, SuccessorsStay

-----------------------------------------------------------------------------
(* Answers are not older than the window                                   *)

\* The database said at time t that key j was valid, or that it was not.
Snapshot(j, ok, t) == t <= now /\ IF ok THEN t <= lastOk[j] ELSE t <= lastBad[j]

RecordInv == \A j \in Keys : lastOk[j] <= now /\ lastBad[j] <= now /\ (~Valid(j) => lastBad[j] = now)

CacheInv ==
    \A j \in Keys, ok \in BOOLEAN, t \in Nat :
        cache[j].full /\ cache[j].ok = ok /\ cache[j].read = t => Snapshot(j, ok, t) /\ cache[j].set <= t + Hold

VerifierInv ==
    \A v \in Verifiers, j \in Keys, ok \in BOOLEAN, t \in Nat :
        verifier[v].pc = "fill" /\ verifier[v].key = j /\ verifier[v].ok = ok /\ verifier[v].read = t
          => Snapshot(j, ok, t) /\ now <= t + Hold

StaleInv == RecordInv /\ CacheInv /\ VerifierInv

\* Bookkeeping keeps the records up to date and every snapshot true.
LEMMA ObserveKeeps ==
  ASSUME TypeInv, RecordInv, Observe, now' \in {now, now + 1}
  PROVE  /\ RecordInv'
         /\ \A j \in Keys, ok \in BOOLEAN, t \in Nat : Snapshot(j, ok, t) => Snapshot(j, ok, t)'
<1>1. ASSUME NEW j \in Keys
      PROVE  /\ now \in Nat /\ lastOk[j] \in Nat /\ lastBad[j] \in Nat /\ lastOk[j] <= now /\ lastBad[j] <= now
             /\ lastOk'[j] = IF Valid(j)' THEN now' ELSE lastOk[j]
             /\ lastBad'[j] = lastBad[j] \/ lastBad'[j] = now'
             /\ ~Valid(j)' => lastBad'[j] = now'
  BY DEF TypeInv, TypeOK, RecordInv, Observe
<1>2. RecordInv'
  BY <1>1 DEF RecordInv
<1>3. ASSUME NEW j \in Keys, NEW ok \in BOOLEAN, NEW t \in Nat, Snapshot(j, ok, t) PROVE Snapshot(j, ok, t)'
  BY <1>1, <1>3 DEF Snapshot
<1> QED
  BY Zenon, <1>2, <1>3

\* An answer changes nothing a snapshot speaks of.
LEMMA AnswerKeeps ==
  ASSUME UNCHANGED <<accounts, now, jwt, observed>>
  PROVE  /\ RecordInv => RecordInv'
         /\ \A j \in Keys : \A ok, t : Snapshot(j, ok, t) => Snapshot(j, ok, t)'
         /\ UNCHANGED [j \in Keys |-> Valid(j)]
<1>1. ASSUME NEW j \in Keys PROVE Valid(j)' = Valid(j)
  BY Zenon DEF Valid, Loadable, Serves, Accepts, OwnerInGoodStanding, accounts
<1>2. now' = now /\ lastOk' = lastOk /\ lastBad' = lastBad
  BY Zenon DEF observed
<1> QED
  BY Zenon, <1>1, <1>2 DEF RecordInv, Snapshot

LEMMA InitStale == Init => StaleInv
<1> SUFFICES ASSUME Init PROVE StaleInv
  OBVIOUS
<1>1. NoEntry.full = FALSE /\ IdleVerifier.pc = "idle"
  BY Zenon DEF NoEntry, IdleVerifier
<1>2. CacheInv /\ VerifierInv
  BY Zenon, <1>1 DEF Init, CacheInv, VerifierInv
<1>3. RecordInv
  BY DEF Init, RecordInv
<1> QED
  BY Zenon, <1>2, <1>3 DEF StaleInv

LEMMA NextStale == TypeInv /\ TypeInv' /\ StaleInv /\ [Next]_vars => StaleInv'
<1> SUFFICES ASSUME TypeInv, TypeInv', StaleInv, [Next]_vars PROVE StaleInv'
  OBVIOUS
<1>0. RecordInv /\ CacheInv /\ VerifierInv /\ now' \in {now, now + 1} /\ now \in Nat /\ Hold \in Nat
  BY HistoryTypes, JwtAssumption DEF StaleInv, TypeInv, TypeOK
<1>1. NoEntry.full = FALSE /\ IdleVerifier.pc = "idle"
  BY Zenon DEF NoEntry, IdleVerifier
<1>2. ASSUME Observe, UNCHANGED authVars, now' = now \/ Tick PROVE StaleInv'
  <2>1. RecordInv' /\ \A j \in Keys, ok \in BOOLEAN, t \in Nat : Snapshot(j, ok, t) => Snapshot(j, ok, t)'
    BY Zenon, <1>0, <1>2, ObserveKeeps
  <2>2. CacheInv'
    BY Zenon, <1>0, <1>2, <2>1 DEF CacheInv, authVars
  <2>3. VerifierInv'
    <3> SUFFICES ASSUME NEW v \in Verifiers, NEW j \in Keys, NEW ok \in BOOLEAN, NEW t \in Nat,
                        verifier'[v].pc = "fill", verifier'[v].key = j, verifier'[v].ok = ok, verifier'[v].read = t
                 PROVE  Snapshot(j, ok, t)' /\ now' <= t + Hold
      BY Zenon DEF VerifierInv
    <3>1. verifier[v].pc = "fill" /\ verifier[v].read = t /\ Snapshot(j, ok, t) /\ now <= t + Hold
      BY Zenon, <1>0, <1>2 DEF VerifierInv, authVars
    <3>2. now' <= t + Hold
      BY <1>0, <1>2, <3>1 DEF Tick
    <3> QED
      BY Zenon, <2>1, <3>1, <3>2
  <2> QED
    BY Zenon, <2>1, <2>2, <2>3 DEF StaleInv
<1>3. ASSUME AskStep, Observe, UNCHANGED <<accounts, now, jwt>> PROVE StaleInv'
  <2>1. RecordInv' /\ \A j \in Keys, ok \in BOOLEAN, t \in Nat : Snapshot(j, ok, t) => Snapshot(j, ok, t)'
    BY Zenon, <1>0, <1>3, ObserveKeeps
  <2>2. \A j \in Keys : cache'[j] = cache[j] \/ ~cache'[j].full
    BY ZenonT(40), <1>1, <1>3 DEF AskStep, CacheMiss, SelectKey, Abandon, Evict, TypeInv, TypeOK
  <2>3. CacheInv'
    BY Zenon, <1>0, <2>1, <2>2 DEF CacheInv
  <2>4. ASSUME NEW p \in Verifiers, verifier'[p].pc = "fill"
        PROVE  verifier'[p] = verifier[p] \/ SelectKey(p)
    <3>1. \A j : [IdleVerifier EXCEPT !.pc = "select", !.key = j].pc # "fill"
      BY Zenon DEF IdleVerifier
    <3>2. ASSUME NEW v \in Verifiers, NEW j \in Keys, CacheMiss(v, j) PROVE verifier'[p] = verifier[p]
      BY Zenon, <2>4, <3>1, <3>2 DEF CacheMiss, TypeInv, TypeOK
    <3>3. ASSUME NEW v \in Verifiers, Abandon(v) PROVE verifier'[p] = verifier[p]
      BY Zenon, <1>1, <2>4, <3>3 DEF Abandon, TypeInv, TypeOK
    <3>4. ASSUME NEW v \in Verifiers, SelectKey(v) PROVE verifier'[p] = verifier[p] \/ SelectKey(p)
      BY ZenonT(40), <3>4 DEF SelectKey, TypeInv, TypeOK
    <3>5. ASSUME NEW j \in Keys, Evict(j) PROVE verifier'[p] = verifier[p]
      BY Zenon, <3>5 DEF Evict
    <3> QED
      BY Zenon, <1>3, <3>2, <3>3, <3>4, <3>5 DEF AskStep
  <2>5. VerifierInv'
    <3> SUFFICES ASSUME NEW v \in Verifiers, NEW j \in Keys, NEW ok \in BOOLEAN, NEW t \in Nat,
                        verifier'[v].pc = "fill", verifier'[v].key = j, verifier'[v].ok = ok, verifier'[v].read = t
                 PROVE  Snapshot(j, ok, t)' /\ now' <= t + Hold
      BY DEF VerifierInv
    <3>1. ASSUME verifier'[v] = verifier[v] PROVE Snapshot(j, ok, t)' /\ now' <= t + Hold
      BY Zenon, <1>0, <1>3, <2>1, <3>1 DEF VerifierInv
    <3>2. ASSUME SelectKey(v) PROVE Snapshot(j, ok, t)' /\ now' <= t + Hold
      <4>1. /\ verifier[v] \in VerifierStates /\ Loadable(verifier[v].key)
            /\ verifier'[v] = [verifier[v] EXCEPT !.pc = "fill", !.ok = Accepts(verifier[v].key), !.read = now]
        BY ZenonT(40), <3>2 DEF SelectKey, TypeInv, TypeOK, VerifierStates
      <4>2. j = verifier[v].key /\ ok = Accepts(j) /\ t = now
        BY Zenon, <4>1 DEF VerifierStates
      <4>3. Valid(j)' = ok
        <5>1. Valid(j) = ok /\ Accepts(j) \in BOOLEAN /\ Loadable(j)
          BY Zenon, <4>1, <4>2 DEF Valid, Accepts
        <5>2. Valid(j)' = Valid(j)
          BY Zenon, <1>3 DEF Valid, Loadable, Serves, Accepts, OwnerInGoodStanding, accounts
        <5> QED
          BY Zenon, <5>1, <5>2
      <4>4. lastOk'[j] = (IF Valid(j)' THEN now' ELSE lastOk[j]) /\ (~Valid(j)' => lastBad'[j] = now')
        BY Zenon, <1>3 DEF Observe
      <4>5. now' = now
        BY Zenon, <1>3
      <4> QED
        BY <1>0, <4>2, <4>3, <4>4, <4>5 DEF Snapshot
    <3> QED
      BY Zenon, <2>4, <3>1, <3>2
  <2> QED
    BY <2>1, <2>3, <2>5 DEF StaleInv
<1>4. ASSUME AnswerStep, UNCHANGED <<accounts, now, jwt, observed>> PROVE StaleInv'
  <2>1. RecordInv' /\ (\A j \in Keys : \A ok, t : Snapshot(j, ok, t) => Snapshot(j, ok, t)') /\ now' = now
    BY Zenon, <1>0, <1>4, AnswerKeeps
  <2>2. ASSUME NEW p \in Verifiers PROVE verifier'[p] = verifier[p] \/ verifier'[p].pc = "idle"
    BY ZenonT(40), <1>1, <1>4 DEF AnswerStep, CacheHit, SelectNothing, FillAndAnswer, authVars, TypeInv, TypeOK
  <2>3. VerifierInv'
    <3>1. \A p \in Verifiers : verifier'[p].pc = "fill" => verifier'[p] = verifier[p]
      BY Zenon, <2>2
    <3> QED
      BY Zenon, <1>0, <2>1, <3>1 DEF VerifierInv
  <2>4. CacheInv'
    <3> SUFFICES ASSUME NEW j \in Keys, NEW ok \in BOOLEAN, NEW t \in Nat, cache'[j].full, cache'[j].ok = ok, cache'[j].read = t
                 PROVE  Snapshot(j, ok, t)' /\ cache'[j].set <= t + Hold
      BY Zenon DEF CacheInv
    <3>1. ASSUME cache'[j] = cache[j] PROVE Snapshot(j, ok, t)' /\ cache'[j].set <= t + Hold
      BY Zenon, <1>0, <2>1, <3>1 DEF CacheInv
    <3>2. ASSUME NEW v \in Verifiers, FillAndAnswer(v), cache'[j] # cache[j] PROVE Snapshot(j, ok, t)' /\ cache'[j].set <= t + Hold
      <4>1. /\ verifier[v].pc = "fill" /\ verifier[v].key = j
            /\ cache'[j] = [full |-> TRUE, ok |-> verifier[v].ok, read |-> verifier[v].read, set |-> now]
        BY ZenonT(40), <3>2 DEF FillAndAnswer, SetEx, TypeInv, TypeOK
      <4>2. verifier[v].ok = ok /\ verifier[v].read = t /\ cache'[j].set = now
        BY <4>1
      <4> QED
        BY Zenon, <1>0, <2>1, <4>1, <4>2 DEF VerifierInv
    <3> QED
      BY Zenon, <1>4, <3>1, <3>2 DEF AnswerStep, CacheHit, SelectNothing, authVars
  <2> QED
    BY Zenon, <2>1, <2>3, <2>4 DEF StaleInv
<1>5. ASSUME UNCHANGED vars PROVE StaleInv'
  <2>1. UNCHANGED <<accounts, now, jwt, observed>> /\ cache' = cache /\ verifier' = verifier
    BY Zenon, <1>5 DEF vars, accounts, observed
  <2>2. RecordInv' /\ (\A j \in Keys : \A ok, t : Snapshot(j, ok, t) => Snapshot(j, ok, t)') /\ now' = now
    BY Zenon, <1>0, <2>1, AnswerKeeps
  <2> QED
    BY Zenon, <1>0, <2>1, <2>2 DEF StaleInv, CacheInv, VerifierInv
<1> QED
  BY Zenon, <1>2, <1>3, <1>4, <1>5, StepKinds

\* An answer from a snapshot taken no longer ago than the window is one the
\* abstract authenticator may give.
LEMMA AnswerInWindow ==
  ASSUME TypeInv, NEW j \in Keys, NEW ok \in BOOLEAN, NEW t \in Nat, Snapshot(j, ok, t), now <= t + TTL + Hold,
         Decide(j, ok), UNCHANGED <<accounts, now, jwt, observed>>
  PROVE  Promise!Next
<1>1. now \in Nat /\ TTL \in Nat /\ Hold \in Nat /\ lastOk[j] \in Nat /\ lastBad[j] \in Nat
  BY JwtAssumption DEF TypeInv, TypeOK
<1>2. IF ok THEN Promise!Yes(j) ELSE Promise!No(j)
  BY <1>1 DEF Snapshot, Promise!Yes, Promise!No
<1>3. UNCHANGED <<now, [c \in Keys |-> Valid(c)], lastOk, lastBad>>
  BY Zenon, AnswerKeeps DEF observed
<1>4. Promise!Answer(j, ok)
  BY Zenon, <1>2, <1>3 DEF Promise!Answer, Decide
<1> QED
  BY Zenon, <1>4 DEF Promise!Next

\* A step that is not an answer is one of the world around the authenticator.
LEMMA ObserveIsSilent ==
  ASSUME Observe, now' \in {now, now + 1}
  PROVE  Promise!Next
<1> DEFINE ok == [c \in Keys |-> Valid(c)]
           changed == {c \in Keys : Terms(c)' # Terms(c)}
<1>1. ok' \in [Keys -> BOOLEAN] /\ \A c \in Keys : ok'[c] = Valid(c)'
  BY Zenon DEF Valid
<1>2. lastOk' = [c \in Keys |-> IF ok'[c] THEN now' ELSE lastOk[c]]
  BY Zenon, <1>1 DEF Observe
<1>3. lastBad' = [c \in Keys |-> IF ok'[c] /\ c \notin changed THEN lastBad[c] ELSE now']
  BY Zenon, <1>1 DEF Observe
<1>4. changed \in SUBSET Keys
  OBVIOUS
<1>5. Promise!World
  BY Zenon, <1>1, <1>2, <1>3, <1>4 DEF Promise!World
<1> QED
  BY Zenon, <1>5 DEF Promise!Next, Promise!Silent, Observe

LEMMA InitRefines == Init => Promise!Init
<1> SUFFICES ASSUME Init PROVE Promise!Init
  OBVIOUS
<1>1. \A j \in Keys : Valid(j) = FALSE
  BY Zenon DEF Init, Valid, Loadable, Serves, NoJwt
<1>2. [j \in Keys |-> Valid(j)] = [j \in Keys |-> FALSE]
  BY Zenon, <1>1
<1> QED
  BY Zenon, <1>2 DEF Init, Promise!Init

LEMMA NextRefines == TypeInv /\ StaleInv /\ [Next]_vars => [Promise!Next]_(Promise!bvars)
<1> SUFFICES ASSUME TypeInv, StaleInv, [Next]_vars PROVE [Promise!Next]_(Promise!bvars)
  OBVIOUS
<1>0. now \in Nat /\ TTL \in Nat /\ Hold \in Nat /\ RecordInv /\ CacheInv /\ VerifierInv
  BY JwtAssumption DEF TypeInv, TypeOK, StaleInv
<1>1. ASSUME Observe PROVE Promise!Next
  BY Zenon, <1>1, ObserveIsSilent, HistoryTypes
<1>2. ASSUME NEW v \in Verifiers, NEW j \in Keys, CacheHit(v, j) PROVE Promise!Next
  <2> DEFINE ok == cache[j].ok
             t == cache[j].read
  <2>1. ok \in BOOLEAN /\ t \in Nat /\ cache[j].set \in Nat
    BY Zenon DEF TypeInv, TypeOK
  <2>2. Fresh(j) /\ Decide(j, ok) /\ UNCHANGED <<accounts, now, jwt, observed>>
    BY Zenon, <1>2 DEF CacheHit
  <2>3. cache[j].full /\ now <= cache[j].set + TTL
    BY Zenon, <2>2 DEF Fresh
  <2>4. Snapshot(j, ok, t) /\ cache[j].set <= t + Hold
    BY Zenon, <1>0, <2>1, <2>3 DEF CacheInv
  <2>5. now <= t + TTL + Hold
    BY <1>0, <2>1, <2>3, <2>4
  <2> QED
    BY Zenon, <2>1, <2>2, <2>4, <2>5, AnswerInWindow
<1>3. ASSUME NEW v \in Verifiers, FillAndAnswer(v) PROVE Promise!Next
  <2> DEFINE j == verifier[v].key
             ok == verifier[v].ok
             t == verifier[v].read
  <2>1. j \in Keys /\ ok \in BOOLEAN /\ t \in Nat /\ verifier[v].pc = "fill"
    BY Zenon, <1>3 DEF FillAndAnswer, TypeInv, Known, TypeOK
  <2>2. Decide(j, ok) /\ UNCHANGED <<accounts, now, jwt, observed>>
    BY Zenon, <1>3 DEF FillAndAnswer
  <2>3. Snapshot(j, ok, t) /\ now <= t + Hold
    BY Zenon, <1>0, <2>1 DEF VerifierInv
  <2>4. now <= t + TTL + Hold
    BY <1>0, <2>1, <2>3
  <2> QED
    BY Zenon, <2>1, <2>2, <2>3, <2>4, AnswerInWindow
<1>4. ASSUME NEW v \in Verifiers, SelectNothing(v) PROVE Promise!Next
  <2> DEFINE j == verifier[v].key
  <2>1. j \in Keys /\ ~Loadable(j) /\ Decide(j, FALSE) /\ UNCHANGED <<accounts, now, jwt, observed>>
    BY Zenon, <1>4 DEF SelectNothing, TypeInv, Known
  <2>2. lastBad[j] = now
    BY Zenon, <1>0, <2>1 DEF RecordInv, Valid
  <2>3. Snapshot(j, FALSE, now) /\ now <= now + TTL + Hold
    BY <1>0, <2>2 DEF Snapshot
  <2> QED
    BY Zenon, <1>0, <2>1, <2>3, AnswerInWindow
<1>5. ASSUME UNCHANGED vars PROVE UNCHANGED Promise!bvars
  <2>1. UNCHANGED <<accounts, now, jwt, observed, verdict>>
    BY Zenon, <1>5 DEF vars, accounts, observed
  <2> QED
    BY Zenon, <2>1, AnswerKeeps DEF Promise!bvars, observed
<1> QED
  BY Zenon, <1>1, <1>2, <1>3, <1>4, <1>5, StepKinds DEF AnswerStep

-----------------------------------------------------------------------------
(* Theorems                                                                *)

LEMMA JwtInv == Spec => [](TypeInv /\ StaleInv /\ GraceInv /\ HoldInv /\ MarkedInv)
<1>1. Init => TypeInv /\ StaleInv /\ GraceInv /\ HoldInv /\ MarkedInv
  <2>1. Init => GraceInv
    BY JwtAssumption DEF Init, GraceInv, SweepInv, DueInv, PastGrace, NoJwt
  <2>2. Init => HoldInv /\ MarkedInv
    BY DEF Init, HoldInv, MarkedInv, IdleRotator, NoJwt
  <2> QED
    BY Zenon, <2>1, <2>2, InitTypes, InitStale
<1>2. TypeInv /\ StaleInv /\ GraceInv /\ HoldInv /\ MarkedInv /\ [Next]_vars
        => (TypeInv /\ StaleInv /\ GraceInv /\ HoldInv /\ MarkedInv)'
  BY Zenon, NextTypes, NextStale, NextSweep, NextDue, NextHold, NextMarked DEF GraceInv
<1> QED
  BY <1>1, <1>2, PTL DEF Spec

\* The tables, the cache, the rotations and the requests keep their types in
\* every state of the handlers of JWT keys, of resolve_jwt and of the task.
THEOREM JwtTypeCorrect == Spec => []TypeOK
  BY JwtInv, PTL DEF TypeInv

\* resolve_jwt with its Redis cache implements the abstract authenticator: a
\* JWT of a key disabled, deleted or expired longer ago than the TTL and one
\* request is never accepted, however lookups, revocations, rotations, the
\* task and the clock interleave.
THEOREM JwtImplementsPromise == Spec => JwtRevocationIsBounded
<1>1. Promise!Init /\ [][Promise!Next]_(Promise!bvars) => JwtRevocationIsBounded
  BY Zenon DEF JwtRevocationIsBounded, Promise!Spec
<1> QED
  BY <1>1, JwtInv, InitRefines, NextRefines, PTL DEF Spec

\* A key past its grace period serves for at most one interval of
\* expire_grace_period_keys more for each run that failed and one besides,
\* from the end of the period or from when a request last enabled it.
THEOREM GraceIsBounded == Spec => []GraceOverrun
  BY JwtInv, GraceBounds, PTL

\* The task disables no rotated key that has no successor, unless its rotation
\* stopped between its two statements: no request takes longer than the
\* shortest grace period, which counts from before the UPDATE.
THEOREM SweptKeysHaveSuccessors == Spec => []SweptHasSuccessor
<1>1. Init => SweptHasSuccessor
  BY Zenon DEF Init, SweptHasSuccessor
<1>2. TypeInv /\ HoldInv /\ MarkedInv /\ SweptHasSuccessor /\ [Next]_vars => SweptHasSuccessor'
  BY Zenon, NextSwept
<1> QED
  BY <1>1, <1>2, JwtInv, PTL DEF Spec
=============================================================================
