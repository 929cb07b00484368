-------------------------- MODULE ApiKeyAuth_proofs --------------------------
(***************************************************************************)
(* Proofs about ApiKeyAuth, for every number of keys, users, tenants,      *)
(* management calls, requests and cache slots, every TTL and every bound.  *)
(*                                                                         *)
(* That the detailed specification implements BoundedStaleness rests on    *)
(* StaleInv: a row that a request has read or the cache holds still is     *)
(* what the database says, or the key was revoked no earlier than the time *)
(* of the read. That a deletion is recorded once rests on RecordedInv: an  *)
(* audit row that is still to be written is the only one of its key. The   *)
(* limit rests on TenantInv: the tenant of a key in creation exists, so no *)
(* bootstrap adds a key next to it.                                        *)
(***************************************************************************)
EXTENDS ApiKeyAuth, FiniteSetTheorems, TLAPS

-----------------------------------------------------------------------------
(* Types                                                                   *)

\* Every statement on organizations, tenants and environments writes a row of
\* its table's type.
LEMMA AccountTypes ==
  ASSUME AccountsTypeOK, AccountStep
  PROVE  AccountsTypeOK'
<1>1. /\ NewAccount \in AccountRows
      /\ \A r \in AccountRows : DeletedOrg(r) \in AccountRows /\ RestoredOrg(r) \in AccountRows /\ DeletedTenant(r) \in AccountRows
      /\ \A r \in AccountRows : [r EXCEPT !.status = "suspended"] \in AccountRows /\ [r EXCEPT !.status = "active"] \in AccountRows
  BY Zenon DEF NewAccount, AccountRows, Statuses, DeletedOrg, RestoredOrg, DeletedTenant
<1>2. ASSUME NEW r \in AccountRows, NEW o \in Orgs, SetOrg(o, r) PROVE AccountsTypeOK'
  BY Zenon, <1>2 DEF AccountsTypeOK, SetOrg
<1>3. ASSUME NEW r \in AccountRows, NEW t \in Tenants, SetTenant(t, r) PROVE AccountsTypeOK'
  BY Zenon, <1>3 DEF AccountsTypeOK, SetTenant
<1>4. (\A o \in Orgs : org[o] \in AccountRows) /\ (\A t \in Tenants : tenant[t] \in AccountRows)
  BY Zenon DEF AccountsTypeOK
<1>5. ASSUME NEW t \in Tenants, CreateEnvironment(t) \/ EnableEnvironment(t) \/ DisableEnvironment(t)
      PROVE  AccountsTypeOK'
  BY Zenon, <1>5 DEF AccountsTypeOK, CreateEnvironment, EnableEnvironment, DisableEnvironment, WithEnvStatus, SetEnv
<1> QED
  BY Zenon, <1>1, <1>2, <1>3, <1>4, <1>5 DEF AccountStep, DeleteOrg, RestoreOrg, SuspendOrg, CreateTenant, DeleteTenant,
     SuspendTenant, ReactivateTenant

\* No statement removes a tenant's row.
LEMMA TenantsStay ==
  ASSUME AccountsTypeOK, AccountStep, NEW t \in Tenants, tenant[t].status # "none"
  PROVE  tenant'[t].status # "none"
<1>1. ASSUME NEW s \in Tenants, NEW r \in AccountRows, r.status # "none", SetTenant(s, r) PROVE tenant'[t].status # "none"
  BY Zenon, <1>1 DEF AccountsTypeOK, SetTenant
<1>2. /\ NewAccount \in AccountRows /\ NewAccount.status # "none"
      /\ \A r \in AccountRows : DeletedTenant(r) \in AccountRows /\ DeletedTenant(r).status # "none"
      /\ \A r \in AccountRows, s \in {"suspended", "active"} :
           [r EXCEPT !.status = s] \in AccountRows /\ [r EXCEPT !.status = s].status # "none"
  BY Zenon DEF NewAccount, AccountRows, Statuses, DeletedTenant
<1>3. ASSUME NEW s \in Tenants, CreateTenant(s) \/ DeleteTenant(s) PROVE tenant'[t].status # "none"
  BY Zenon, <1>1, <1>2, <1>3 DEF CreateTenant, DeleteTenant, AccountsTypeOK
<1>4. ASSUME NEW s \in Tenants, NEW c \in Orgs \cup {Platform}, SuspendTenant(c, s) \/ ReactivateTenant(c, s)
      PROVE  tenant'[t].status # "none"
  BY Zenon, <1>1, <1>2, <1>4 DEF SuspendTenant, ReactivateTenant, AccountsTypeOK
<1>5. ASSUME UNCHANGED tenant PROVE tenant'[t].status # "none"
  BY Zenon, <1>5
<1> QED
  BY Zenon, <1>3, <1>4, <1>5 DEF AccountStep, DeleteOrg, RestoreOrg, SuspendOrg, SetOrg, CreateEnvironment,
     EnableEnvironment, DisableEnvironment, WithEnvStatus, SetEnv

\* What a request to the API of keys keeps in memory has its type at each of
\* its steps.
LEMMA AdminRows ==
  ASSUME ApiKeysTypeOK, now \in Nat, NEW a \in Admins
  PROVE  /\ IdleAdmin \in AdminStates
         /\ \A k \in Keys, e \in Nat, pc \in {"settings", "update", "delete", "view"} :
              [IdleAdmin EXCEPT !.pc = pc, !.key = k, !.exp = e] \in AdminStates
         /\ \A act \in AuditActions : [admin[a] EXCEPT !.pc = "audit", !.act = act] \in AdminStates
         /\ \A s \in SettingsRows :
              /\ [admin[a] EXCEPT !.rules = s, !.exp = EffectiveExpiry(admin[a].exp, s), !.pc = "insert"] \in AdminStates
              /\ [admin[a] EXCEPT !.rules = s, !.pc = "count"] \in AdminStates
         /\ [admin[a] EXCEPT !.raced = TRUE] \in AdminStates
<1>1. admin[a] \in AdminStates
  BY Zenon DEF ApiKeysTypeOK
<1>2. NoSettings \in SettingsRows
  BY Zenon DEF NoSettings, SettingsRows
<1>3. IdleAdmin \in AdminStates
  BY Zenon, <1>2 DEF IdleAdmin, AdminStates, AuditActions
<1>4. ASSUME NEW s \in SettingsRows PROVE EffectiveExpiry(admin[a].exp, s) \in Nat
  BY <1>1 DEF EffectiveExpiry, SettingsRows, AdminStates
<1>5. ASSUME NEW k \in Keys, NEW e \in Nat, NEW pc \in {"settings", "update", "delete", "view"}
      PROVE  [IdleAdmin EXCEPT !.pc = pc, !.key = k, !.exp = e] \in AdminStates
  BY Zenon, <1>3 DEF AdminStates
<1>6. ASSUME NEW act \in AuditActions PROVE [admin[a] EXCEPT !.pc = "audit", !.act = act] \in AdminStates
  BY Zenon, <1>1 DEF AdminStates
<1>7. ASSUME NEW s \in SettingsRows, NEW e \in Nat
      PROVE  /\ [admin[a] EXCEPT !.rules = s, !.exp = e, !.pc = "insert"] \in AdminStates
             /\ [admin[a] EXCEPT !.rules = s, !.pc = "count"] \in AdminStates
  BY Zenon, <1>1 DEF AdminStates
<1>8. [admin[a] EXCEPT !.raced = TRUE] \in AdminStates
  BY Zenon, <1>1 DEF AdminStates
<1> QED
  BY Zenon, <1>3, <1>4, <1>5, <1>6, <1>7, <1>8

\* A step of a request changes what that request keeps in memory and nothing
\* else, but for the INSERT of a key, which races other creations.
Moves(a, m) == admin' = [admin EXCEPT ![a] = m]

Prepared(a, s) == [admin[a] EXCEPT !.rules = s, !.exp = EffectiveExpiry(admin[a].exp, s), !.pc = "insert"]

LEMMA AdminMoves ==
  ASSUME NEW a \in Admins
  PROVE  /\ Done(a) => Moves(a, IdleAdmin)
         /\ \A k, pc, e : Begin(a, k, pc, e) => Moves(a, [IdleAdmin EXCEPT !.pc = pc, !.key = k, !.exp = e])
         /\ \A act : ApiKeysTypeOK /\ ToAudit(a, act) => Moves(a, [admin[a] EXCEPT !.pc = "audit", !.act = act])
         /\ \A s : Prepare(a, s) => Moves(a, Prepared(a, s))
         /\ \A s : ApiKeysTypeOK /\ admin' = [admin EXCEPT ![a].rules = s, ![a].pc = "count"]
                     => Moves(a, [admin[a] EXCEPT !.rules = s, !.pc = "count"])
<1>1. Done(a) => Moves(a, IdleAdmin)
  BY Zenon DEF Done, Moves
<1>2. \A k, pc, e : Begin(a, k, pc, e) => Moves(a, [IdleAdmin EXCEPT !.pc = pc, !.key = k, !.exp = e])
  BY Zenon DEF Begin, Moves
<1>3. \A act : ApiKeysTypeOK /\ ToAudit(a, act) => Moves(a, [admin[a] EXCEPT !.pc = "audit", !.act = act])
  BY Zenon DEF ToAudit, Moves, ApiKeysTypeOK
<1>4. \A s : Prepare(a, s) => Moves(a, Prepared(a, s))
  BY Zenon DEF Prepare, Moves, Prepared
<1>5. \A s : ApiKeysTypeOK /\ admin' = [admin EXCEPT ![a].rules = s, ![a].pc = "count"]
                     => Moves(a, [admin[a] EXCEPT !.rules = s, !.pc = "count"])
  BY Zenon DEF Moves, ApiKeysTypeOK
<1> QED
  BY Zenon, <1>1, <1>2, <1>3, <1>4, <1>5

\* A request at work is about one key.
Known ==
    /\ \A a \in Admins : admin[a].pc # "idle" => admin[a].key \in Keys
    /\ \A q \in Requests : request[q].pc # "idle" => request[q].key \in Keys

TypeInv == TypeOK /\ Known

Creating == {"settings", "count", "insert"}

\* What a step of request a other than the INSERT leaves it in: the request is
\* over; it was accepted, to create a fresh key or to change one that it found;
\* a creation goes on, under its limit; or a key was changed or deleted and the
\* audit record is still to be written.
Effect(a, m) ==
    \/ m.pc = "idle" /\ m.key = NoKey
    \/ m.key \in Keys /\ Unused(m.key) /\ m.pc = "settings"
    \/ m.key \in Keys /\ Found(m.key) /\ m.pc \in {"update", "delete", "view"}
    \/ /\ m.key = admin[a].key /\ admin[a].pc \in Creating /\ m.pc \in {"count", "insert"}
       /\ m.pc = "insert" /\ m.rules.max # 0 => ~AtLimit(m.key, m.rules.max)
    \/ m.key = admin[a].key /\ admin[a].pc \in {"update", "view"} /\ m.pc = "audit" /\ m.act # "deleted"
    \/ /\ m.key = admin[a].key /\ admin[a].pc = "delete" /\ m.pc = "audit" /\ m.act = "deleted"
       /\ Found(m.key) /\ keys' = [keys EXCEPT ![m.key].deleted = TRUE]

\* Every step of a request but the INSERT of a key moves only that request.
LEMMA RequestMoves ==
  ASSUME TypeInv, NEW a \in Admins, BeginRequest(a) \/ ContinueRequest(a), ~InsertKey(a)
  PROVE  \E m \in AdminStates : Moves(a, m) /\ Effect(a, m)
<1>1. ApiKeysTypeOK /\ now \in Nat /\ admin[a] \in AdminStates /\ IdleAdmin.pc = "idle" /\ IdleAdmin.key = NoKey
  BY DEF TypeInv, TypeOK, ApiKeysTypeOK, IdleAdmin
<1>2. ASSUME NEW k \in Keys, NEW f \in Nat, NEW pc \in {"settings", "update", "delete", "view"}, Begin(a, k, pc, f),
             IF pc = "settings" THEN Unused(k) ELSE Found(k)
      PROVE  \E m \in AdminStates : Moves(a, m) /\ Effect(a, m)
  <2> DEFINE m == [IdleAdmin EXCEPT !.pc = pc, !.key = k, !.exp = f]
  <2>1. Moves(a, m) /\ m \in AdminStates
    BY Zenon, <1>1, <1>2, AdminRows, AdminMoves
  <2>2. m.key = k /\ m.pc = pc
    BY Zenon DEF IdleAdmin
  <2> HIDE DEF m
  <2>3. Effect(a, m)
    BY Zenon, <1>2, <2>2 DEF Effect
  <2> QED
    BY Zenon, <2>1, <2>3
<1>3. ASSUME Done(a) PROVE \E m \in AdminStates : Moves(a, m) /\ Effect(a, m)
  BY Zenon, <1>1, <1>3, AdminRows, AdminMoves DEF Effect
<1>4. ASSUME NEW act \in AuditActions, ToAudit(a, act),
             \/ admin[a].pc \in {"update", "view"} /\ act # "deleted"
             \/ admin[a].pc = "delete" /\ act = "deleted" /\ Found(admin[a].key) /\ keys' = [keys EXCEPT ![admin[a].key].deleted = TRUE]
      PROVE  \E m \in AdminStates : Moves(a, m) /\ Effect(a, m)
  <2> DEFINE m == [admin[a] EXCEPT !.pc = "audit", !.act = act]
  <2>1. Moves(a, m) /\ m \in AdminStates
    BY Zenon, <1>1, <1>4, AdminRows, AdminMoves
  <2>2. m.key = admin[a].key /\ m.pc = "audit" /\ m.act = act
    BY Zenon, <1>1 DEF AdminStates
  <2> HIDE DEF m
  <2>3. Effect(a, m)
    BY Zenon, <1>4, <2>2 DEF Effect
  <2> QED
    BY Zenon, <2>1, <2>3
<1>5. ASSUME NEW s \in SettingsRows, Prepare(a, s), admin[a].pc \in Creating, s.max # 0 => ~AtLimit(admin[a].key, s.max)
      PROVE  \E m \in AdminStates : Moves(a, m) /\ Effect(a, m)
  <2> DEFINE m == Prepared(a, s)
  <2>1. Moves(a, m) /\ m \in AdminStates
    BY Zenon, <1>1, <1>5, AdminRows, AdminMoves DEF Prepared
  <2>2. m.key = admin[a].key /\ m.pc = "insert" /\ m.rules = s
    BY Zenon, <1>1 DEF AdminStates, Prepared
  <2> HIDE DEF m
  <2>3. Effect(a, m)
    BY Zenon, <1>5, <2>2 DEF Effect
  <2> QED
    BY Zenon, <2>1, <2>3
<1>6. ASSUME NEW s \in SettingsRows, admin' = [admin EXCEPT ![a].rules = s, ![a].pc = "count"], admin[a].pc \in Creating
      PROVE  \E m \in AdminStates : Moves(a, m) /\ Effect(a, m)
  <2> DEFINE m == [admin[a] EXCEPT !.rules = s, !.pc = "count"]
  <2>1. Moves(a, m) /\ m \in AdminStates
    BY Zenon, <1>1, <1>6, AdminRows, AdminMoves
  <2>2. m.key = admin[a].key /\ m.pc = "count"
    BY Zenon, <1>1 DEF AdminStates
  <2> HIDE DEF m
  <2>3. Effect(a, m)
    BY Zenon, <1>6, <2>2 DEF Effect
  <2> QED
    BY Zenon, <2>1, <2>3
<1>7. ASSUME ReadSettings(a) PROVE \E m \in AdminStates : Moves(a, m) /\ Effect(a, m)
  <2>1. SettingsFor(admin[a].key) \in SettingsRows /\ admin[a].pc \in Creating
    BY Zenon, <1>1, <1>7, AuthAssumption DEF TypeInv, Known, ApiKeysTypeOK, SettingsFor, ReadSettings, Creating
  <2> QED
    BY Zenon, <1>5, <1>6, <1>7, <2>1 DEF ReadSettings
<1>8. ASSUME CheckLimit(a) PROVE \E m \in AdminStates : Moves(a, m) /\ Effect(a, m)
  <2>1. admin[a].rules \in SettingsRows /\ admin[a].pc \in Creating
    BY Zenon, <1>1, <1>8 DEF AdminStates, CheckLimit, Creating
  <2> QED
    BY Zenon, <1>3, <1>5, <1>8, <2>1 DEF CheckLimit
<1>9. ASSUME WriteUpdate(a) \/ WriteDelete(a) \/ ViewKey(a) \/ InsertAudit(a) \/ RequestStops(a)
      PROVE  \E m \in AdminStates : Moves(a, m) /\ Effect(a, m)
  <2>1. {"updated", "deleted", "revealed"} \subseteq AuditActions /\ "updated" # "deleted" /\ "revealed" # "deleted"
    BY Zenon DEF AuditActions
  <2>2. \/ Done(a)
        \/ admin[a].pc = "update" /\ ToAudit(a, "updated")
        \/ admin[a].pc = "view" /\ ToAudit(a, "revealed")
        \/ admin[a].pc = "delete" /\ ToAudit(a, "deleted") /\ Found(admin[a].key) /\ keys' = [keys EXCEPT ![admin[a].key].deleted = TRUE]
    BY Zenon, <1>9 DEF WriteUpdate, WriteDelete, ViewKey, InsertAudit, RequestStops
  <2> QED
    BY Zenon, <1>3, <1>4, <2>1, <2>2
<1>10. ASSUME BeginRequest(a) PROVE \E m \in AdminStates : Moves(a, m) /\ Effect(a, m)
  <2>1. Expiries \subseteq Nat /\ 0 \in Nat /\ Keys \ Defaults \subseteq Keys /\ "settings" \notin {"update", "delete", "view"}
    BY Zenon, AuthAssumption
  <2>2. \E k \in Keys, f \in Nat, pc \in {"settings", "update", "delete", "view"} :
          Begin(a, k, pc, f) /\ IF pc = "settings" THEN Unused(k) ELSE Found(k)
    BY Zenon, <1>10, <2>1 DEF BeginRequest, CreateKey, UpdateKey, DeleteKey, RevealKey
  <2> QED
    BY Zenon, <1>2, <2>2
<1> QED
  BY Zenon, <1>7, <1>8, <1>9, <1>10 DEF ContinueRequest

\* The INSERT of a key marks the other creations it races with.
LEMMA InsertMoves ==
  ASSUME TypeInv, NEW a \in Admins, InsertKey(a)
  PROVE  /\ admin[a].pc = "insert" /\ admin[a].key \in Keys
         /\ keys' = [keys EXCEPT ![admin[a].key] = NewKey(admin[a].exp, admin[a].rules)]
         /\ admin' \in [Admins -> AdminStates]
         /\ admin'[a] = [admin[a] EXCEPT !.pc = "audit", !.act = "created"]
         /\ \A b \in Admins \ {a} :
              admin'[b] = IF admin[b].pc = "insert" /\ SameUser(admin[b].key, admin[a].key)
                          THEN [admin[b] EXCEPT !.raced = TRUE] ELSE admin[b]
         /\ UNCHANGED <<settings, audit>>
<1>1. admin[a].pc = "insert" /\ admin[a].key \in Keys
  BY Zenon DEF InsertKey, TypeInv, Known
<1>2. ApiKeysTypeOK /\ now \in Nat /\ "created" \in AuditActions
  BY DEF TypeInv, TypeOK, AuditActions
<1>3. \A b \in Admins :
        /\ admin[b] \in AdminStates /\ [admin[b] EXCEPT !.pc = "audit", !.act = "created"] \in AdminStates
        /\ [admin[b] EXCEPT !.raced = TRUE] \in AdminStates
  BY Zenon, <1>2, AdminRows DEF ApiKeysTypeOK
<1> DEFINE F(b) == IF b = a THEN [admin[a] EXCEPT !.pc = "audit", !.act = "created"]
                   ELSE IF admin[b].pc = "insert" /\ SameUser(admin[b].key, admin[a].key) THEN [admin[b] EXCEPT !.raced = TRUE]
                   ELSE admin[b]
<1>4. admin' = [b \in Admins |-> F(b)] /\ UNCHANGED <<settings, audit>>
      /\ keys' = [keys EXCEPT ![admin[a].key] = NewKey(admin[a].exp, admin[a].rules)]
  BY Zenon DEF InsertKey
<1>5. \A b \in Admins : F(b) \in AdminStates
  BY Zenon, <1>3
<1>6. /\ F(a) = [admin[a] EXCEPT !.pc = "audit", !.act = "created"]
      /\ \A b \in Admins \ {a} : F(b) = IF admin[b].pc = "insert" /\ SameUser(admin[b].key, admin[a].key)
                          THEN [admin[b] EXCEPT !.raced = TRUE] ELSE admin[b]
  BY Zenon
<1> HIDE DEF F
<1>7. admin' \in [Admins -> AdminStates] /\ \A b \in Admins : admin'[b] = F(b)
  BY Zenon, <1>4, <1>5
<1> QED
  BY Zenon, <1>1, <1>4, <1>6, <1>7

\* It marks them and changes nothing else of them.
LEMMA InsertKeeps ==
  ASSUME TypeInv, NEW a \in Admins, InsertKey(a)
  PROVE  /\ admin'[a].pc = "audit" /\ admin'[a].act = "created" /\ admin'[a].key = admin[a].key
         /\ \A b \in Admins \ {a} :
              /\ admin'[b].pc = admin[b].pc /\ admin'[b].key = admin[b].key /\ admin'[b].act = admin[b].act
              /\ admin'[b].rules = admin[b].rules
              /\ admin'[b].raced = (admin[b].raced \/ (admin[b].pc = "insert" /\ SameUser(admin[b].key, admin[a].key)))
<1>1. \A b \in Admins : admin[b] \in AdminStates
  BY Zenon DEF TypeInv, TypeOK, ApiKeysTypeOK
<1>2. admin'[a] = [admin[a] EXCEPT !.pc = "audit", !.act = "created"]
  BY Zenon, InsertMoves
<1>3. ASSUME NEW b \in Admins \ {a}
      PROVE  admin'[b] = IF admin[b].pc = "insert" /\ SameUser(admin[b].key, admin[a].key) THEN [admin[b] EXCEPT !.raced = TRUE] ELSE admin[b]
  BY Zenon, InsertMoves
<1>4. admin'[a].pc = "audit" /\ admin'[a].act = "created" /\ admin'[a].key = admin[a].key
  BY Zenon, <1>1, <1>2 DEF AdminStates
<1>5. ASSUME NEW b \in Admins \ {a}
      PROVE  /\ admin'[b].pc = admin[b].pc /\ admin'[b].key = admin[b].key /\ admin'[b].act = admin[b].act
             /\ admin'[b].rules = admin[b].rules
             /\ admin'[b].raced = (admin[b].raced \/ (admin[b].pc = "insert" /\ SameUser(admin[b].key, admin[a].key)))
  BY Zenon, <1>1, <1>3 DEF AdminStates
<1> QED
  BY Zenon, <1>4, <1>5

\* What a request writes to the table of keys, if it writes there at all.
LEMMA KeyWrites ==
  ASSUME TypeInv, NEW a \in Admins, BeginRequest(a) \/ ContinueRequest(a)
  PROVE  \/ UNCHANGED keys
         \/ InsertKey(a)
         \/ \E e \in Nat : /\ admin[a].key \in Keys /\ Found(admin[a].key)
                           /\ keys' = [keys EXCEPT ![admin[a].key] = UpdatedKey(keys[admin[a].key], e)]
         \/ WriteDelete(a) /\ admin[a].key \in Keys /\ Found(admin[a].key) /\ keys' = [keys EXCEPT ![admin[a].key].deleted = TRUE]
<1>1. admin[a] \in AdminStates /\ admin[a].exp \in Nat
  BY Zenon DEF TypeInv, TypeOK, ApiKeysTypeOK, AdminStates
<1>2. ASSUME WriteUpdate(a) \/ WriteDelete(a) PROVE admin[a].key \in Keys
  BY Zenon, <1>2 DEF WriteUpdate, WriteDelete, TypeInv, Known
<1> QED
  BY Zenon, <1>1, <1>2 DEF BeginRequest, CreateKey, UpdateKey, DeleteKey, RevealKey, ContinueRequest, ReadSettings, CheckLimit,
     WriteUpdate, WriteDelete, ViewKey, InsertAudit, RequestStops

\* The rows written have the type of the table.
LEMMA KeyRows ==
  /\ \A e \in Nat, s \in SettingsRows : NewKey(e, s) \in ApiKeyRows
  /\ \A r \in ApiKeyRows, e \in Nat : UpdatedKey(r, e) \in ApiKeyRows
  /\ \A r \in ApiKeyRows : [r EXCEPT !.deleted = TRUE] \in ApiKeyRows
<1>1. \A e \in Nat, s \in SettingsRows : NewKey(e, s) \in ApiKeyRows
  BY Zenon DEF NewKey, ApiKeyRows, SettingsRows
<1>2. \A r \in ApiKeyRows, e \in Nat : UpdatedKey(r, e) \in ApiKeyRows
  BY Zenon DEF UpdatedKey, ApiKeyRows
<1>3. \A r \in ApiKeyRows : [r EXCEPT !.deleted = TRUE] \in ApiKeyRows
  BY Zenon DEF ApiKeyRows
<1> QED
  BY Zenon, <1>1, <1>2, <1>3

\* The handlers of the API of keys write rows of the types of their tables.
LEMMA RequestTypes ==
  ASSUME TypeInv, NEW a \in Admins, BeginRequest(a) \/ ContinueRequest(a)
  PROVE  ApiKeysTypeOK' /\ \A b \in Admins : admin'[b].pc # "idle" => admin'[b].key \in Keys
<1>1. ApiKeysTypeOK /\ \A b \in Admins : admin[b] \in AdminStates /\ (admin[b].pc # "idle" => admin[b].key \in Keys)
  BY Zenon DEF TypeInv, TypeOK, ApiKeysTypeOK, Known
<1>2. admin' \in [Admins -> AdminStates] /\ \A b \in Admins : admin'[b].pc # "idle" => admin'[b].key \in Keys
  <2>1. ASSUME NEW m \in AdminStates, Moves(a, m), Effect(a, m)
        PROVE  admin' \in [Admins -> AdminStates] /\ \A b \in Admins : admin'[b].pc # "idle" => admin'[b].key \in Keys
    <3>1. m.pc # "idle" => m.key \in Keys
      BY Zenon, <1>1, <2>1 DEF Effect, Creating
    <3> QED
      BY Zenon, <1>1, <2>1, <3>1 DEF Moves, ApiKeysTypeOK
  <2>2. ASSUME InsertKey(a), NEW b \in Admins PROVE admin'[b].pc # "idle" => admin'[b].key \in Keys
    <3>1. /\ admin[a].pc = "insert" /\ admin'[a] = [admin[a] EXCEPT !.pc = "audit", !.act = "created"]
          /\ b # a => admin'[b] \in {admin[b], [admin[b] EXCEPT !.raced = TRUE]}
      BY Zenon, <2>2, InsertMoves
    <3>2. ASSUME b = a PROVE admin'[b].key \in Keys
      BY Zenon, <1>1, <3>1, <3>2 DEF AdminStates
    <3>3. ASSUME b # a PROVE admin'[b].key = admin[b].key /\ admin'[b].pc = admin[b].pc
      BY Zenon, <1>1, <3>1, <3>3 DEF AdminStates
    <3> QED
      BY Zenon, <1>1, <3>2, <3>3
  <2> QED
    BY Zenon, <2>1, <2>2, RequestMoves, InsertMoves
<1>3. keys' \in [Keys -> ApiKeyRows]
  <2>1. ASSUME NEW k \in Keys, NEW r \in ApiKeyRows, keys' = [keys EXCEPT ![k] = r] PROVE keys' \in [Keys -> ApiKeyRows]
    BY Zenon, <1>1, <2>1 DEF ApiKeysTypeOK
  <2>2. ASSUME InsertKey(a) PROVE keys' \in [Keys -> ApiKeyRows]
    <3>1. admin[a].exp \in Nat /\ admin[a].rules \in SettingsRows
      BY Zenon, <1>1 DEF AdminStates
    <3>2. NewKey(admin[a].exp, admin[a].rules) \in ApiKeyRows
      BY Zenon, <3>1, KeyRows
    <3>3. admin[a].key \in Keys /\ keys' = [keys EXCEPT ![admin[a].key] = NewKey(admin[a].exp, admin[a].rules)]
      BY Zenon, <2>2, InsertMoves
    <3> QED
      BY Zenon, <2>1, <3>2, <3>3
  <2>3. ASSUME NEW k \in Keys, keys' = [keys EXCEPT ![k].deleted = TRUE] PROVE keys' \in [Keys -> ApiKeyRows]
    BY Zenon, <1>1, <2>3, KeyRows DEF ApiKeysTypeOK
  <2>4. \A k \in Keys : keys[k] \in ApiKeyRows
    BY Zenon, <1>1 DEF ApiKeysTypeOK
  <2>5. keys \in [Keys -> ApiKeyRows]
    BY Zenon, <1>1 DEF ApiKeysTypeOK
  <2> QED
    BY Zenon, <2>1, <2>2, <2>3, <2>4, <2>5, KeyWrites, KeyRows
<1>4. settings' \in [Tenants -> SettingsRows] /\ audit' \in [Keys -> [AuditActions -> Nat]]
  <2>1. ASSUME InsertAudit(a) PROVE settings' \in [Tenants -> SettingsRows] /\ audit' \in [Keys -> [AuditActions -> Nat]]
    BY <1>1, <2>1 DEF InsertAudit, ApiKeysTypeOK, AdminStates
  <2>2. ~InsertAudit(a) => UNCHANGED <<settings, audit>>
    BY Zenon DEF BeginRequest, CreateKey, UpdateKey, DeleteKey, RevealKey, ContinueRequest, ReadSettings, CheckLimit, InsertKey,
       WriteUpdate, WriteDelete, ViewKey, RequestStops
  <2> QED
    BY Zenon, <1>1, <2>1, <2>2 DEF ApiKeysTypeOK
<1> QED
  BY Zenon, <1>2, <1>3, <1>4 DEF ApiKeysTypeOK

\* A step writes the tables, asks, lets the clock advance or answers.
WriteStep ==
    \/ \E k \in Defaults : Bootstrap(k)
    \/ OnAccounts
    \/ \E a \in Admins : BeginRequest(a) \/ ContinueRequest(a)
    \/ ChangeSettings

AskStep ==
    \/ \E q \in Requests, k \in Presented : CacheMiss(q, k)
    \/ \E q \in Requests : SelectRow(q) \/ Abandon(q)
    \/ \E k \in Keys : Evict(k)

AnswerStep ==
    \/ \E q \in Requests, k \in Presented : CacheHit(q, k)
    \/ \E q \in Requests : SelectNothing(q) \/ FillAndAnswer(q)

LEMMA FourKinds ==
  ASSUME [Next]_vars
  PROVE  \/ WriteStep /\ Observe /\ UNCHANGED <<now, authVars>>
         \/ AskStep /\ Observe /\ UNCHANGED <<accounts, keyVars, now>>
         \/ Tick /\ Observe /\ UNCHANGED <<accounts, keyVars, authVars>>
         \/ AnswerStep /\ UNCHANGED <<accounts, keyVars, now, left, history>>
         \/ UNCHANGED vars
<1>1. Next => WriteStep \/ AskStep \/ Tick \/ AnswerStep
  BY Zenon DEF Next, WriteStep, AskStep, AnswerStep
<1>2. WriteStep => Observe /\ UNCHANGED <<now, authVars>>
  BY Zenon DEF WriteStep, Bootstrap, OnAccounts, BeginRequest, ContinueRequest, ChangeSettings
<1>3. AskStep => Observe /\ UNCHANGED <<accounts, keyVars, now>>
  BY Zenon DEF AskStep, CacheMiss, SelectRow, Abandon, Evict
<1>4. Tick => Observe /\ UNCHANGED <<accounts, keyVars, authVars>>
  BY Zenon DEF Tick
<1>5. AnswerStep => UNCHANGED <<accounts, keyVars, now, left, history>>
  BY Zenon DEF AnswerStep, CacheHit, SelectNothing, FillAndAnswer, authVars
<1> QED
  BY Zenon, <1>1, <1>2, <1>3, <1>4, <1>5

\* Every step spends one operation of some kind or none.
LEMMA BudgetType ==
  ASSUME TypeOK, [Next]_vars
  PROVE  left' \in [Kinds -> Nat]
<1>1. left' = left \/ \E kind \in Kinds : Spend(kind)
  <2>1. {"account", "create", "change", "settings", "lookup", "tick"} = Kinds
    BY Zenon DEF Kinds
  <2>2. WriteStep => left' = left \/ \E kind \in Kinds : Spend(kind)
    BY Zenon, <2>1 DEF WriteStep, Bootstrap, OnAccounts, BeginRequest, ContinueRequest, ChangeSettings
  <2>3. AskStep => left' = left \/ \E kind \in Kinds : Spend(kind)
    BY Zenon, <2>1 DEF AskStep, CacheMiss, SelectRow, Abandon, Evict
  <2>4. Tick => \E kind \in Kinds : Spend(kind)
    BY Zenon, <2>1 DEF Tick
  <2> QED
    BY Zenon, <2>2, <2>3, <2>4, FourKinds DEF vars
<1>2. ASSUME NEW kind \in Kinds, Spend(kind) PROVE left' \in [Kinds -> Nat]
  BY <1>2 DEF TypeOK, Spend
<1> QED
  BY Zenon, <1>1, <1>2 DEF TypeOK

\* The tables keep their types.
LEMMA TableTypes ==
  ASSUME TypeInv, [Next]_vars
  PROVE  AccountsTypeOK' /\ ApiKeysTypeOK' /\ \A b \in Admins : admin'[b].pc # "idle" => admin'[b].key \in Keys
<1>1. AccountsTypeOK /\ ApiKeysTypeOK /\ \A b \in Admins : admin[b].pc # "idle" => admin[b].key \in Keys
  BY Zenon DEF TypeInv, TypeOK, Known
<1>2. ASSUME UNCHANGED accounts PROVE AccountsTypeOK'
  BY Zenon, <1>1, <1>2 DEF accounts, AccountsTypeOK
<1>3. ASSUME UNCHANGED keyVars PROVE ApiKeysTypeOK' /\ \A b \in Admins : admin'[b].pc # "idle" => admin'[b].key \in Keys
  BY Zenon, <1>1, <1>3 DEF keyVars, ApiKeysTypeOK
<1>4. ASSUME NEW k \in Defaults, Bootstrap(k)
      PROVE  AccountsTypeOK' /\ ApiKeysTypeOK' /\ \A b \in Admins : admin'[b].pc # "idle" => admin'[b].key \in Keys
  <2>1. NewAccount \in AccountRows /\ NoSettings \in SettingsRows /\ 0 \in Nat /\ k \in Keys
    BY Zenon, AuthAssumption DEF NewAccount, AccountRows, Statuses, NoSettings, SettingsRows
  <2>2. NewKey(0, NoSettings) \in ApiKeyRows
    BY Zenon, <2>1, KeyRows
  <2>3. AccountsTypeOK'
    BY Zenon, <1>1, <1>4, <2>1 DEF Bootstrap, BootstrapAccounts, AccountsTypeOK
  <2>4. keys' \in [Keys -> ApiKeyRows]
    BY Zenon, <1>1, <1>4, <2>1, <2>2 DEF Bootstrap, ApiKeysTypeOK
  <2>5. UNCHANGED <<settings, admin, audit>>
    BY Zenon, <1>4 DEF Bootstrap
  <2> QED
    BY Zenon, <1>1, <2>3, <2>4, <2>5 DEF ApiKeysTypeOK
<1>5. ASSUME OnAccounts PROVE AccountsTypeOK' /\ UNCHANGED keyVars
  BY Zenon, <1>1, <1>5, AccountTypes DEF OnAccounts, keyVars
<1>6. ASSUME NEW a \in Admins, BeginRequest(a) \/ ContinueRequest(a) PROVE UNCHANGED accounts
  BY Zenon, <1>6 DEF BeginRequest, ContinueRequest
<1>7. ASSUME ChangeSettings
      PROVE  UNCHANGED accounts /\ ApiKeysTypeOK' /\ \A b \in Admins : admin'[b].pc # "idle" => admin'[b].key \in Keys
  <2>1. PICK t \in Tenants, s \in SettingsChoices : StoreSettings(t, s) /\ UNCHANGED <<keys, admin, audit>>
    BY Zenon, <1>7 DEF ChangeSettings, UpsertSettings, UpdateSettings
  <2>2. [s EXCEPT !.stored = TRUE] \in SettingsRows
    BY ZenonT(40), AuthAssumption DEF SettingsRows
  <2>3. settings' \in [Tenants -> SettingsRows]
    BY Zenon, <1>1, <2>1, <2>2 DEF StoreSettings, ApiKeysTypeOK
  <2>4. UNCHANGED accounts
    BY Zenon, <1>7 DEF ChangeSettings
  <2> QED
    BY Zenon, <1>1, <2>1, <2>3, <2>4 DEF ApiKeysTypeOK
<1>8. ASSUME UNCHANGED vars PROVE UNCHANGED <<accounts, keyVars>>
  BY Zenon, <1>8 DEF vars, accounts, keyVars
<1>9. ASSUME WriteStep
      PROVE AccountsTypeOK' /\ ApiKeysTypeOK' /\ \A b \in Admins : admin'[b].pc # "idle" => admin'[b].key \in Keys
  BY Zenon, <1>2, <1>3, <1>4, <1>5, <1>6, <1>7, <1>9, RequestTypes DEF WriteStep
<1> QED
  BY Zenon, <1>2, <1>3, <1>8, <1>9, FourKinds

\* The joined row a request reads has the type of the cached rows.
LEMMA JoinedType ==
  ASSUME TypeOK, NEW k \in Keys
  PROVE  Joined(k) \in JoinedRows
<1>1. keys[k] \in ApiKeyRows /\ TenantOf[k] \in Tenants /\ OrgOf[TenantOf[k]] \in Orgs
  BY Zenon, AuthAssumption DEF TypeOK, ApiKeysTypeOK
<1>2. org[OrgOf[TenantOf[k]]] \in AccountRows /\ tenant[TenantOf[k]] \in AccountRows
  BY Zenon, <1>1 DEF TypeOK, AccountsTypeOK
<1> QED
  BY Zenon, <1>1, <1>2 DEF Joined, JoinedRows

LEMMA NoRows == NoRow \in JoinedRows /\ NoEntry \in Entries /\ IdleRequest \in RequestStates /\ NoEntry.full = FALSE /\ IdleRequest.pc = "idle"
<1>1. NoRow \in JoinedRows
  BY Zenon DEF NoRow, JoinedRows, NoApiKey, ApiKeyRows, NoAccount, AccountRows, Statuses
<1> QED
  BY Zenon, <1>1 DEF NoEntry, Entries, IdleRequest, RequestStates

\* Requests being authenticated keep states of their type, and cached entries
\* theirs.
LEMMA AuthTypes ==
  ASSUME TypeInv, [Next]_vars
  PROVE  /\ cache' \in [Keys -> Entries]
         /\ request' \in [Requests -> RequestStates]
         /\ \A q \in Requests : request'[q].pc # "idle" => request'[q].key \in Keys
<1>1. /\ cache \in [Keys -> Entries] /\ request \in [Requests -> RequestStates] /\ now \in Nat
      /\ \A q \in Requests : request[q].pc # "idle" => request[q].key \in Keys
  BY AuthAssumption DEF TypeInv, TypeOK, Known
<1>2. ASSUME UNCHANGED authVars
      PROVE  /\ cache' \in [Keys -> Entries] /\ request' \in [Requests -> RequestStates]
             /\ \A q \in Requests : request'[q].pc # "idle" => request'[q].key \in Keys
  BY Zenon, <1>1, <1>2 DEF authVars
<1>3. ASSUME NEW q \in Requests, NEW m \in RequestStates, m.pc # "idle" => m.key \in Keys, request' = [request EXCEPT ![q] = m]
      PROVE  /\ request' \in [Requests -> RequestStates]
             /\ \A p \in Requests : request'[p].pc # "idle" => request'[p].key \in Keys
  BY Zenon, <1>1, <1>3
<1>4. ASSUME NEW q \in Requests, NEW k \in Presented, CacheMiss(q, k)
      PROVE  /\ request' \in [Requests -> RequestStates]
             /\ \A p \in Requests : request'[p].pc # "idle" => request'[p].key \in Keys
             /\ UNCHANGED cache
  <2> DEFINE m == [IdleRequest EXCEPT !.pc = "select", !.key = k]
  <2>1. m \in RequestStates /\ m.key \in Keys
    BY Zenon, NoRows, AuthAssumption DEF RequestStates
  <2>2. request' = [request EXCEPT ![q] = m] /\ UNCHANGED cache
    BY Zenon, <1>4 DEF CacheMiss
  <2> HIDE DEF m
  <2> QED
    BY Zenon, <1>3, <2>1, <2>2
<1>5. ASSUME NEW q \in Requests, SelectRow(q)
      PROVE  /\ request' \in [Requests -> RequestStates]
             /\ \A p \in Requests : request'[p].pc # "idle" => request'[p].key \in Keys
             /\ UNCHANGED cache
  <2> DEFINE m == [request[q] EXCEPT !.pc = "fill", !.row = Joined(request[q].key), !.read = now]
  <2>0. request[q].key \in Keys /\ request[q] \in RequestStates
    BY Zenon, <1>1, <1>5 DEF SelectRow
  <2>1. Joined(request[q].key) \in JoinedRows
    BY Zenon, <2>0, JoinedType DEF TypeInv
  <2>2. m \in RequestStates /\ m.key \in Keys
    BY Zenon, <1>1, <2>0, <2>1 DEF RequestStates
  <2>3. request' = [request EXCEPT ![q] = m] /\ UNCHANGED cache
    BY Zenon, <1>5 DEF SelectRow
  <2> HIDE DEF m
  <2> QED
    BY Zenon, <1>3, <2>2, <2>3
<1>6. ASSUME NEW q \in Requests, request' = [request EXCEPT ![q] = IdleRequest]
      PROVE  /\ request' \in [Requests -> RequestStates]
             /\ \A p \in Requests : request'[p].pc # "idle" => request'[p].key \in Keys
  BY Zenon, <1>3, <1>6, NoRows
<1>7. ASSUME NEW q \in Requests, FillAndAnswer(q) PROVE cache' \in [Keys -> Entries]
  <2>1. [full |-> TRUE, row |-> request[q].row, read |-> request[q].read, set |-> now] \in Entries
    BY Zenon, <1>1 DEF RequestStates, Entries
  <2> QED
    BY Zenon, <1>1, <1>7, <2>1 DEF FillAndAnswer, SetEx
<1>8. ASSUME NEW k \in Keys, Evict(k) PROVE cache' \in [Keys -> Entries] /\ UNCHANGED request
  BY Zenon, <1>1, <1>8, NoRows DEF Evict
<1>9. ASSUME AskStep
      PROVE  /\ cache' \in [Keys -> Entries] /\ request' \in [Requests -> RequestStates]
             /\ \A q \in Requests : request'[q].pc # "idle" => request'[q].key \in Keys
  BY Zenon, <1>1, <1>4, <1>5, <1>6, <1>8, <1>9 DEF AskStep, Abandon
<1>10. ASSUME AnswerStep
      PROVE  /\ cache' \in [Keys -> Entries] /\ request' \in [Requests -> RequestStates]
             /\ \A q \in Requests : request'[q].pc # "idle" => request'[q].key \in Keys
  BY Zenon, <1>1, <1>2, <1>6, <1>7, <1>10 DEF AnswerStep, CacheHit, SelectNothing, FillAndAnswer
<1>11. ASSUME UNCHANGED vars PROVE UNCHANGED authVars
  BY Zenon, <1>11 DEF vars, authVars
<1> QED
  BY Zenon, <1>2, <1>9, <1>10, <1>11, FourKinds

\* The clock and what is recorded of validity.
LEMMA HistoryTypes ==
  ASSUME TypeInv, [Next]_vars
  PROVE  /\ now' \in 1..MaxTime /\ now' \in {now, now + 1}
         /\ lastOk' \in [Keys -> 0..MaxTime] /\ lastBad' \in [Keys -> 0..MaxTime]
         /\ verdict' \in [cred: Keys \cup {NoKey}, ok: BOOLEAN]
<1>1. /\ now \in 1..MaxTime /\ lastOk \in [Keys -> 0..MaxTime] /\ lastBad \in [Keys -> 0..MaxTime]
      /\ verdict \in [cred: Keys \cup {NoKey}, ok: BOOLEAN] /\ MaxTime \in Nat
  BY Zenon, AuthAssumption DEF TypeInv, TypeOK
<1>2. now' \in 1..MaxTime /\ now' \in {now, now + 1}
  <2>1. ASSUME Tick PROVE now' \in 1..MaxTime /\ now' = now + 1
    BY <1>1, <2>1 DEF Tick
  <2>2. now' = now \/ Tick
    BY Zenon, FourKinds DEF vars
  <2> QED
    BY Zenon, <1>1, <2>1, <2>2
<1>3. ASSUME Observe PROVE lastOk' \in [Keys -> 0..MaxTime] /\ lastBad' \in [Keys -> 0..MaxTime]
  <2>1. now' \in 0..MaxTime
    BY <1>1, <1>2
  <2> QED
    BY Zenon, <1>1, <1>3, <2>1 DEF Observe
<1>4. NoVerdict \in [cred: Keys \cup {NoKey}, ok: BOOLEAN]
  BY Zenon DEF NoVerdict
<1>5. ASSUME AnswerStep PROVE verdict' \in [cred: Keys \cup {NoKey}, ok: BOOLEAN]
  <2>1. PICK k \in Keys, ok \in BOOLEAN : verdict' = [cred |-> k, ok |-> ok]
    <3>1. \A e, t : Validates(e, t) \in BOOLEAN
      BY Zenon DEF Validates
    <3>2. ASSUME NEW q \in Requests, SelectNothing(q) \/ FillAndAnswer(q) PROVE request[q].key \in Keys
      BY Zenon, <3>2 DEF TypeInv, Known, SelectNothing, FillAndAnswer
    <3>3. Presented \subseteq Keys /\ FALSE \in BOOLEAN
      BY Zenon, AuthAssumption
    <3> QED
      BY Zenon, <1>5, <3>1, <3>2, <3>3 DEF AnswerStep, CacheHit, SelectNothing, FillAndAnswer, Decide
  <2> QED
    BY Zenon, <2>1
<1>6. lastOk' \in [Keys -> 0..MaxTime] /\ lastBad' \in [Keys -> 0..MaxTime]
  BY Zenon, <1>1, <1>3, FourKinds DEF vars, history
<1>7. verdict' \in [cred: Keys \cup {NoKey}, ok: BOOLEAN]
  BY Zenon, <1>1, <1>4, <1>5, FourKinds DEF vars, Observe
<1> QED
  BY Zenon, <1>2, <1>6, <1>7

LEMMA InitTypes == Init => TypeInv
<1> SUFFICES ASSUME Init PROVE TypeInv
  OBVIOUS
<1>1. NoAccount \in AccountRows /\ NoApiKey \in ApiKeyRows /\ NoSettings \in SettingsRows
  BY Zenon DEF NoAccount, AccountRows, Statuses, NoApiKey, ApiKeyRows, NoSettings, SettingsRows
<1>2. IdleAdmin \in AdminStates /\ IdleAdmin.pc = "idle"
  BY Zenon, <1>1 DEF IdleAdmin, AdminStates, AuditActions
<1>3. AccountsTypeOK
  BY Zenon, <1>1 DEF Init, AccountsInit, AccountsTypeOK
<1>4. ApiKeysTypeOK
  BY Zenon, <1>1, <1>2 DEF Init, ApiKeysInit, ApiKeysTypeOK
<1>5. now \in 1..MaxTime /\ 1 \in 0..MaxTime /\ 0 \in 0..MaxTime
  BY AuthAssumption DEF Init
<1>6. lastOk \in [Keys -> 0..MaxTime] /\ lastBad \in [Keys -> 0..MaxTime]
  BY Zenon, <1>5 DEF Init
<1>7. cache \in [Keys -> Entries] /\ request \in [Requests -> RequestStates]
  BY Zenon, NoRows DEF Init
<1>8. left \in [Kinds -> Nat] /\ verdict \in [cred: Keys \cup {NoKey}, ok: BOOLEAN]
  BY Zenon, AuthAssumption DEF Init, NoVerdict
<1>9. Known
  BY Zenon, <1>2, NoRows DEF Known, Init, ApiKeysInit
<1> QED
  BY ZenonT(40), <1>3, <1>4, <1>5, <1>6, <1>7, <1>8, <1>9 DEF TypeInv, TypeOK

LEMMA NextTypes == TypeInv /\ [Next]_vars => TypeInv'
<1> SUFFICES ASSUME TypeInv, [Next]_vars PROVE TypeInv'
  OBVIOUS
<1>1. TypeOK
  BY Zenon DEF TypeInv
<1> QED
  BY Zenon, <1>1, TableTypes, AuthTypes, HistoryTypes, BudgetType DEF TypeInv, TypeOK, Known

-----------------------------------------------------------------------------
(* Answers are not older than the window                                   *)

\* What the database said of key k at time t, when its joined row was e: if
\* that was valid the key held then, and since then either something happened
\* to it or it still is so.
Snapshot(k, e, t) ==
    /\ t <= now
    /\ Validates(e, t) => t <= lastOk[k]
    /\ t <= lastBad[k] \/ (Joined(k) = e /\ Valid(k))

RecordInv == \A k \in Keys : lastOk[k] <= now /\ lastBad[k] <= now /\ (~Valid(k) => lastBad[k] = now)

CacheInv ==
    \A k \in Keys, e \in JoinedRows, t \in Nat :
        cache[k].full /\ cache[k].row = e /\ cache[k].read = t => Snapshot(k, e, t) /\ cache[k].set <= t + Hold

RequestInv ==
    \A q \in Requests, k \in Keys, e \in JoinedRows, t \in Nat :
        request[q].pc = "fill" /\ request[q].key = k /\ request[q].row = e /\ request[q].read = t
          => Snapshot(k, e, t) /\ now <= t + Hold

StaleInv == RecordInv /\ CacheInv /\ RequestInv

\* Bookkeeping keeps the records up to date and every snapshot true.
LEMMA ObserveRecords ==
  ASSUME TypeInv, TypeInv', RecordInv, Observe, now' \in {now, now + 1}
  PROVE  RecordInv'
<1> SUFFICES ASSUME NEW k \in Keys PROVE lastOk'[k] <= now' /\ lastBad'[k] <= now' /\ (~Valid(k)' => lastBad'[k] = now')
  BY Zenon DEF RecordInv
<1>1. now \in Nat /\ now' \in Nat /\ lastOk[k] \in Nat /\ lastBad[k] \in Nat /\ lastOk[k] <= now /\ lastBad[k] <= now
  BY AuthAssumption DEF TypeInv, TypeOK, RecordInv
<1>2. /\ lastOk'[k] = IF Valid(k)' THEN now' ELSE lastOk[k]
      /\ lastBad'[k] = IF Valid(k)' /\ Joined(k)' = Joined(k) THEN lastBad[k] ELSE now'
  BY Zenon DEF Observe
<1> QED
  BY <1>1, <1>2

LEMMA ObserveSnapshots ==
  ASSUME TypeInv, TypeInv', RecordInv, Observe, now' \in {now, now + 1}, NEW k \in Keys, NEW e \in JoinedRows, NEW t \in Nat, Snapshot(k, e, t)
  PROVE  Snapshot(k, e, t)'
<1>1. /\ now \in Nat /\ now' \in Nat /\ lastOk[k] \in Nat /\ lastBad[k] \in Nat /\ lastOk[k] <= now /\ lastBad[k] <= now
      /\ lastOk'[k] \in Nat /\ lastBad'[k] \in Nat
  BY AuthAssumption DEF TypeInv, TypeOK, RecordInv
<1>2. /\ lastOk'[k] = IF Valid(k)' THEN now' ELSE lastOk[k]
      /\ lastBad'[k] = IF Valid(k)' /\ Joined(k)' = Joined(k) THEN lastBad[k] ELSE now'
  BY Zenon DEF Observe
<1> QED
  BY <1>1, <1>2 DEF Snapshot

\* A row is selected: a snapshot of the moment.
LEMMA SelectSnapshot ==
  ASSUME TypeInv, TypeInv', Observe, UNCHANGED <<accounts, keyVars, now>>, NEW k \in Keys, Stored(k),
         NEW e \in JoinedRows, NEW t \in Nat, e = Joined(k), t = now
  PROVE  Snapshot(k, e, t)'
<1>1. now \in Nat /\ lastOk'[k] \in Nat /\ lastBad'[k] \in Nat /\ now' = now
  BY AuthAssumption DEF TypeInv, TypeOK
<1>2. /\ lastOk'[k] = IF Valid(k)' THEN now' ELSE lastOk[k]
      /\ lastBad'[k] = IF Valid(k)' /\ Joined(k)' = Joined(k) THEN lastBad[k] ELSE now'
  BY Zenon DEF Observe
<1>3. Joined(k)' = e /\ Stored(k)'
  BY Zenon DEF Joined, Stored, accounts, keyVars
<1>4. Validates(e, t) => Valid(k)'
  BY Zenon, <1>1, <1>3 DEF Valid
<1> QED
  BY <1>1, <1>2, <1>3, <1>4 DEF Snapshot

\* An answer changes nothing a snapshot speaks of.
LEMMA AnswerSnapshots ==
  ASSUME UNCHANGED <<accounts, keyVars, now, history>>
  PROVE  /\ RecordInv => RecordInv'
         /\ \A k \in Keys : \A e, t : Snapshot(k, e, t) => Snapshot(k, e, t)'
<1>1. ASSUME NEW k \in Keys PROVE Joined(k)' = Joined(k) /\ Valid(k)' = Valid(k)
  BY Zenon DEF Joined, Valid, Stored, accounts, keyVars
<1>2. now' = now /\ lastOk' = lastOk /\ lastBad' = lastBad
  BY Zenon DEF history
<1> QED
  BY ZenonT(40), <1>1, <1>2 DEF RecordInv, Snapshot

LEMMA InitStale == Init => StaleInv
<1> SUFFICES ASSUME Init PROVE StaleInv
  OBVIOUS
<1>1. CacheInv /\ RequestInv
  BY ZenonT(40), NoRows DEF Init, CacheInv, RequestInv
<1>2. RecordInv
  BY DEF Init, RecordInv
<1> QED
  BY ZenonT(40), <1>1, <1>2 DEF StaleInv

LEMMA NextStale == TypeInv /\ TypeInv' /\ StaleInv /\ [Next]_vars => StaleInv'
<1> SUFFICES ASSUME TypeInv, TypeInv', StaleInv, [Next]_vars PROVE StaleInv'
  OBVIOUS
<1>0. RecordInv /\ CacheInv /\ RequestInv /\ now' \in {now, now + 1} /\ now \in Nat /\ Hold \in Nat
  BY HistoryTypes, AuthAssumption DEF StaleInv, TypeInv, TypeOK
<1>1. ASSUME Observe, UNCHANGED authVars, now' = now \/ Tick PROVE StaleInv'
  <2>1. RecordInv'
    BY Zenon, <1>0, <1>1, ObserveRecords
  <2>2. CacheInv'
    <3> SUFFICES ASSUME NEW k \in Keys, NEW e \in JoinedRows, NEW t \in Nat, cache'[k].full, cache'[k].row = e, cache'[k].read = t
                 PROVE  Snapshot(k, e, t)' /\ cache'[k].set <= t + Hold
      BY Zenon DEF CacheInv
    <3>1. Snapshot(k, e, t) /\ cache'[k].set <= t + Hold
      BY Zenon, <1>0, <1>1 DEF CacheInv, authVars
    <3> QED
      BY Zenon, <1>0, <1>1, <3>1, ObserveSnapshots
  <2>3. RequestInv'
    <3> SUFFICES ASSUME NEW q \in Requests, NEW k \in Keys, NEW e \in JoinedRows, NEW t \in Nat,
                        request'[q].pc = "fill", request'[q].key = k, request'[q].row = e, request'[q].read = t
                 PROVE  Snapshot(k, e, t)' /\ now' <= t + Hold
      BY ZenonT(40) DEF RequestInv
    <3>1. request[q].pc = "fill" /\ request[q].read = t /\ Snapshot(k, e, t) /\ now <= t + Hold
      BY Zenon, <1>0, <1>1 DEF RequestInv, authVars
    <3>2. now' <= t + Hold
      BY <1>0, <1>1, <3>1 DEF Tick
    <3> QED
      BY ZenonT(40), <1>0, <1>1, <3>1, <3>2, ObserveSnapshots
  <2> QED
    BY Zenon, <2>1, <2>2, <2>3 DEF StaleInv
<1>2. ASSUME AskStep, Observe, UNCHANGED <<accounts, keyVars, now>> PROVE StaleInv'
  <2>1. RecordInv'
    BY Zenon, <1>0, <1>2, ObserveRecords
  <2>2. \A k \in Keys, e \in JoinedRows, t \in Nat : Snapshot(k, e, t) => Snapshot(k, e, t)'
    BY Zenon, <1>0, <1>2, ObserveSnapshots
  <2>3. \A k \in Keys : cache'[k] = cache[k] \/ ~cache'[k].full
    BY ZenonT(40), <1>2, NoRows DEF AskStep, CacheMiss, SelectRow, Abandon, Evict, TypeInv, TypeOK
  <2>4. CacheInv'
    BY Zenon, <1>0, <2>2, <2>3 DEF CacheInv
  <2>5. ASSUME NEW p \in Requests, request'[p].pc = "fill"
        PROVE  request'[p] = request[p] \/ SelectRow(p)
    <3>1. [IdleRequest EXCEPT !.pc = "select"].pc # "fill" /\ \A k : [IdleRequest EXCEPT !.pc = "select", !.key = k].pc # "fill"
      BY Zenon DEF IdleRequest
    <3>2. ASSUME NEW q \in Requests, NEW k \in Presented, CacheMiss(q, k) PROVE request'[p] = request[p]
      BY ZenonT(40), <2>5, <3>1, <3>2 DEF CacheMiss, TypeInv, TypeOK
    <3>3. ASSUME NEW q \in Requests, Abandon(q) PROVE request'[p] = request[p]
      BY ZenonT(40), <2>5, <3>3, NoRows DEF Abandon, TypeInv, TypeOK
    <3>4. ASSUME NEW q \in Requests, SelectRow(q) PROVE request'[p] = request[p] \/ SelectRow(p)
      BY ZenonT(40), <3>4 DEF SelectRow, TypeInv, TypeOK
    <3>5. ASSUME NEW k \in Keys, Evict(k) PROVE request'[p] = request[p]
      BY Zenon, <3>5 DEF Evict
    <3> QED
      BY ZenonT(40), <1>2, <3>2, <3>3, <3>4, <3>5 DEF AskStep
  <2>6. RequestInv'
    <3> SUFFICES ASSUME NEW q \in Requests, NEW k \in Keys, NEW e \in JoinedRows, NEW t \in Nat,
                        request'[q].pc = "fill", request'[q].key = k, request'[q].row = e, request'[q].read = t
                 PROVE  Snapshot(k, e, t)' /\ now' <= t + Hold
      BY DEF RequestInv
    <3>1. ASSUME request'[q] = request[q] PROVE Snapshot(k, e, t)' /\ now' <= t + Hold
      BY Zenon, <1>0, <1>2, <2>2, <3>1 DEF RequestInv
    <3>2. ASSUME SelectRow(q) PROVE Snapshot(k, e, t)' /\ now' <= t + Hold
      <4>1. request[q] \in RequestStates /\ request'[q] = [request[q] EXCEPT !.pc = "fill", !.row = Joined(request[q].key), !.read = now]
        BY ZenonT(40), <3>2 DEF SelectRow, TypeInv, TypeOK
      <4>2. k = request[q].key /\ e = Joined(request[q].key) /\ t = now
        BY ZenonT(40), <4>1 DEF RequestStates
      <4>3. Stored(k) /\ e = Joined(k)
        BY Zenon, <3>2, <4>2 DEF SelectRow
      <4>4. now' <= t + Hold
        BY <1>0, <1>2, <4>2
      <4> QED
        BY Zenon, <1>2, <4>2, <4>3, <4>4, SelectSnapshot
    <3> QED
      BY Zenon, <2>5, <3>1, <3>2
  <2> QED
    BY <2>1, <2>4, <2>6 DEF StaleInv
<1>3. ASSUME AnswerStep, UNCHANGED <<accounts, keyVars, now, left, history>> PROVE StaleInv'
  <2>1. RecordInv' /\ (\A k \in Keys : \A e, t : Snapshot(k, e, t) => Snapshot(k, e, t)') /\ now' = now
    BY Zenon, <1>0, <1>3, AnswerSnapshots
  <2>2. ASSUME NEW p \in Requests PROVE request'[p] = request[p] \/ request'[p].pc = "idle"
    BY ZenonT(40), <1>3, NoRows DEF AnswerStep, CacheHit, SelectNothing, FillAndAnswer, authVars, TypeInv, TypeOK
  <2>3. RequestInv'
    BY ZenonT(40), <1>0, <2>1, <2>2 DEF RequestInv
  <2>4. CacheInv'
    <3> SUFFICES ASSUME NEW k \in Keys, NEW e \in JoinedRows, NEW t \in Nat, cache'[k].full, cache'[k].row = e, cache'[k].read = t
                 PROVE  Snapshot(k, e, t)' /\ cache'[k].set <= t + Hold
      BY DEF CacheInv
    <3>1. ASSUME cache'[k] = cache[k] PROVE Snapshot(k, e, t)' /\ cache'[k].set <= t + Hold
      BY Zenon, <1>0, <2>1, <3>1 DEF CacheInv
    <3>2. ASSUME NEW q \in Requests, FillAndAnswer(q), cache'[k] # cache[k] PROVE Snapshot(k, e, t)' /\ cache'[k].set <= t + Hold
      <4>1. /\ request[q].pc = "fill" /\ request[q].key = k
            /\ cache'[k] = [full |-> TRUE, row |-> request[q].row, read |-> request[q].read, set |-> now]
        BY Zenon, <3>2 DEF FillAndAnswer, SetEx, TypeInv, TypeOK
      <4>2. request[q].row = e /\ request[q].read = t /\ cache'[k].set = now
        BY <4>1
      <4> QED
        BY Zenon, <1>0, <2>1, <4>1, <4>2 DEF RequestInv
    <3> QED
      BY Zenon, <1>3, <3>1, <3>2 DEF AnswerStep, CacheHit, SelectNothing, authVars
  <2> QED
    BY ZenonT(40), <2>1, <2>3, <2>4 DEF StaleInv
<1>4. ASSUME UNCHANGED vars PROVE StaleInv'
  <2>1. UNCHANGED <<accounts, keyVars, now, history>> /\ cache' = cache /\ request' = request
    BY Zenon, <1>4 DEF vars, accounts, keyVars, history
  <2>2. RecordInv' /\ (\A k \in Keys : \A e, t : Snapshot(k, e, t) => Snapshot(k, e, t)') /\ now' = now
    BY Zenon, <1>0, <2>1, AnswerSnapshots
  <2> QED
    BY ZenonT(40), <1>0, <2>1, <2>2 DEF StaleInv, CacheInv, RequestInv
<1> QED
  BY Zenon, <1>1, <1>2, <1>3, <1>4, FourKinds

\* A row that is valid when it is used was valid when it was read.
LEMMA ValidEarlier ==
  ASSUME NEW e \in JoinedRows, NEW t \in Nat, NEW u \in Nat, t <= u, Validates(e, u)
  PROVE  Validates(e, t)
<1>1. e.key.expires \in Nat
  BY Zenon DEF JoinedRows, ApiKeyRows
<1> QED
  BY <1>1 DEF Validates

\* An answer from a snapshot taken no longer ago than the window is one the
\* abstract authenticator may give.
LEMMA AnswerInWindow ==
  ASSUME TypeInv, StaleInv, NEW k \in Keys, NEW e \in JoinedRows, NEW t \in Nat, Snapshot(k, e, t), now <= t + TTL + Hold,
         Decide(k, e), UNCHANGED <<accounts, keyVars, now, history>>
  PROVE  \E c \in Keys, ok \in BOOLEAN : Promise!Answer(c, ok)
<1>1. now \in Nat /\ TTL \in Nat /\ Hold \in Nat /\ lastOk[k] \in Nat /\ lastBad[k] \in Nat
  BY AuthAssumption DEF TypeInv, TypeOK
<1>2. Validates(e, now) => t <= lastOk[k]
  BY Zenon, <1>1, ValidEarlier DEF Snapshot
<1>3. ~Validates(e, now) => t <= lastBad[k]
  BY Zenon DEF Snapshot, Valid
<1>4. Validates(e, now) \in BOOLEAN
  BY Zenon DEF Validates
<1>5. IF Validates(e, now) THEN Promise!Yes(k) ELSE Promise!No(k)
  BY <1>1, <1>2, <1>3 DEF Promise!Yes, Promise!No
<1>6. verdict' = [cred |-> k, ok |-> Validates(e, now)]
  BY Zenon DEF Decide
<1>7. UNCHANGED <<now, [c \in Keys |-> Valid(c)], lastOk, lastBad>>
  BY Zenon DEF Valid, Stored, Joined, accounts, keyVars, history
<1>8. Promise!Answer(k, Validates(e, now))
  BY ZenonT(40), <1>5, <1>6, <1>7 DEF Promise!Answer
<1> QED
  BY Zenon, <1>4, <1>8

\* A step that is not an answer is one of the world around the authenticator.
LEMMA ObserveIsSilent ==
  ASSUME Observe, now' \in {now, now + 1}
  PROVE  Promise!Silent
<1> DEFINE ok == [c \in Keys |-> Valid(c)]
           changed == {c \in Keys : Joined(c)' # Joined(c)}
<1>1. ok' \in [Keys -> BOOLEAN] /\ \A c \in Keys : ok'[c] = Valid(c)'
  BY Zenon DEF Valid
<1>2. lastOk' = [c \in Keys |-> IF ok'[c] THEN now' ELSE lastOk[c]]
  BY ZenonT(40), <1>1 DEF Observe
<1>3. lastBad' = [c \in Keys |-> IF ok'[c] /\ c \notin changed THEN lastBad[c] ELSE now']
  BY ZenonT(40), <1>1 DEF Observe
<1>4. changed \in SUBSET Keys
  OBVIOUS
<1>5. Promise!World
  BY ZenonT(40), <1>1, <1>2, <1>3, <1>4 DEF Promise!World
<1> QED
  BY ZenonT(40), <1>5 DEF Promise!Silent, Observe

LEMMA InitRefines == Init => Promise!Init
<1> SUFFICES ASSUME Init PROVE Promise!Init
  OBVIOUS
<1>1. \A k \in Keys : Valid(k) = FALSE
  BY Zenon DEF Init, ApiKeysInit, Valid, Stored, NoApiKey
<1>2. [k \in Keys |-> Valid(k)] = [k \in Keys |-> FALSE]
  BY ZenonT(40), <1>1
<1> QED
  BY ZenonT(40), <1>2 DEF Init, Promise!Init

LEMMA NextRefines == TypeInv /\ StaleInv /\ [Next]_vars => [Promise!Next]_(Promise!bvars)
<1> SUFFICES ASSUME TypeInv, StaleInv, [Next]_vars PROVE [Promise!Next]_(Promise!bvars)
  OBVIOUS
<1>0. now \in Nat /\ TTL \in Nat /\ Hold \in Nat /\ RecordInv /\ CacheInv /\ RequestInv
  BY AuthAssumption DEF TypeInv, TypeOK, StaleInv
<1>1. ASSUME Observe PROVE Promise!Next
  BY Zenon, <1>1, ObserveIsSilent, HistoryTypes DEF Promise!Next
<1>2. ASSUME NEW q \in Requests, NEW k \in Presented, CacheHit(q, k) PROVE Promise!Next
  <2> DEFINE e == cache[k].row
             t == cache[k].read
  <2>1. k \in Keys /\ e \in JoinedRows /\ t \in Nat /\ cache[k].set \in Nat
    BY ZenonT(40), AuthAssumption DEF TypeInv, TypeOK, Entries
  <2>2. Fresh(k) /\ Decide(k, e) /\ UNCHANGED <<accounts, keyVars, now, history>>
    BY Zenon, <1>2 DEF CacheHit
  <2>3. cache[k].full /\ now <= cache[k].set + TTL
    BY ZenonT(40), <2>2 DEF Fresh
  <2>4. Snapshot(k, e, t) /\ cache[k].set <= t + Hold
    BY Zenon, <1>0, <2>1, <2>3 DEF CacheInv
  <2>5. now <= t + TTL + Hold
    BY <1>0, <2>1, <2>3, <2>4
  <2> QED
    BY Zenon, <2>1, <2>2, <2>4, <2>5, AnswerInWindow DEF Promise!Next
<1>3. ASSUME NEW q \in Requests, FillAndAnswer(q) PROVE Promise!Next
  <2> DEFINE k == request[q].key
             e == request[q].row
             t == request[q].read
  <2>1. k \in Keys /\ e \in JoinedRows /\ t \in Nat /\ request[q].pc = "fill"
    BY ZenonT(40), <1>3 DEF FillAndAnswer, TypeInv, Known, TypeOK, RequestStates
  <2>2. Decide(k, e) /\ UNCHANGED <<accounts, keyVars, now, history>>
    BY Zenon, <1>3 DEF FillAndAnswer
  <2>3. Snapshot(k, e, t) /\ now <= t + Hold
    BY Zenon, <1>0, <2>1 DEF RequestInv
  <2>4. now <= t + TTL + Hold
    BY <1>0, <2>1, <2>3
  <2> QED
    BY Zenon, <2>1, <2>2, <2>3, <2>4, AnswerInWindow DEF Promise!Next
<1>4. ASSUME NEW q \in Requests, SelectNothing(q) PROVE Promise!Next
  <2> DEFINE k == request[q].key
  <2>1. k \in Keys /\ ~Stored(k) /\ verdict' = [cred |-> k, ok |-> FALSE] /\ UNCHANGED <<accounts, keyVars, now, history>>
    BY ZenonT(40), <1>4 DEF SelectNothing, TypeInv, Known
  <2>2. lastBad[k] = now
    BY ZenonT(40), <1>0, <2>1 DEF RecordInv, Valid
  <2>3. Promise!No(k)
    BY <1>0, <2>2 DEF Promise!No
  <2>4. UNCHANGED <<now, [c \in Keys |-> Valid(c)], lastOk, lastBad>>
    BY ZenonT(40), <2>1 DEF Valid, Stored, Joined, accounts, keyVars, history
  <2>5. Promise!Answer(k, FALSE)
    BY ZenonT(40), <2>1, <2>3, <2>4 DEF Promise!Answer
  <2> QED
    BY Zenon, <2>1, <2>5 DEF Promise!Next
<1>5. ASSUME UNCHANGED vars PROVE UNCHANGED Promise!bvars
  BY ZenonT(40), <1>5 DEF vars, Promise!bvars, Valid, Stored, Joined
<1> QED
  BY ZenonT(40), <1>1, <1>2, <1>3, <1>4, <1>5, FourKinds DEF AnswerStep

\* Types, and the snapshots that the cache and the requests hold.
LEMMA AuthInv == Spec => [](TypeInv /\ StaleInv)
<1>1. Init => TypeInv /\ StaleInv
  BY ZenonT(40), InitTypes, InitStale
<1>2. TypeInv /\ StaleInv /\ [Next]_vars => (TypeInv /\ StaleInv)'
  BY ZenonT(40), NextTypes, NextStale
<1> QED
  BY <1>1, <1>2, PTL DEF Spec

\* The tables, the cache and the requests keep their types in every state of
\* authenticate and of the handlers of keys, tenants and organizations.
THEOREM AuthTypeCorrect == Spec => []TypeOK
  BY AuthInv, PTL DEF TypeInv

\* authenticate with its Redis cache implements the abstract authenticator: a
\* key revoked longer ago than the TTL and one request is never accepted, and
\* one that has held for that long never refused, however requests that fill
\* the cache, revocations and the clock interleave.
THEOREM AuthImplementsPromise == Spec => RevocationIsBounded
<1>1. TypeInv /\ StaleInv /\ [Next]_vars => [Promise!Next]_(Promise!bvars)
  BY ZenonT(40), NextRefines
<1> QED
  BY <1>1, InitRefines, AuthInv, PTL DEF Spec, RevocationIsBounded, Promise!Spec

-----------------------------------------------------------------------------
(* Deletions are recorded once                                             *)

RowInv == \A k \in Keys : keys[k].deleted => keys[k].status # "none"

\* A key that is being created is in no table and with no other request.
OwnInv ==
    \A a \in Admins :
        /\ admin[a].pc = "idle" => admin[a].key = NoKey
        /\ admin[a].pc \in Creating =>
             keys[admin[a].key].status = "none" /\ \A b \in Admins : admin[b].key = admin[a].key => b = a

\* a has deleted k and is about to record it.
Records(a, k) == admin[a].key = k /\ admin[a].pc = "audit" /\ admin[a].act = "deleted"

RecordedInv ==
    \A k \in Keys :
        /\ audit[k]["deleted"] <= 1
        /\ audit[k]["deleted"] > 0 => keys[k].deleted
        /\ \A a \in Admins : Records(a, k) =>
             keys[k].deleted /\ audit[k]["deleted"] = 0 /\ \A b \in Admins : Records(b, k) => b = a

KeyInv == RowInv /\ OwnInv /\ RecordedInv

LEMMA RowKinds ==
  ASSUME TypeInv, [Next]_vars
  PROVE  \/ UNCHANGED <<keys, admin, audit>>
         \/ \E k \in Defaults : Bootstrap(k)
         \/ \E a \in Admins : BeginRequest(a) \/ ContinueRequest(a)
<1>1. ASSUME OnAccounts \/ ChangeSettings PROVE UNCHANGED <<keys, admin, audit>>
  BY Zenon, <1>1 DEF OnAccounts, ChangeSettings, UpsertSettings, UpdateSettings, keyVars
<1>2. UNCHANGED keyVars \/ UNCHANGED vars => UNCHANGED <<keys, admin, audit>>
  BY Zenon DEF vars, keyVars
<1> QED
  BY Zenon, <1>1, <1>2, FourKinds DEF WriteStep

\* Rows are inserted where there is none; after that a row keeps its status,
\* and one that is deleted stays deleted.
RowStays(k) ==
    \/ keys[k].status = "none" /\ keys'[k].status = "active" /\ ~keys'[k].deleted
    \/ keys'[k].status = keys[k].status /\ keys'[k].deleted = keys[k].deleted
    \/ keys'[k].status = keys[k].status /\ keys[k].status # "none" /\ ~keys[k].deleted /\ keys'[k].deleted

LEMMA RowsStay ==
  ASSUME TypeInv, OwnInv, [Next]_vars, NEW k \in Keys
  PROVE  RowStays(k)
<1>0. keys \in [Keys -> ApiKeyRows] /\ keys[k] \in ApiKeyRows /\ admin \in [Admins -> AdminStates]
  BY ZenonT(40) DEF TypeInv, TypeOK, ApiKeysTypeOK
<1>1. ASSUME NEW d \in Keys, keys[d].status = "none", NEW e, NEW s, keys' = [keys EXCEPT ![d] = NewKey(e, s)] PROVE RowStays(k)
  BY ZenonT(40), <1>0, <1>1 DEF NewKey, RowStays
<1>2. ASSUME NEW d \in Keys, NEW e \in Nat, keys' = [keys EXCEPT ![d] = UpdatedKey(keys[d], e)] PROVE RowStays(k)
  BY ZenonT(40), <1>0, <1>2 DEF UpdatedKey, RowStays, ApiKeyRows
<1>3. ASSUME NEW d \in Keys, Found(d), keys' = [keys EXCEPT ![d].deleted = TRUE] PROVE RowStays(k)
  BY ZenonT(40), <1>0, <1>3 DEF Found, RowStays, ApiKeyRows
<1>4. ASSUME NEW a \in Admins, InsertKey(a) PROVE RowStays(k)
  <2>1. admin[a].pc = "insert" /\ admin[a].key \in Keys
        /\ keys' = [keys EXCEPT ![admin[a].key] = NewKey(admin[a].exp, admin[a].rules)]
    BY Zenon, <1>4, InsertMoves
  <2>2. keys[admin[a].key].status = "none"
    BY ZenonT(40), <2>1 DEF OwnInv, Creating
  <2> QED
    BY Zenon, <1>1, <2>1, <2>2
<1>5. ASSUME NEW d \in Defaults, Bootstrap(d) PROVE RowStays(k)
  <2>1. d \in Keys
    BY ZenonT(40), AuthAssumption
  <2> QED
    BY Zenon, <1>1, <1>5, <2>1 DEF Bootstrap, Unused
<1>6. ASSUME UNCHANGED keys PROVE RowStays(k)
  BY ZenonT(40), <1>6 DEF RowStays
<1> QED
  BY Zenon, <1>2, <1>3, <1>4, <1>5, <1>6, RowKinds, KeyWrites

LEMMA NextRows == TypeInv /\ OwnInv /\ RowInv /\ [Next]_vars => RowInv'
<1> SUFFICES ASSUME TypeInv, OwnInv, RowInv, [Next]_vars, NEW k \in Keys, keys'[k].deleted PROVE keys'[k].status # "none"
  BY Zenon DEF RowInv
<1> QED
  BY ZenonT(40), RowsStay DEF RowInv, RowStays

LEMMA NextOwn == TypeInv /\ OwnInv /\ [Next]_vars => OwnInv'
<1> SUFFICES ASSUME TypeInv, OwnInv, [Next]_vars PROVE OwnInv'
  OBVIOUS
<1>0. /\ admin \in [Admins -> AdminStates] /\ NoKey \notin Keys
      /\ \A a \in Admins : admin[a] \in AdminStates /\ (admin[a].pc \in Creating => admin[a].key \in Keys)
  BY ZenonT(40), AuthAssumption DEF TypeInv, TypeOK, ApiKeysTypeOK, Known, Creating
<1>1. ASSUME NEW a \in Admins, NEW m \in AdminStates, Moves(a, m), Effect(a, m),
             \A k \in Keys : keys[k].status = "none" => keys'[k].status = "none"
      PROVE  OwnInv'
  <2>1. \A b \in Admins : admin'[b] = IF b = a THEN m ELSE admin[b]
    BY ZenonT(40), <1>0, <1>1 DEF Moves
  <2>2. m.pc = "idle" => m.key = NoKey
    BY ZenonT(40), <1>1 DEF Effect
  <2>3. ASSUME m.pc \in Creating PROVE m.key \in Keys /\ keys[m.key].status = "none" /\ \A b \in Admins \ {a} : admin[b].key # m.key
    BY ZenonT(40), <1>0, <1>1, <2>3 DEF Effect, Unused, OwnInv, Creating
  <2>4. ASSUME NEW b \in Admins \ {a}, admin[b].pc \in Creating PROVE m.key # admin[b].key
    <3>1. admin[b].key \in Keys /\ keys[admin[b].key].status = "none" /\ admin[a].key # admin[b].key /\ admin[b].key # NoKey
      BY ZenonT(40), <1>0, <2>4 DEF OwnInv
    <3> QED
      BY Zenon, <1>1, <3>1 DEF Effect, Unused, Found
  <2>5. ASSUME NEW b \in Admins
        PROVE  /\ admin'[b].pc = "idle" => admin'[b].key = NoKey
               /\ admin'[b].pc \in Creating => keys'[admin'[b].key].status = "none"
    BY ZenonT(40), <1>0, <1>1, <2>1, <2>2, <2>3 DEF OwnInv
  <2>6. ASSUME NEW b \in Admins, NEW c \in Admins, admin'[b].pc \in Creating, admin'[c].key = admin'[b].key PROVE c = b
    BY <1>0, <2>1, <2>3, <2>4, <2>6 DEF OwnInv
  <2> QED
    BY Zenon, <2>5, <2>6 DEF OwnInv
<1>2. ASSUME NEW a \in Admins, InsertKey(a) PROVE OwnInv'
  <2>1. /\ admin[a].pc = "insert" /\ admin'[a] = [admin[a] EXCEPT !.pc = "audit", !.act = "created"]
        /\ \A b \in Admins : b # a => admin'[b] \in {admin[b], [admin[b] EXCEPT !.raced = TRUE]}
        /\ admin[a].key \in Keys /\ keys' = [keys EXCEPT ![admin[a].key] = NewKey(admin[a].exp, admin[a].rules)]
    BY Zenon, <1>2, InsertMoves
  <2>2. admin'[a].pc = "audit" /\ admin'[a].key = admin[a].key
    BY ZenonT(40), <1>0, <2>1 DEF AdminStates
  <2>3. ASSUME NEW b \in Admins, b # a PROVE admin'[b].pc = admin[b].pc /\ admin'[b].key = admin[b].key
    BY <1>0, <2>1, <2>3 DEF AdminStates
  <2>4. ASSUME NEW k \in Keys, k # admin[a].key PROVE keys'[k] = keys[k]
    BY Zenon, <2>1, <2>4 DEF TypeInv, TypeOK, ApiKeysTypeOK
  <2>5. \A b \in Admins : admin'[b].key = admin[b].key /\ (admin'[b].pc \in Creating \cup {"idle"} => b # a /\ admin'[b].pc = admin[b].pc)
    BY ZenonT(40), <2>2, <2>3 DEF Creating
  <2>6. ASSUME NEW b \in Admins, b # a, admin[b].pc \in Creating PROVE keys'[admin[b].key].status = "none"
    BY <1>0, <2>1, <2>4, <2>6 DEF OwnInv, Creating
  <2>7. ASSUME NEW b \in Admins
        PROVE  /\ admin'[b].pc = "idle" => admin'[b].key = NoKey
               /\ admin'[b].pc \in Creating =>
                    keys'[admin'[b].key].status = "none" /\ \A c \in Admins : admin'[c].key = admin'[b].key => c = b
    BY ZenonT(40), <2>5, <2>6 DEF OwnInv
  <2> QED
    BY Zenon, <2>7 DEF OwnInv
<1>3. ASSUME NEW a \in Admins, BeginRequest(a) \/ ContinueRequest(a), ~InsertKey(a) PROVE OwnInv'
  <2>1. ASSUME NEW k \in Keys, keys[k].status = "none" PROVE keys'[k].status = "none"
    BY ZenonT(40), <1>3, <2>1, KeyWrites DEF Found, UpdatedKey, TypeInv, TypeOK, ApiKeysTypeOK
  <2> QED
    BY Zenon, <1>1, <1>3, <2>1, RequestMoves
<1>4. ASSUME NEW d \in Defaults, Bootstrap(d) PROVE OwnInv'
  BY ZenonT(40), <1>0, <1>4 DEF OwnInv, Bootstrap, Unused, TypeInv, TypeOK, ApiKeysTypeOK
<1>5. ASSUME UNCHANGED <<keys, admin, audit>> PROVE OwnInv'
  BY Zenon, <1>5 DEF OwnInv
<1> QED
  BY Zenon, <1>2, <1>3, <1>4, <1>5, RowKinds

\* A step that leaves the audit table alone, deletes no key on behalf of a
\* request and lets no request record a deletion.
LEMMA QuietSteps ==
  ASSUME TypeInv, RecordedInv, UNCHANGED audit, \A k \in Keys : keys[k].deleted => keys'[k].deleted,
         \A k \in Keys, b \in Admins : Records(b, k)' => Records(b, k)
  PROVE  RecordedInv'
  BY Zenon DEF RecordedInv

LEMMA NextRecorded == TypeInv /\ RowInv /\ OwnInv /\ RecordedInv /\ [Next]_vars => RecordedInv'
<1> SUFFICES ASSUME TypeInv, RowInv, OwnInv, RecordedInv, [Next]_vars PROVE RecordedInv'
  OBVIOUS
<1>0. /\ admin \in [Admins -> AdminStates] /\ \A a \in Admins : admin[a] \in AdminStates
      /\ audit \in [Keys -> [AuditActions -> Nat]] /\ "deleted" \in AuditActions
  BY Zenon DEF TypeInv, TypeOK, ApiKeysTypeOK, AuditActions
<1>1. ASSUME NEW k \in Keys, keys[k].deleted PROVE keys'[k].deleted
  BY ZenonT(40), <1>1, RowsStay DEF RowStays, RowInv
<1>2. ASSUME UNCHANGED <<keys, admin, audit>> PROVE RecordedInv'
  BY Zenon, <1>2 DEF RecordedInv, Records
<1>3. ASSUME NEW d \in Defaults, Bootstrap(d) PROVE RecordedInv'
  <2>1. UNCHANGED <<admin, audit>>
    BY Zenon, <1>3 DEF Bootstrap
  <2> QED
    BY Zenon, <1>1, <2>1, QuietSteps DEF Records
<1>4. ASSUME NEW a \in Admins, InsertKey(a) PROVE RecordedInv'
  <2>1. /\ UNCHANGED audit /\ admin'[a] = [admin[a] EXCEPT !.pc = "audit", !.act = "created"]
        /\ \A b \in Admins : b # a => admin'[b] \in {admin[b], [admin[b] EXCEPT !.raced = TRUE]}
    BY Zenon, <1>4, InsertMoves
  <2>2. ASSUME NEW b \in Admins, NEW k \in Keys, Records(b, k)' PROVE Records(b, k)
    <3>1. b # a
      BY Zenon, <1>0, <2>1, <2>2 DEF Records, AdminStates
    <3> QED
      BY <1>0, <2>1, <2>2, <3>1 DEF Records, AdminStates
  <2> QED
    BY Zenon, <1>1, <2>1, <2>2, QuietSteps
<1>5. ASSUME NEW a \in Admins, InsertAudit(a) PROVE RecordedInv'
  <2> DEFINE k0 == admin[a].key
             act == admin[a].act
  <2>1. k0 \in Keys /\ act \in AuditActions /\ admin[a].pc = "audit"
    BY ZenonT(40), <1>0, <1>5 DEF InsertAudit, TypeInv, Known, AdminStates
  <2>2. /\ admin' = [admin EXCEPT ![a] = IdleAdmin] /\ keys' = keys
        /\ audit' = [audit EXCEPT ![k0] = [audit[k0] EXCEPT ![act] = audit[k0][act] + 1]]
    BY ZenonT(40), <1>0, <1>5, <2>1 DEF InsertAudit, Done
  <2>3. \A b \in Admins, k \in Keys : Records(b, k)' <=> Records(b, k) /\ b # a
    BY ZenonT(40), <1>0, <2>2 DEF Records, IdleAdmin
  <2>4. \A k \in Keys : audit'[k]["deleted"] = IF k = k0 /\ act = "deleted" THEN audit[k]["deleted"] + 1 ELSE audit[k]["deleted"]
    BY ZenonT(40), <1>0, <2>1, <2>2
  <2>5. \A k \in Keys : Records(a, k) <=> k = k0 /\ act = "deleted"
    BY Zenon, <2>1 DEF Records
  <2> HIDE DEF k0, act
  <2> SUFFICES ASSUME NEW k \in Keys
               PROVE  /\ audit'[k]["deleted"] <= 1
                      /\ audit'[k]["deleted"] > 0 => keys'[k].deleted
                      /\ \A b \in Admins : Records(b, k)' =>
                           keys'[k].deleted /\ audit'[k]["deleted"] = 0 /\ \A c \in Admins : Records(c, k)' => c = b
    BY Zenon DEF RecordedInv
  <2>6. CASE k = k0 /\ act = "deleted"
    <3>1. Records(a, k) /\ keys[k].deleted /\ audit[k]["deleted"] = 0 /\ \A b \in Admins : Records(b, k) => b = a
      BY Zenon, <2>5, <2>6 DEF RecordedInv
    <3>2. audit'[k]["deleted"] = 1
      BY <2>4, <2>6, <3>1
    <3>3. \A b \in Admins : ~Records(b, k)'
      BY Zenon, <2>3, <3>1
    <3> QED
      BY <2>2, <3>1, <3>2, <3>3
  <2>7. CASE ~(k = k0 /\ act = "deleted")
    <3>1. audit'[k]["deleted"] = audit[k]["deleted"]
      BY Zenon, <2>4, <2>7
    <3> QED
      BY Zenon, <2>2, <2>3, <3>1 DEF RecordedInv
  <2> QED
    BY ZenonT(40), <2>6, <2>7
<1>6. ASSUME NEW a \in Admins, BeginRequest(a) \/ ContinueRequest(a), ~InsertKey(a), ~InsertAudit(a) PROVE RecordedInv'
  <2>1. PICK m \in AdminStates : Moves(a, m) /\ Effect(a, m)
    BY Zenon, <1>6, RequestMoves
  <2>2. UNCHANGED audit
    BY Zenon, <1>6 DEF BeginRequest, CreateKey, UpdateKey, DeleteKey, RevealKey, ContinueRequest, ReadSettings, CheckLimit, InsertKey,
       WriteUpdate, WriteDelete, ViewKey, RequestStops
  <2>3. \A b \in Admins : admin'[b] = IF b = a THEN m ELSE admin[b]
    BY ZenonT(40), <1>0, <2>1 DEF Moves
  <2>4. CASE ~(m.pc = "audit" /\ m.act = "deleted")
    <3>1. \A b \in Admins, k \in Keys : Records(b, k)' => Records(b, k)
      BY ZenonT(40), <2>3, <2>4 DEF Records
    <3> QED
      BY Zenon, <1>1, <2>2, <3>1, QuietSteps
  <2>5. CASE m.pc = "audit" /\ m.act = "deleted"
    <3>1. m.key = admin[a].key /\ admin[a].pc = "delete" /\ Found(m.key) /\ keys' = [keys EXCEPT ![m.key].deleted = TRUE]
      BY Zenon, <2>1, <2>5 DEF Effect
    <3>2. m.key \in Keys
      BY Zenon, <3>1 DEF TypeInv, Known
    <3>3. keys'[m.key].deleted /\ ~keys[m.key].deleted
      BY <3>1, <3>2 DEF Found, TypeInv, TypeOK, ApiKeysTypeOK, ApiKeyRows
    <3>4. audit[m.key]["deleted"] = 0 /\ \A b \in Admins : ~Records(b, m.key)
      BY <1>0, <3>2, <3>3 DEF RecordedInv
    <3>5. \A b \in Admins, k \in Keys : Records(b, k)' <=> (IF b = a THEN k = m.key ELSE Records(b, k))
      BY ZenonT(40), <2>3, <2>5 DEF Records
    <3> SUFFICES ASSUME NEW k \in Keys
                 PROVE  /\ audit'[k]["deleted"] <= 1
                        /\ audit'[k]["deleted"] > 0 => keys'[k].deleted
                        /\ \A b \in Admins : Records(b, k)' =>
                             keys'[k].deleted /\ audit'[k]["deleted"] = 0 /\ \A c \in Admins : Records(c, k)' => c = b
      BY Zenon DEF RecordedInv
    <3>6. CASE k = m.key
      BY ZenonT(40), <2>2, <3>3, <3>4, <3>5, <3>6 DEF RecordedInv
    <3>7. CASE k # m.key
      BY ZenonT(40), <1>1, <2>2, <3>5, <3>7 DEF RecordedInv, Records
    <3> QED
      BY ZenonT(40), <3>6, <3>7
  <2> QED
    BY Zenon, <2>4, <2>5
<1> QED
  BY Zenon, <1>2, <1>3, <1>4, <1>5, <1>6, RowKinds

LEMMA InitKeys == Init => KeyInv
  BY DEF Init, ApiKeysInit, NoApiKey, IdleAdmin, KeyInv, RowInv, OwnInv, RecordedInv, Records, Creating, AuditActions

\* At most one of the two is there: the record, or one request about to write
\* it.
LEMMA RecordedOnce == TypeInv /\ KeyInv => DeletionRecordedOnce
<1> SUFFICES ASSUME TypeInv, KeyInv, NEW k \in Keys
             PROVE  /\ audit[k]["deleted"] + Cardinality({a \in Admins : admin[a].key = k /\ admin[a].pc = "audit" /\ admin[a].act = "deleted"}) <= 1
                    /\ audit[k]["deleted"] > 0 => keys[k].deleted
  BY Zenon DEF DeletionRecordedOnce
<1> DEFINE R == {a \in Admins : Records(a, k)}
<1>1. R = {a \in Admins : admin[a].key = k /\ admin[a].pc = "audit" /\ admin[a].act = "deleted"}
  BY ZenonT(40) DEF Records
<1>2. audit[k]["deleted"] \in Nat /\ audit[k]["deleted"] <= 1 /\ (audit[k]["deleted"] > 0 => keys[k].deleted)
  BY DEF KeyInv, RecordedInv, TypeInv, TypeOK, ApiKeysTypeOK, AuditActions
<1>3. ASSUME R = {} PROVE audit[k]["deleted"] + Cardinality(R) <= 1
  <2>1. Cardinality(R) = 0
    BY Zenon, <1>3, FS_EmptySet
  <2> QED
    BY <1>2, <2>1
<1>4. ASSUME NEW a \in R PROVE audit[k]["deleted"] + Cardinality(R) <= 1
  <2>1. R = {a} /\ audit[k]["deleted"] = 0
    BY ZenonT(40), <1>4 DEF KeyInv, RecordedInv
  <2> QED
    BY <2>1, FS_Singleton
<1> HIDE DEF R
<1> QED
  BY Zenon, <1>1, <1>2, <1>3, <1>4

-----------------------------------------------------------------------------
(* Only racing creations exceed the limit                                  *)

\* A tenant with an environment, or with a key being created, exists: the
\* bootstrap of a tenant does not race with a creation for it.
TenantInv ==
    /\ \A t \in Tenants : env[t] # "none" => tenant[t].status # "none"
    /\ \A a \in Admins : admin[a].pc \in Creating => tenant[TenantOf[admin[a].key]].status # "none"

\* No other statement makes a key count: the active keys of a user grow only
\* by an INSERT for that user.
LEMMA ActiveShrinks ==
  ASSUME TypeInv, NEW t, NEW u, \A k \in Keys : TenantOf[k] = t /\ UserOf[k] = u => RowStays(k) /\ (keys[k].status = "none" => keys'[k].status = "none")
  PROVE  CountActiveForUser(t, u)' <= CountActiveForUser(t, u)
<1>1. ActiveFor(t, u)' \subseteq ActiveFor(t, u)
  BY Zenon DEF ActiveFor, RowStays
<1>2. IsFiniteSet(ActiveFor(t, u))
  BY ZenonT(40), AuthAssumption, FS_Subset DEF ActiveFor
<1> QED
  BY ZenonT(40), <1>1, <1>2, FS_Subset DEF CountActiveForUser

LEMMA NextTenants == TypeInv /\ OwnInv /\ TenantInv /\ [Next]_vars => TenantInv'
<1> SUFFICES ASSUME TypeInv, OwnInv, TenantInv, [Next]_vars PROVE TenantInv'
  OBVIOUS
<1>0. /\ AccountsTypeOK /\ admin \in [Admins -> AdminStates]
      /\ \A a \in Admins : admin[a] \in AdminStates
      /\ \A a \in Admins : admin[a].pc \in Creating => admin[a].key \in Keys /\ TenantOf[admin[a].key] \in Tenants
  BY ZenonT(40), AuthAssumption DEF TypeInv, TypeOK, ApiKeysTypeOK, Known, Creating
<1>1. ASSUME NEW t \in Tenants, tenant[t].status # "none" PROVE tenant'[t].status # "none"
  <2>1. ASSUME NEW d \in Defaults, Bootstrap(d) PROVE tenant'[t].status # "none"
    BY ZenonT(40), <1>0, <1>1, <2>1 DEF Bootstrap, BootstrapAccounts, AccountsTypeOK, NewAccount
  <2>2. ASSUME UNCHANGED accounts PROVE tenant'[t].status # "none"
    BY ZenonT(40), <1>1, <2>2 DEF accounts
  <2>3. ASSUME OnAccounts PROVE tenant'[t].status # "none"
    BY Zenon, <1>0, <1>1, <2>3, TenantsStay DEF OnAccounts
  <2>4. UNCHANGED vars => UNCHANGED accounts
    BY Zenon DEF vars, accounts
  <2>5. WriteStep => OnAccounts \/ UNCHANGED accounts \/ \E d \in Defaults : Bootstrap(d)
    BY Zenon DEF WriteStep, BeginRequest, ContinueRequest, ChangeSettings
  <2> QED
    BY ZenonT(40), <2>1, <2>2, <2>3, <2>4, <2>5, FourKinds
<1>2. ASSUME NEW t \in Tenants, env'[t] # "none" PROVE env[t] # "none" \/ tenant'[t].status # "none"
  <2>1. ASSUME NEW d \in Defaults, Bootstrap(d) PROVE env[t] # "none" \/ tenant'[t].status # "none"
    <3>1. d \in Keys /\ TenantOf[d] \in Tenants
      BY ZenonT(40), AuthAssumption
    <3> QED
      BY ZenonT(40), <1>0, <1>2, <2>1, <3>1 DEF Bootstrap, BootstrapAccounts, AccountsTypeOK, NewAccount
  <2>2. ASSUME OnAccounts PROVE env[t] # "none" \/ tenant'[t].status # "none"
    <3>1. ASSUME NEW s \in Tenants, CreateEnvironment(s) PROVE env[t] # "none" \/ tenant'[t].status # "none"
      BY ZenonT(40), <1>0, <1>2, <3>1 DEF CreateEnvironment, SetEnv, AccountsTypeOK
    <3>2. ASSUME NEW s \in Tenants, NEW x, WithEnvStatus(s, x) PROVE env[t] # "none"
      BY ZenonT(40), <1>0, <1>2, <3>2 DEF WithEnvStatus, SetEnv, AccountsTypeOK
    <3>3. UNCHANGED env => env[t] # "none"
      BY ZenonT(40), <1>2
    <3> QED
      BY ZenonT(40), <2>2, <3>1, <3>2, <3>3 DEF OnAccounts, AccountStep, DeleteOrg, RestoreOrg, SuspendOrg, SetOrg, CreateTenant, DeleteTenant,
         SuspendTenant, ReactivateTenant, SetTenant, EnableEnvironment, DisableEnvironment
  <2>3. UNCHANGED vars \/ UNCHANGED accounts => env[t] # "none"
    BY Zenon, <1>2 DEF vars, accounts
  <2>5. WriteStep => OnAccounts \/ UNCHANGED accounts \/ \E d \in Defaults : Bootstrap(d)
    BY Zenon DEF WriteStep, BeginRequest, ContinueRequest, ChangeSettings
  <2> QED
    BY Zenon, <2>1, <2>2, <2>3, <2>5, FourKinds
<1>3. ASSUME NEW b \in Admins, admin'[b].pc \in Creating PROVE tenant'[TenantOf[admin'[b].key]].status # "none"
  <2>1. ASSUME admin[b].pc \in Creating, admin'[b].key = admin[b].key PROVE tenant'[TenantOf[admin'[b].key]].status # "none"
    BY ZenonT(40), <1>0, <1>1, <2>1 DEF TenantInv
  <2>2. ASSUME NEW a \in Admins, InsertKey(a) PROVE admin[b].pc \in Creating /\ admin'[b].key = admin[b].key
    BY ZenonT(40), <1>3, <2>2, InsertKeeps DEF Creating
  <2>3. ASSUME NEW a \in Admins, NEW k \in Keys, NEW e, CreateKey(a, k, e), b = a, UNCHANGED accounts
        PROVE  tenant'[TenantOf[admin'[b].key]].status # "none"
    <3>1. admin'[b] = [IdleAdmin EXCEPT !.pc = "settings", !.key = k, !.exp = e] /\ env[TenantOf[k]] = "active" /\ tenant' = tenant
      BY ZenonT(40), <1>0, <2>3 DEF CreateKey, Begin, accounts
    <3>2. admin'[b].key = k /\ TenantOf[k] \in Tenants
      BY ZenonT(40), <3>1, AuthAssumption DEF IdleAdmin
    <3> QED
      BY ZenonT(40), <3>1, <3>2 DEF TenantInv
  <2>4. ASSUME NEW a \in Admins, BeginRequest(a) \/ ContinueRequest(a), ~InsertKey(a) PROVE tenant'[TenantOf[admin'[b].key]].status # "none"
    <3>1. PICK m \in AdminStates : Moves(a, m) /\ Effect(a, m)
      BY Zenon, <2>4, RequestMoves
    <3>2. admin'[b] = IF b = a THEN m ELSE admin[b]
      BY ZenonT(40), <1>0, <3>1 DEF Moves
    <3>3. ASSUME b = a, m.pc = "settings" PROVE \E k \in Keys : \E e : CreateKey(a, k, e)
      <4>1. admin'[a].pc = "settings"
        BY ZenonT(40), <3>2, <3>3
      <4>2. ASSUME NEW k, NEW e, NEW pc, Begin(a, k, pc, e) PROVE pc = "settings"
        BY ZenonT(40), <1>0, <4>1, <4>2 DEF Begin, IdleAdmin
      <4>3. ~Done(a)
        BY <1>0, <4>1 DEF Done, IdleAdmin
      <4>4. \A act : ~ToAudit(a, act)
        BY <1>0, <4>1 DEF ToAudit, AdminStates
      <4>5. \A s : ~Prepare(a, s)
        BY <1>0, <4>1 DEF Prepare, AdminStates
      <4>6. \A s : admin' # [admin EXCEPT ![a].rules = s, ![a].pc = "count"]
        BY <1>0, <4>1 DEF AdminStates
      <4>7. "update" # "settings" /\ "delete" # "settings" /\ "view" # "settings"
        OBVIOUS
      <4> QED
        BY ZenonT(40), <2>4, <4>2, <4>3, <4>4, <4>5, <4>6, <4>7 DEF BeginRequest, CreateKey, UpdateKey, DeleteKey, RevealKey, ContinueRequest, ReadSettings,
           CheckLimit, WriteUpdate, WriteDelete, ViewKey, InsertAudit, RequestStops
    <3>4. ASSUME b = a, m.pc # "settings" PROVE admin[b].pc \in Creating /\ admin'[b].key = admin[b].key
      BY ZenonT(40), <1>3, <3>1, <3>2, <3>4 DEF Effect, Creating
    <3>5. UNCHANGED accounts
      BY Zenon, <2>4 DEF BeginRequest, ContinueRequest
    <3> QED
      BY ZenonT(40), <1>3, <2>1, <2>3, <3>2, <3>3, <3>4, <3>5
  <2>5. UNCHANGED admin => admin[b].pc \in Creating /\ admin'[b].key = admin[b].key
    BY ZenonT(40), <1>3
  <2>6. \A d \in Defaults : Bootstrap(d) => UNCHANGED admin
    BY Zenon DEF Bootstrap
  <2> QED
    BY ZenonT(40), <2>1, <2>2, <2>4, <2>5, <2>6, RowKinds
<1> QED
  BY Zenon, <1>1, <1>2, <1>3 DEF TenantInv

LEMMA NextLimit == TypeInv /\ TypeInv' /\ OwnInv /\ TenantInv /\ LimitUnlessRaced /\ [Next]_vars => LimitUnlessRaced'
<1> SUFFICES ASSUME TypeInv, TypeInv', OwnInv, TenantInv, LimitUnlessRaced, [Next]_vars PROVE LimitUnlessRaced'
  OBVIOUS
<1>0. /\ admin \in [Admins -> AdminStates] /\ \A a \in Admins : admin[a] \in AdminStates /\ admin'[a] \in AdminStates
      /\ \A a \in Admins : admin[a].pc \in Creating => admin[a].key \in Keys
      /\ \A k \in Keys : TenantOf[k] \in Tenants
  BY ZenonT(40), AuthAssumption DEF TypeInv, TypeOK, ApiKeysTypeOK, Known, Creating
<1> SUFFICES ASSUME NEW b \in Admins, admin'[b].pc = "insert", admin'[b].rules.max # 0, ~admin'[b].raced,
                    NEW t, NEW u, t = TenantOf[admin'[b].key], u = UserOf[admin'[b].key]
             PROVE  CountActiveForUser(t, u)' < admin'[b].rules.max
  BY DEF LimitUnlessRaced, CountActiveForUser, ActiveFor
<1>1. CountActiveForUser(t, u) \in Nat /\ CountActiveForUser(t, u)' \in Nat /\ admin'[b].rules.max \in Nat
  <2>1. admin'[b].rules.max \in Nat
    BY Zenon, <1>0 DEF AdminStates, SettingsRows
  <2>2. IsFiniteSet(ActiveFor(t, u)) /\ IsFiniteSet(ActiveFor(t, u)')
    BY ZenonT(40), AuthAssumption, FS_Subset DEF ActiveFor
  <2> QED
    BY Zenon, <2>1, <2>2, FS_CardinalityType DEF CountActiveForUser
<1>2. ASSUME admin[b].pc = "insert", admin[b].rules = admin'[b].rules, ~admin[b].raced, admin[b].key = admin'[b].key
      PROVE  CountActiveForUser(t, u) < admin'[b].rules.max /\ tenant[t].status # "none" /\ admin[b].key \in Keys
  BY ZenonT(40), <1>0, <1>2 DEF LimitUnlessRaced, TenantInv, Creating
<1>3. ASSUME CountActiveForUser(t, u) < admin'[b].rules.max,
             \A k \in Keys : TenantOf[k] = t /\ UserOf[k] = u /\ keys[k].status = "none" => keys'[k].status = "none"
      PROVE  CountActiveForUser(t, u)' < admin'[b].rules.max
  <2>1. CountActiveForUser(t, u)' <= CountActiveForUser(t, u)
    BY Zenon, <1>3, RowsStay, ActiveShrinks
  <2> QED
    BY <1>1, <1>3, <2>1
<1>4. ASSUME UNCHANGED <<keys, admin, audit>> PROVE CountActiveForUser(t, u)' < admin'[b].rules.max
  BY Zenon, <1>2, <1>3, <1>4
<1>5. ASSUME NEW d \in Defaults, Bootstrap(d) PROVE CountActiveForUser(t, u)' < admin'[b].rules.max
  <2>1. d \in Keys /\ UNCHANGED admin /\ tenant[TenantOf[d]].status = "none" /\ keys' = [keys EXCEPT ![d] = NewKey(0, NoSettings)]
    BY ZenonT(40), <1>5, AuthAssumption DEF Bootstrap, BootstrapAccounts
  <2>2. CountActiveForUser(t, u) < admin'[b].rules.max /\ tenant[t].status # "none"
    BY Zenon, <1>2, <2>1
  <2>3. \A k \in Keys : TenantOf[k] = t => keys'[k] = keys[k]
    BY ZenonT(40), <2>1, <2>2 DEF TypeInv, TypeOK, ApiKeysTypeOK
  <2> QED
    BY Zenon, <1>3, <2>2, <2>3
<1>6. ASSUME NEW a \in Admins, InsertKey(a) PROVE CountActiveForUser(t, u)' < admin'[b].rules.max
  <2>1. b # a
    BY ZenonT(40), <1>6, InsertKeeps
  <2>2. /\ admin[b].pc = "insert" /\ admin[b].rules = admin'[b].rules /\ ~admin[b].raced /\ admin[b].key = admin'[b].key
        /\ ~SameUser(admin[b].key, admin[a].key)
    BY ZenonT(40), <1>0, <1>6, <2>1, InsertKeeps DEF AdminStates
  <2>3. admin[a].key \in Keys /\ keys' = [keys EXCEPT ![admin[a].key] = NewKey(admin[a].exp, admin[a].rules)]
    BY Zenon, <1>6, InsertMoves
  <2>4. \A k \in Keys : TenantOf[k] = t /\ UserOf[k] = u => keys'[k] = keys[k]
    BY ZenonT(40), <2>2, <2>3 DEF SameUser, TypeInv, TypeOK, ApiKeysTypeOK
  <2> QED
    BY Zenon, <1>2, <1>3, <2>2, <2>4
<1>7. ASSUME NEW a \in Admins, BeginRequest(a) \/ ContinueRequest(a), ~InsertKey(a)
      PROVE  CountActiveForUser(t, u)' < admin'[b].rules.max
  <2>1. ASSUME NEW k \in Keys, keys[k].status = "none" PROVE keys'[k].status = "none"
    BY ZenonT(40), <1>7, <2>1, KeyWrites DEF Found, UpdatedKey, TypeInv, TypeOK, ApiKeysTypeOK
  <2>2. PICK m \in AdminStates : Moves(a, m) /\ Effect(a, m)
    BY Zenon, <1>7, RequestMoves
  <2>3. admin'[b] = IF b = a THEN m ELSE admin[b]
    BY ZenonT(40), <1>0, <2>2 DEF Moves
  <2>4. CASE b = a
    <3>1. ~AtLimit(m.key, m.rules.max) /\ m = admin'[b]
      BY ZenonT(40), <2>2, <2>3, <2>4 DEF Effect
    <3>2. CountActiveForUser(t, u) < admin'[b].rules.max
      BY <1>1, <3>1 DEF AtLimit
    <3> QED
      BY Zenon, <1>3, <2>1, <3>2
  <2>5. CASE b # a
    BY Zenon, <1>2, <1>3, <2>1, <2>3, <2>5
  <2> QED
    BY ZenonT(40), <2>4, <2>5
<1> QED
  BY Zenon, <1>4, <1>5, <1>6, <1>7, RowKinds

LEMMA KeysInv == Spec => [](TypeInv /\ KeyInv /\ TenantInv /\ LimitUnlessRaced)
<1>1. Init => TypeInv /\ KeyInv /\ TenantInv /\ LimitUnlessRaced
  <2>1. Init => TenantInv /\ LimitUnlessRaced
    BY DEF Init, AccountsInit, ApiKeysInit, IdleAdmin, Creating, TenantInv, LimitUnlessRaced
  <2> QED
    BY ZenonT(40), <2>1, InitTypes, InitKeys
<1>2. TypeInv /\ KeyInv /\ TenantInv /\ LimitUnlessRaced /\ [Next]_vars => (TypeInv /\ KeyInv /\ TenantInv /\ LimitUnlessRaced)'
  BY Zenon, NextTypes, NextRows, NextOwn, NextRecorded, NextTenants, NextLimit DEF KeyInv
<1> QED
  BY <1>1, <1>2, PTL DEF Spec

\* create exceeds max_keys_per_user only when another creation for the same
\* user committed between its count and its INSERT, for any number of requests,
\* users and keys.
THEOREM LimitHoldsUnlessRaced == Spec => []LimitUnlessRaced
  BY KeysInv, PTL

\* Of any number of requests that delete a key, one writes the audit record,
\* and only of a key that is gone.
THEOREM DeletionsRecordedOnce == Spec => []DeletionRecordedOnce
  BY KeysInv, RecordedOnce, PTL
=============================================================================
