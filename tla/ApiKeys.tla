------------------------------ MODULE ApiKeys ------------------------------
(***************************************************************************)
(* API keys and their per-tenant settings: the handlers of the API, one    *)
(* step per statement, so that two requests interleave as they do in the   *)
(* server.  Every handler ends with a best-effort INSERT into the audit    *)
(* table; a request may stop between any two of its steps.                 *)
(*                                                                         *)
(* Times are positive; 0 stands for NULL (no expiry, no limit, no TTL).    *)
(***************************************************************************)
EXTENDS Accounts, Naturals, FiniteSets

CONSTANTS
    Keys, Admins, Users,
    TenantOf, UserOf,   \* the tenant and the user of each key
    NoKey,
    Expiries,           \* values a request may give for expires_at
    SettingsChoices     \* settings a request may give

VARIABLES
    now,       \* the clock
    keys,      \* the api_keys table
    settings,  \* the api_key_settings table, one row per tenant
    admin,     \* state of each request to the API of keys
    audit      \* how many audit records of each action each key has

keyVars == <<keys, settings, admin, audit>>

ApiKeyRows == [status: {"none", "active", "expired"}, deleted: BOOLEAN, expires: Nat, sealed: BOOLEAN]
NoApiKey == [status |-> "none", deleted |-> FALSE, expires |-> 0, sealed |-> FALSE]
SettingsRows == [stored: BOOLEAN, max: Nat, view: BOOLEAN, ttl: Nat]
NoSettings == [stored |-> FALSE, max |-> 0, view |-> FALSE, ttl |-> 0]

\* raced: another creation committed since this one counted the user's keys.
AuditActions == {"created", "updated", "deleted", "revealed"}
IdleAdmin == [pc |-> "idle", key |-> NoKey, exp |-> 0, rules |-> NoSettings, act |-> "created", raced |-> FALSE]
AdminStates ==
    [pc: {"idle", "settings", "count", "insert", "update", "delete", "view", "audit"}, key: Keys \cup {NoKey},
     exp: Nat, rules: SettingsRows, act: AuditActions, raced: BOOLEAN]

ApiKeysTypeOK ==
    /\ keys \in [Keys -> ApiKeyRows]
    /\ settings \in [Tenants -> SettingsRows]
    /\ admin \in [Admins -> AdminStates]
    /\ audit \in [Keys -> [AuditActions -> Nat]]

ApiKeysInit ==
    /\ keys = [k \in Keys |-> NoApiKey]
    /\ settings = [t \in Tenants |-> NoSettings]
    /\ admin = [a \in Admins |-> IdleAdmin]
    /\ audit = [k \in Keys |-> [x \in AuditActions |-> 0]]

Found(k) == keys[k].status # "none" /\ ~keys[k].deleted
SettingsFor(k) == settings[TenantOf[k]]
\* Fresh ids: a key being created by a request is not another request's.
Unused(k) == keys[k].status = "none" /\ \A a \in Admins : admin[a].key # k
\* Keys past their expires_at still count: nothing sets their status.
ActiveFor(t, u) == {k \in Keys : TenantOf[k] = t /\ UserOf[k] = u /\ ~keys[k].deleted /\ keys[k].status = "active"}
CountActiveForUser(t, u) == Cardinality(ActiveFor(t, u))
\* validate_all: an expires_at that is given lies in the future.
ValidExpiry(e) == e = 0 \/ e > now

Done(a) == admin' = [admin EXCEPT ![a] = IdleAdmin]
Begin(a, k, pc, e) ==
    /\ admin[a].pc = "idle"
    /\ admin' = [admin EXCEPT ![a] = [IdleAdmin EXCEPT !.pc = pc, !.key = k, !.exp = e]]
ToAudit(a, act) == admin' = [admin EXCEPT ![a].pc = "audit", ![a].act = act]

\* create: the environment exists and is active
CreateKey(a, k, e) ==
    /\ Unused(k) /\ ValidExpiry(e)
    /\ env[TenantOf[k]] = "active"
    /\ Begin(a, k, "settings", e)
    /\ UNCHANGED <<keys, settings, audit>>

\* The row to insert is put together from what the request has read.
EffectiveExpiry(e, s) == IF e # 0 THEN e ELSE IF s.ttl # 0 THEN now + s.ttl ELSE 0
Prepare(a, s) ==
    admin' = [admin EXCEPT ![a] = [admin[a] EXCEPT !.rules = s, !.exp = EffectiveExpiry(admin[a].exp, s), !.pc = "insert"]]

\* The settings in force when they are read; only a limit needs the count.
ReadSettings(a) ==
    /\ admin[a].pc = "settings"
    /\ LET s == SettingsFor(admin[a].key) IN
         IF s.max = 0 THEN Prepare(a, s) ELSE admin' = [admin EXCEPT ![a].rules = s, ![a].pc = "count"]
    /\ UNCHANGED <<keys, settings, audit>>

\* Broken variant: one key too many.
AtLimitOffByOne(k, max) == CountActiveForUser(TenantOf[k], UserOf[k]) > max
AtLimit(k, max) == CountActiveForUser(TenantOf[k], UserOf[k]) >= max
CheckLimit(a) ==
    /\ admin[a].pc = "count"
    /\ IF AtLimit(admin[a].key, admin[a].rules.max) THEN Done(a) ELSE Prepare(a, admin[a].rules)
    /\ UNCHANGED <<keys, settings, audit>>

\* Broken variant: a status the column does not have.
NewKeyPending(e, s) == [status |-> "pending", deleted |-> FALSE, expires |-> e, sealed |-> s.view]
NewKey(e, s) == [status |-> "active", deleted |-> FALSE, expires |-> e, sealed |-> s.view]
SameUser(k, j) == TenantOf[k] = TenantOf[j] /\ UserOf[k] = UserOf[j]
InsertKey(a) ==
    LET k == admin[a].key IN
    /\ admin[a].pc = "insert"
    /\ keys' = [keys EXCEPT ![k] = NewKey(admin[a].exp, admin[a].rules)]
    /\ admin' = [b \in Admins |->
         IF b = a THEN [admin[a] EXCEPT !.pc = "audit", !.act = "created"]
         ELSE IF admin[b].pc = "insert" /\ SameUser(admin[b].key, k) THEN [admin[b] EXCEPT !.raced = TRUE]
         ELSE admin[b]]
    /\ UNCHANGED <<settings, audit>>

\* update, delete, reveal: get_by_public_id first, NotFound ends the request
UpdateKey(a, k, e) ==
    Found(k) /\ ValidExpiry(e) /\ Begin(a, k, "update", e) /\ UNCHANGED <<keys, settings, audit>>
DeleteKey(a, k) == Found(k) /\ Begin(a, k, "delete", 0) /\ UNCHANGED <<keys, settings, audit>>
RevealKey(a, k) == Found(k) /\ Begin(a, k, "view", 0) /\ UNCHANGED <<keys, settings, audit>>

UpdatedKey(r, e) == [r EXCEPT !.expires = IF e # 0 THEN e ELSE @]
WriteUpdate(a) ==
    LET k == admin[a].key IN
    /\ admin[a].pc = "update"
    /\ IF Found(k)
       THEN keys' = [keys EXCEPT ![k] = UpdatedKey(keys[k], admin[a].exp)] /\ ToAudit(a, "updated")
       ELSE Done(a) /\ UNCHANGED keys
    /\ UNCHANGED <<settings, audit>>

\* Broken variant: rows_affected is not looked at.
WriteDeleteUnchecked(a) ==
    /\ admin[a].pc = "delete"
    /\ keys' = [keys EXCEPT ![admin[a].key].deleted = TRUE]
    /\ ToAudit(a, "deleted")
    /\ UNCHANGED <<settings, audit>>

\* rows_affected tells the second of two deletions apart.
WriteDelete(a) ==
    LET k == admin[a].key IN
    /\ admin[a].pc = "delete"
    /\ IF Found(k)
       THEN keys' = [keys EXCEPT ![k].deleted = TRUE] /\ ToAudit(a, "deleted")
       ELSE Done(a) /\ UNCHANGED keys
    /\ UNCHANGED <<settings, audit>>

Viewable(k) == SettingsFor(k).view /\ keys[k].sealed
ViewKey(a) ==
    /\ admin[a].pc = "view"
    /\ IF Viewable(admin[a].key) THEN ToAudit(a, "revealed") ELSE Done(a)
    /\ UNCHANGED <<keys, settings, audit>>

InsertAudit(a) ==
    /\ admin[a].pc = "audit"
    /\ audit' = [audit EXCEPT ![admin[a].key][admin[a].act] = @ + 1]
    /\ Done(a)
    /\ UNCHANGED <<keys, settings>>

\* A failed statement or a crash: the request ends, what it wrote stays.
RequestStops(a) ==
    /\ admin[a].pc # "idle"
    /\ Done(a)
    /\ UNCHANGED <<keys, settings, audit>>

\* Both write every column; PATCH only an existing row.
StoreSettings(t, s) == settings' = [settings EXCEPT ![t] = [s EXCEPT !.stored = TRUE]]
UpsertSettings(t, s) == tenant[t].status # "none" /\ StoreSettings(t, s) /\ UNCHANGED <<keys, admin, audit>>
UpdateSettings(t, s) == settings[t].stored /\ StoreSettings(t, s) /\ UNCHANGED <<keys, admin, audit>>

(***************************************************************************)
(* Properties                                                              *)
(***************************************************************************)

\* A creation under a limit is about to insert only if there is room, unless
\* another creation for the same user committed after this one counted:
\* create checks max_keys_per_user and inserts in two statements and takes no
\* lock, so racing creations, and nothing else, exceed the limit.
LimitUnlessRaced ==
    \A a \in Admins :
        admin[a].pc = "insert" /\ admin[a].rules.max # 0 /\ ~admin[a].raced =>
            CountActiveForUser(TenantOf[admin[a].key], UserOf[admin[a].key]) < admin[a].rules.max

\* However many requests delete a key at once, one of them reports success and
\* writes the audit record, and the record is there only if the key is gone.
DeletionRecordedOnce ==
    \A k \in Keys :
        /\ audit[k]["deleted"] + Cardinality({a \in Admins : admin[a].key = k /\ admin[a].pc = "audit" /\ admin[a].act = "deleted"}) <= 1
        /\ audit[k]["deleted"] > 0 => keys[k].deleted
=============================================================================
