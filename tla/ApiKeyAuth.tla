----------------------------- MODULE ApiKeyAuth -----------------------------
(***************************************************************************)
(* Authentication with an API key: the authenticate middleware in front of *)
(* every protected route, its Redis cache auth:<hash>, and the operations  *)
(* on keys, tenants and organizations that ought to stop a key.            *)
(*                                                                         *)
(* Nothing removes an entry of the cache but its TTL.  An entry is a copy  *)
(* of the joined row; what the copy says is evaluated with the clock of    *)
(* the moment it is used, and invalid rows are cached like valid ones.     *)
(* The spawned UPDATE of last_used_at, which nothing reads, is left out.   *)
(***************************************************************************)
EXTENDS ApiKeys

CONSTANTS
    Requests,
    Defaults,  \* keys named "default", which only the bootstrap creates
    Presented, \* keys that clients present
    TTL,       \* AUTH_CACHE_TTL_SECS, in ticks
    Hold,      \* longest time from a request's SELECT to its SETEX
    MaxTime,   \* bound on the clock
    Budgets    \* bounds on the operations of each kind; one is in force

\* account: operations on organizations, tenants and environments;
\* create, change, settings: requests to the API of keys; lookup: questions that go to
\* the database; tick: the clock
Kinds == {"account", "create", "change", "settings", "lookup", "tick"}

ASSUME AuthAssumption ==
    /\ TTL \in Nat /\ Hold \in Nat /\ MaxTime \in Nat \ {0} /\ Budgets \subseteq [Kinds -> Nat]
    /\ OrgOf \in [Tenants -> Orgs] /\ TenantOf \in [Keys -> Tenants] /\ UserOf \in [Keys -> Users]
    /\ Expiries \subseteq Nat /\ SettingsChoices \subseteq SettingsRows
    /\ Defaults \subseteq Keys /\ Presented \subseteq Keys /\ NoKey \notin Keys /\ Platform \notin Orgs
    /\ IsFiniteSet(Keys) /\ IsFiniteSet(Admins)

VARIABLES
    cache,    \* Redis: the auth: keys
    request,  \* state of each request being authenticated
    left,     \* what is left of the budget
    verdict,  \* the verdict the last step gave
    lastOk,   \* history: when each key's row last was valid
    lastBad   \* history: when it last was not, or was changed

authVars == <<cache, request>>
history == <<lastOk, lastBad>>
vars == <<org, tenant, env, now, keys, settings, admin, audit, cache, request, left, verdict, lastOk, lastBad>>

\* The JOIN of api_keys, organizations and tenants.
Joined(k) == [key |-> keys[k], org |-> org[OrgOf[TenantOf[k]]], tenant |-> tenant[TenantOf[k]]]
JoinedRows == [key: ApiKeyRows, org: AccountRows, tenant: AccountRows]

\* validate, at time t
Validates(e, t) ==
    /\ ~e.key.deleted
    /\ e.key.status # "expired"
    /\ e.key.expires = 0 \/ e.key.expires >= t
    /\ ~e.org.deleted /\ e.org.status # "suspended"
    /\ ~e.tenant.deleted /\ e.tenant.status # "suspended"

Stored(k) == keys[k].status # "none"
Valid(k) == Stored(k) /\ Validates(Joined(k), now)

NoRow == [key |-> NoApiKey, org |-> NoAccount, tenant |-> NoAccount]
NoEntry == [full |-> FALSE, row |-> NoRow, read |-> 0, set |-> 0]
NoVerdict == [cred |-> NoKey, ok |-> FALSE]
IdleRequest == [pc |-> "idle", key |-> NoKey, row |-> NoRow, read |-> 0]

Entries == [full: BOOLEAN, row: JoinedRows, read: Nat, set: Nat]
RequestStates == [pc: {"idle", "select", "fill"}, key: Keys \cup {NoKey}, row: JoinedRows, read: Nat]

TypeOK ==
    /\ AccountsTypeOK /\ ApiKeysTypeOK
    /\ now \in 1..MaxTime
    /\ cache \in [Keys -> Entries]
    /\ request \in [Requests -> RequestStates]
    /\ left \in [Kinds -> Nat]
    /\ verdict \in [cred: Keys \cup {NoKey}, ok: BOOLEAN]
    /\ lastOk \in [Keys -> 0..MaxTime] /\ lastBad \in [Keys -> 0..MaxTime]

Init ==
    /\ AccountsInit /\ ApiKeysInit
    /\ now = 1
    /\ cache = [k \in Keys |-> NoEntry]
    /\ request = [q \in Requests |-> IdleRequest]
    /\ left \in Budgets
    /\ verdict = NoVerdict
    /\ lastOk = [k \in Keys |-> 0]
    /\ lastBad = [k \in Keys |-> 1]

\* Bookkeeping of every step that is not an answer.
Observe ==
    /\ lastOk' = [k \in Keys |-> IF Valid(k)' THEN now' ELSE lastOk[k]]
    /\ lastBad' = [k \in Keys |-> IF Valid(k)' /\ Joined(k)' = Joined(k) THEN lastBad[k] ELSE now']
    /\ verdict' = NoVerdict
Spend(kind) == left[kind] > 0 /\ left' = [left EXCEPT ![kind] = @ - 1]

\* POST /admin/organizations: one transaction creates organization, tenant,
\* environment and key; this key gets no audit record.
Bootstrap(k) ==
    /\ Unused(k)
    /\ BootstrapAccounts(TenantOf[k])
    /\ keys' = [keys EXCEPT ![k] = NewKey(0, NoSettings)]
    /\ UNCHANGED <<settings, admin, audit, now, left, authVars>> /\ Observe

OnAccounts == AccountStep /\ Spend("account") /\ UNCHANGED <<keyVars, now, authVars>> /\ Observe

BeginRequest(a) ==
    /\ \/ \E k \in Keys \ Defaults, e \in Expiries : CreateKey(a, k, e) /\ Spend("create")
       \/ \E k \in Keys, e \in Expiries : UpdateKey(a, k, e) /\ Spend("change")
       \/ \E k \in Keys : (DeleteKey(a, k) \/ RevealKey(a, k)) /\ Spend("change")
    /\ UNCHANGED <<accounts, now, authVars>> /\ Observe

ContinueRequest(a) ==
    /\ \/ ReadSettings(a) \/ CheckLimit(a) \/ InsertKey(a) \/ WriteUpdate(a) \/ WriteDelete(a) \/ ViewKey(a)
       \/ InsertAudit(a) \/ RequestStops(a)
    /\ UNCHANGED <<accounts, now, authVars, left>> /\ Observe

ChangeSettings ==
    /\ \E t \in Tenants, s \in SettingsChoices : UpsertSettings(t, s) \/ UpdateSettings(t, s)
    /\ Spend("settings") /\ UNCHANGED <<accounts, now, authVars>> /\ Observe

\* resolve_api_key: a hit is validated and answered, whatever it says
Fresh(k) == cache[k].full /\ now <= cache[k].set + TTL
Decide(k, e) == verdict' = [cred |-> k, ok |-> Validates(e, now)]

\* Broken variant: every use of an entry renews its TTL.
CacheHitRenews(q, k) ==
    /\ request[q].pc = "idle"
    /\ Fresh(k)
    /\ Decide(k, cache[k].row)
    /\ cache' = [cache EXCEPT ![k].set = now]
    /\ UNCHANGED <<accounts, keyVars, now, request, left, history>>

CacheHit(q, k) ==
    /\ request[q].pc = "idle"
    /\ Fresh(k)
    /\ Decide(k, cache[k].row)
    /\ UNCHANGED <<accounts, keyVars, now, authVars, left, history>>

\* a miss, or Redis cannot be reached: go to the database
CacheMiss(q, k) ==
    /\ request[q].pc = "idle"
    /\ request' = [request EXCEPT ![q] = [IdleRequest EXCEPT !.pc = "select", !.key = k]]
    /\ UNCHANGED <<accounts, keyVars, now, cache>> /\ Spend("lookup") /\ Observe

\* no row: Unauthorized, and nothing is cached
SelectNothing(q) ==
    /\ request[q].pc = "select"
    /\ ~Stored(request[q].key)
    /\ verdict' = [cred |-> request[q].key, ok |-> FALSE]
    /\ request' = [request EXCEPT ![q] = IdleRequest]
    /\ UNCHANGED <<accounts, keyVars, now, cache, left, history>>

SelectRow(q) ==
    /\ request[q].pc = "select"
    /\ Stored(request[q].key)
    /\ request' = [request EXCEPT ![q] = [@ EXCEPT !.pc = "fill", !.row = Joined(request[q].key), !.read = now]]
    /\ UNCHANGED <<accounts, keyVars, now, cache, left>> /\ Observe

SetEx(q) ==
    cache' = [cache EXCEPT ![request[q].key] = [full |-> TRUE, row |-> request[q].row, read |-> request[q].read, set |-> now]]

\* SETEX, best effort; then validate the row that was read
FillAndAnswer(q) ==
    /\ request[q].pc = "fill"
    /\ SetEx(q) \/ UNCHANGED cache
    /\ Decide(request[q].key, request[q].row)
    /\ request' = [request EXCEPT ![q] = IdleRequest]
    /\ UNCHANGED <<accounts, keyVars, now, left, history>>

\* a failed SELECT is a 500, not a verdict; a client may go away
Abandon(q) ==
    /\ request[q].pc # "idle"
    /\ request' = [request EXCEPT ![q] = IdleRequest]
    /\ UNCHANGED <<accounts, keyVars, now, cache, left>> /\ Observe

\* Redis drops an entry: its TTL is over, or it restarts
Evict(k) ==
    /\ cache[k].full
    /\ cache' = [cache EXCEPT ![k] = NoEntry]
    /\ UNCHANGED <<accounts, keyVars, now, request, left>> /\ Observe

Tick ==
    /\ now < MaxTime
    /\ \A q \in Requests : request[q].pc = "fill" => now < request[q].read + Hold
    /\ now' = now + 1
    /\ UNCHANGED <<accounts, keyVars, authVars>> /\ Spend("tick") /\ Observe

Next ==
    \/ \E k \in Defaults : Bootstrap(k)
    \/ OnAccounts
    \/ \E a \in Admins : BeginRequest(a)
    \/ \E a \in Admins : ContinueRequest(a)
    \/ ChangeSettings
    \/ \E q \in Requests, k \in Presented : CacheHit(q, k) \/ CacheMiss(q, k)
    \/ \E q \in Requests : SelectNothing(q) \/ SelectRow(q) \/ FillAndAnswer(q) \/ Abandon(q)
    \/ \E k \in Keys : Evict(k)
    \/ Tick

Spec == Init /\ [][Next]_vars

(***************************************************************************)
(* Properties                                                              *)
(***************************************************************************)

\* Authentication implements the abstract authenticator with a window of the
\* cache's TTL plus the time one request takes from its SELECT to its SETEX:
\* a key that was deleted or expired, or whose tenant or organization was
\* suspended or deleted, that long ago is not accepted any more, and one that
\* has been valid and untouched for that long is not refused.
Promise == INSTANCE BoundedStaleness
             WITH Cred <- Keys, Window <- TTL + Hold, NoAnswer <- NoVerdict, clock <- now,
                  holds <- [k \in Keys |-> Valid(k)], held <- lastOk, unsettled <- lastBad, answer <- verdict
RevocationIsBounded == Promise!Spec
=============================================================================
