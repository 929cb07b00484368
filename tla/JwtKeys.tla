------------------------------ MODULE JwtKeys ------------------------------
(***************************************************************************)
(* The JWT keys of a tenant: their API, rotation with a grace period, the  *)
(* hourly task that disables keys past it, and the authentication of JWTs  *)
(* with a key cached in Redis under jwt_pk:<kid>.                          *)
(*                                                                         *)
(* rotate is two statements and no transaction: the old key gets its grace *)
(* period, then the new key is inserted.  A JWT presented here is signed   *)
(* with the named key and carries its owner's ids; other tokens are        *)
(* refused whatever the state.  Times are positive, 0 stands for NULL.     *)
(***************************************************************************)
EXTENDS Accounts, Naturals, FiniteSets

CONSTANTS
    Keys, Rotators, Verifiers, NoKey,
    TenantOf,   \* the tenant of each key
    Uses,       \* what the keys created are for, see Kinds
    Expiries,   \* values a request may give for expires_at
    Graces,     \* values a request may give for grace_period_hours
    MinGrace,   \* 1 hour
    MaxGrace,   \* 720 hours
    Period,     \* 3600 s, the interval of the task
    TTL,        \* JWT_KEY_CACHE_TTL_SECS
    Hold,       \* longest time between the first and the last statement of a request
    MaxTime,    \* bound on the clock
    Budgets     \* bounds on the operations of each kind; one is in force

\* "hmac" has no public key, "es512" no decoder; "signing" is for webhooks.
Kinds == {"jwt", "es512", "hmac", "signing"}
Operations == {"account", "key", "rotate", "lookup", "fault", "tick"}

ASSUME JwtAssumption ==
    /\ OrgOf \in [Tenants -> Orgs] /\ TenantOf \in [Keys -> Tenants]
    /\ NoKey \notin Keys /\ Platform \notin Orgs
    /\ Uses \subseteq Kinds /\ Expiries \subseteq Nat /\ Graces \subseteq Nat
    /\ MinGrace \in Nat \ {0} /\ MaxGrace \in Nat /\ MinGrace <= MaxGrace
    /\ Period \in Nat \ {0} /\ TTL \in Nat /\ MaxTime \in Nat \ {0}
    /\ Hold \in Nat /\ Hold <= MinGrace
    /\ Budgets \subseteq [Operations -> Nat]

VARIABLES
    now,       \* the clock
    jwt,       \* the jwt_keys table
    rotator,   \* state of each rotation
    sweep,     \* when the task runs next
    cache,     \* Redis: the jwt_pk: keys
    verifier,  \* state of each request that presents a JWT
    left,      \* what is left of the budget
    verdict,   \* the verdict the last step gave
    lastOk,    \* history: when each key last was valid
    lastBad,   \* history: when it last was not, or was changed
    enabled,   \* history: when each key was last enabled by a request
    missed,    \* history: failed runs of the task
    halfway,   \* history: keys whose rotation stopped between its statements
    swept      \* history: keys the task has disabled

authVars == <<cache, verifier>>
observed == <<lastOk, lastBad>>
history == <<enabled, missed, halfway, swept>>
vars == <<org, tenant, env, now, jwt, rotator, sweep, cache, verifier, left, verdict, lastOk, lastBad,
          enabled, missed, halfway, swept>>

JwtRows ==
    [status: {"none", "active", "disabled"}, deleted: BOOLEAN, kind: Kinds, expires: Nat, grace: Nat,
     from: Keys \cup {NoKey}]
NoJwt == [status |-> "none", deleted |-> FALSE, kind |-> "jwt", expires |-> 0, grace |-> 0, from |-> NoKey]
NewJwt(kind, e, old) == [NoJwt EXCEPT !.status = "active", !.kind = kind, !.expires = e, !.from = old]

IdleRotator == [pc |-> "idle", old |-> NoKey, kind |-> "jwt", expires |-> 0, grace |-> 0, since |-> 0]
IdleVerifier == [pc |-> "idle", key |-> NoKey, ok |-> FALSE, read |-> 0]
NoEntry == [full |-> FALSE, ok |-> FALSE, read |-> 0, set |-> 0]
NoVerdict == [cred |-> NoKey, ok |-> FALSE]

TypeOK ==
    /\ AccountsTypeOK
    /\ now \in 1..MaxTime
    /\ jwt \in [Keys -> JwtRows]
    /\ rotator \in [Rotators -> [pc: {"idle", "mark", "insert"}, old: Keys \cup {NoKey}, kind: Kinds,
                                 expires: Nat, grace: Nat, since: Nat]]
    /\ sweep \in Nat
    /\ cache \in [Keys -> [full: BOOLEAN, ok: BOOLEAN, read: Nat, set: Nat]]
    /\ verifier \in [Verifiers -> [pc: {"idle", "select", "fill"}, key: Keys \cup {NoKey}, ok: BOOLEAN, read: Nat]]
    /\ left \in [Operations -> Nat]
    /\ verdict \in [cred: Keys \cup {NoKey}, ok: BOOLEAN]
    /\ lastOk \in [Keys -> Nat] /\ lastBad \in [Keys -> Nat] /\ enabled \in [Keys -> Nat]
    /\ missed \in Nat /\ halfway \subseteq Keys /\ swept \subseteq Keys

\* Every statement of the API but the INSERTs has WHERE deleted_at IS NULL.
Found(j) == jwt[j].status # "none" /\ ~jwt[j].deleted
\* Ids are fresh.
Unused(j) == jwt[j].status = "none"

\* The authentication keys that count: the condition of the JWKS query, and
\* of the query of load_jwt_key.
Serves(j) ==
    /\ jwt[j].kind # "signing"
    /\ jwt[j].status = "active" /\ ~jwt[j].deleted
    /\ jwt[j].expires = 0 \/ jwt[j].expires > now
\* No public key: Unauthorized before anything is cached.
Loadable(j) == Serves(j) /\ jwt[j].kind # "hmac"
\* What resolve_jwt asks of an entry, and of the row it was made from.
OwnerInGoodStanding(t) ==
    /\ ~org[OrgOf[t]].deleted /\ org[OrgOf[t]].status # "suspended"
    /\ ~tenant[t].deleted /\ tenant[t].status # "suspended"
Accepts(j) == jwt[j].kind = "jwt" /\ OwnerInGoodStanding(TenantOf[j])
Valid(j) == Loadable(j) /\ Accepts(j)

Init ==
    /\ org = [o \in Orgs |-> NewAccount]
    /\ tenant = [t \in Tenants |-> NewAccount]
    /\ env = [t \in Tenants |-> "active"]
    /\ now = 1
    /\ jwt = [j \in Keys |-> NoJwt]
    /\ rotator = [r \in Rotators |-> IdleRotator]
    /\ sweep = 1
    /\ cache = [j \in Keys |-> NoEntry]
    /\ verifier = [v \in Verifiers |-> IdleVerifier]
    /\ left \in Budgets
    /\ verdict = NoVerdict
    /\ lastOk = [j \in Keys |-> 0]
    /\ lastBad = [j \in Keys |-> 1]
    /\ enabled = [j \in Keys |-> 0]
    /\ missed = 0 /\ halfway = {} /\ swept = {}

Spend(kind) == left[kind] > 0 /\ left' = [left EXCEPT ![kind] = @ - 1]
\* Bookkeeping of every step that is not an answer.
Terms(j) == <<jwt[j], org[OrgOf[TenantOf[j]]], tenant[TenantOf[j]]>>
Observe ==
    /\ lastOk' = [j \in Keys |-> IF Valid(j)' THEN now' ELSE lastOk[j]]
    /\ lastBad' = [j \in Keys |-> IF Valid(j)' /\ Terms(j)' = Terms(j) THEN lastBad[j] ELSE now']
    /\ verdict' = NoVerdict

OnAccounts ==
    /\ AccountStep /\ Spend("account")
    /\ UNCHANGED <<now, jwt, rotator, sweep, authVars, history>> /\ Observe

(***************************************************************************)
(* The API of keys                                                         *)
(***************************************************************************)
SetKey(j, row) ==
    /\ jwt' = [jwt EXCEPT ![j] = row]
    /\ Spend("key")
    /\ UNCHANGED <<accounts, now, rotator, sweep, authVars, missed, halfway, swept>> /\ Observe

CreateKey(j, kind, e) == Unused(j) /\ SetKey(j, NewJwt(kind, e, NoKey)) /\ UNCHANGED enabled

\* COALESCE: a request without expires_at leaves it alone
WithExpiry(row, e) == [row EXCEPT !.expires = IF e # 0 THEN e ELSE @]
UpdateKey(j, e) == Found(j) /\ SetKey(j, WithExpiry(jwt[j], e)) /\ UNCHANGED enabled

\* whatever the status was; the grace period stays
WithStatus(row, s) == [row EXCEPT !.status = s]
EnableKey(j) == Found(j) /\ SetKey(j, WithStatus(jwt[j], "active")) /\ enabled' = [enabled EXCEPT ![j] = now]
\* Broken variant: the status is taken for that of a key past its expires_at.
DisableAsExpired(j) == Found(j) /\ SetKey(j, WithStatus(jwt[j], "expired")) /\ UNCHANGED enabled
DisableKey(j) == Found(j) /\ SetKey(j, WithStatus(jwt[j], "disabled")) /\ UNCHANGED enabled

SoftDeleted(row) == [row EXCEPT !.deleted = TRUE]
DeleteKey(j) == Found(j) /\ SetKey(j, SoftDeleted(jwt[j])) /\ UNCHANGED enabled

(***************************************************************************)
(* Rotation                                                                *)
(***************************************************************************)
Clamp(g) == IF g < MinGrace THEN MinGrace ELSE IF g > MaxGrace THEN MaxGrace ELSE g

\* get_by_id, and the successor's columns are taken from the row it returns
BeginRotation(r, j, g) ==
    /\ rotator[r].pc = "idle"
    /\ Found(j) /\ Spend("rotate")
    /\ rotator' = [rotator EXCEPT ![r] =
         [pc |-> "mark", old |-> j, kind |-> jwt[j].kind, expires |-> jwt[j].expires, grace |-> Clamp(g), since |-> now]]
    /\ UNCHANGED <<accounts, now, jwt, sweep, authVars, history>> /\ Observe

\* The grace period counts from when rotate read the clock, before the UPDATE.
\* The number of rows the UPDATE hits is not looked at.
MarkOld(r) ==
    /\ rotator[r].pc = "mark"
    /\ \E at \in rotator[r].since..now :
         LET j == rotator[r].old IN
         jwt' = IF Found(j) THEN [jwt EXCEPT ![j].grace = at + rotator[r].grace] ELSE jwt
    /\ rotator' = [rotator EXCEPT ![r].pc = "insert"]
    /\ UNCHANGED <<accounts, now, sweep, authVars, left, history>> /\ Observe

\* Broken variant: the old key is marked, the new one never inserted.
InsertNothing(r) ==
    /\ rotator[r].pc = "insert"
    /\ rotator' = [rotator EXCEPT ![r] = IdleRotator]
    /\ UNCHANGED <<accounts, now, jwt, sweep, authVars, left, history>> /\ Observe

InsertSuccessor(r) ==
    /\ rotator[r].pc = "insert"
    /\ \E j \in Keys :
         /\ Unused(j)
         /\ jwt' = [jwt EXCEPT ![j] = NewJwt(rotator[r].kind, rotator[r].expires, rotator[r].old)]
    /\ rotator' = [rotator EXCEPT ![r] = IdleRotator]
    /\ UNCHANGED <<accounts, now, sweep, authVars, left, history>> /\ Observe

\* A statement fails or the server dies: what was written stays.
RotationStops(r) ==
    /\ rotator[r].pc # "idle"
    /\ Spend("fault")
    /\ halfway' = IF rotator[r].pc = "insert" THEN halfway \cup {rotator[r].old} ELSE halfway
    /\ rotator' = [rotator EXCEPT ![r] = IdleRotator]
    /\ UNCHANGED <<accounts, now, jwt, sweep, authVars, enabled, missed, swept>> /\ Observe

(***************************************************************************)
(* The background task                                                     *)
(***************************************************************************)
PastGrace(j) == jwt[j].status = "active" /\ jwt[j].grace # 0 /\ jwt[j].grace < now /\ ~jwt[j].deleted

\* Broken variant: only keys whose row also has an expires_at.
SweepExpiring ==
    LET over == {j \in Keys : PastGrace(j) /\ jwt[j].expires # 0} IN
    /\ now >= sweep
    /\ jwt' = [j \in Keys |-> IF j \in over THEN [jwt[j] EXCEPT !.status = "disabled"] ELSE jwt[j]]
    /\ swept' = swept \cup over
    /\ sweep' = sweep + Period
    /\ UNCHANGED <<accounts, now, rotator, authVars, left, enabled, missed, halfway>> /\ Observe

Sweep ==
    LET over == {j \in Keys : PastGrace(j)} IN
    /\ now >= sweep
    /\ jwt' = [j \in Keys |-> IF j \in over THEN [jwt[j] EXCEPT !.status = "disabled"] ELSE jwt[j]]
    /\ swept' = swept \cup over
    /\ sweep' = sweep + Period
    /\ UNCHANGED <<accounts, now, rotator, authVars, left, enabled, missed, halfway>> /\ Observe

\* The error is logged; the next run is an interval later.
SweepFails ==
    /\ now >= sweep
    /\ Spend("fault")
    /\ sweep' = sweep + Period
    /\ missed' = missed + 1
    /\ UNCHANGED <<accounts, now, jwt, rotator, authVars, enabled, halfway, swept>> /\ Observe

(***************************************************************************)
(* Authentication with a JWT                                               *)
(***************************************************************************)
Fresh(j) == cache[j].full /\ now <= cache[j].set + TTL
Decide(j, ok) == verdict' = [cred |-> j, ok |-> ok]

\* An entry says whose key it is and how the owner stood; not whether the
\* key still is active.
CacheHit(v, j) ==
    /\ verifier[v].pc = "idle"
    /\ Fresh(j)
    /\ Decide(j, cache[j].ok)
    /\ UNCHANGED <<accounts, now, jwt, rotator, sweep, authVars, left, observed, history>>

CacheMiss(v, j) ==
    /\ verifier[v].pc = "idle"
    /\ Spend("lookup")
    /\ verifier' = [verifier EXCEPT ![v] = [IdleVerifier EXCEPT !.pc = "select", !.key = j]]
    /\ UNCHANGED <<accounts, now, jwt, rotator, sweep, cache, history>> /\ Observe

SelectNothing(v) ==
    /\ verifier[v].pc = "select"
    /\ ~Loadable(verifier[v].key)
    /\ Decide(verifier[v].key, FALSE)
    /\ verifier' = [verifier EXCEPT ![v] = IdleVerifier]
    /\ UNCHANGED <<accounts, now, jwt, rotator, sweep, cache, left, observed, history>>

SelectKey(v) ==
    LET j == verifier[v].key IN
    /\ verifier[v].pc = "select"
    /\ Loadable(j)
    /\ verifier' = [verifier EXCEPT ![v] = [@ EXCEPT !.pc = "fill", !.ok = Accepts(j), !.read = now]]
    /\ UNCHANGED <<accounts, now, jwt, rotator, sweep, cache, left, history>> /\ Observe

\* Broken variant: the entry has no TTL but the clock's.
SetForever(v) ==
    cache' = [cache EXCEPT ![verifier[v].key] =
        [full |-> TRUE, ok |-> verifier[v].ok, read |-> verifier[v].read, set |-> MaxTime]]

SetEx(v) ==
    cache' = [cache EXCEPT ![verifier[v].key] =
        [full |-> TRUE, ok |-> verifier[v].ok, read |-> verifier[v].read, set |-> now]]

FillAndAnswer(v) ==
    /\ verifier[v].pc = "fill"
    /\ SetEx(v) \/ UNCHANGED cache
    /\ Decide(verifier[v].key, verifier[v].ok)
    /\ verifier' = [verifier EXCEPT ![v] = IdleVerifier]
    /\ UNCHANGED <<accounts, now, jwt, rotator, sweep, left, observed, history>>

Abandon(v) ==
    /\ verifier[v].pc # "idle"
    /\ verifier' = [verifier EXCEPT ![v] = IdleVerifier]
    /\ UNCHANGED <<accounts, now, jwt, rotator, sweep, cache, left, history>> /\ Observe

Evict(j) ==
    /\ cache[j].full
    /\ cache' = [cache EXCEPT ![j] = NoEntry]
    /\ UNCHANGED <<accounts, now, jwt, rotator, sweep, verifier, left, history>> /\ Observe

\* The task runs when it is due, and no request takes longer than Hold from
\* its first statement to its last.
Tick ==
    /\ now < MaxTime /\ Spend("tick")
    /\ now < sweep
    /\ \A v \in Verifiers : verifier[v].pc = "fill" => now < verifier[v].read + Hold
    /\ \A r \in Rotators : rotator[r].pc # "idle" => now < rotator[r].since + Hold
    /\ now' = now + 1
    /\ UNCHANGED <<accounts, jwt, rotator, sweep, authVars, history>> /\ Observe

Next ==
    \/ OnAccounts
    \/ \E j \in Keys, kind \in Uses, e \in Expiries : CreateKey(j, kind, e)
    \/ \E j \in Keys, e \in Expiries : UpdateKey(j, e)
    \/ \E j \in Keys : EnableKey(j) \/ DisableKey(j) \/ DeleteKey(j)
    \/ \E r \in Rotators, j \in Keys, g \in Graces : BeginRotation(r, j, g)
    \/ \E r \in Rotators : MarkOld(r) \/ InsertSuccessor(r) \/ RotationStops(r)
    \/ Sweep \/ SweepFails
    \/ \E v \in Verifiers, j \in Keys : CacheHit(v, j) \/ CacheMiss(v, j)
    \/ \E v \in Verifiers : SelectNothing(v) \/ SelectKey(v) \/ FillAndAnswer(v) \/ Abandon(v)
    \/ \E j \in Keys : Evict(j)
    \/ Tick

Spec == Init /\ [][Next]_vars

(***************************************************************************)
(* Properties                                                              *)
(***************************************************************************)

\* A key past its grace period serves for at most one interval of the task
\* more, and one more for each run that failed; a key enabled again after it
\* has the same time from then on: expire_grace_period_keys runs hourly, and
\* enable does not clear grace_period_ends_at.
GraceOverrun ==
    \A j \in Keys :
        PastGrace(j) =>
            LET from == IF enabled[j] > jwt[j].grace THEN enabled[j] ELSE jwt[j].grace
            IN now <= from + Period * (1 + missed)

\* The task never retires a key that has no successor, but for rotations that
\* stopped between their two statements: rotate marks the old key before it
\* inserts the new one.
SweptHasSuccessor ==
    \A j \in swept \ halfway : \E s \in Keys : jwt[s].status # "none" /\ jwt[s].from = j

\* Authentication with JWTs implements the abstract authenticator with the
\* TTL of jwt_pk: entries, which do not hold the key's status or expiry.
Promise == INSTANCE BoundedStaleness
             WITH Cred <- Keys, Window <- TTL + Hold, NoAnswer <- NoVerdict, clock <- now,
                  holds <- [j \in Keys |-> Valid(j)], held <- lastOk, unsettled <- lastBad, answer <- verdict
JwtRevocationIsBounded == Promise!Spec
=============================================================================
