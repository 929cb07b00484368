--------------------------- MODULE EndpointGuards ---------------------------
(***************************************************************************)
(* The Redis keys by which process_one decides whether an endpoint may be  *)
(* called: the block a 429 leaves behind, the circuit breaker's failure    *)
(* count and open marker, and one counter of requests per minute.          *)
(*                                                                         *)
(* A key is kept with the time at which it expires; 0 is a key that was    *)
(* never set or was deleted.  A Lua script is one step.                    *)
(***************************************************************************)
EXTENDS Naturals, FiniteSets

CONSTANTS
    EndpointIds,
    Threshold, Window, Cooldown,  \* cb_failure_threshold, cb_window_secs, cb_cooldown_secs
    Minute,                       \* the length of a bucket of the rate limit
    SlotTtl,                      \* the TTL of its counter, longer than the bucket
    MaxTime                       \* bound on the clock

ASSUME GuardsAssumption ==
    /\ {Threshold, Window, Cooldown, Minute, SlotTtl} \subseteq Nat \ {0}
    /\ SlotTtl > Minute
    /\ MaxTime \in Nat \ {0}

VARIABLES
    now,       \* the clock, of Redis and of the workers alike
    blocked,   \* hookly:rl:blocked:{endpoint}
    open,      \* hookly:cb:open:{endpoint}
    fails,     \* hookly:cb:fail:{endpoint}
    slots,     \* hookly:rl:cnt:{endpoint}:{minute}
    failures,  \* history: the failures of the last Window since the last reset, each with its time and a number
    granted    \* history: slots of the present minute that were given out in it

guards == <<now, blocked, open, fails, slots, failures, granted>>

MinuteOf(t) == t \div Minute
Minutes == 0 .. MinuteOf(MaxTime)
Counters == [count: Nat, expires: Nat]
NoCounter == [count |-> 0, expires |-> 0]

GuardsTypeOK ==
    /\ now \in 1..MaxTime
    /\ blocked \in [EndpointIds -> Nat]
    /\ open \in [EndpointIds -> Nat]
    /\ fails \in [EndpointIds -> Counters]
    /\ slots \in [EndpointIds -> [Minutes -> Counters]]
    /\ failures \in [EndpointIds -> SUBSET (Nat \X Nat)]
    /\ granted \in [EndpointIds -> Nat]

GuardsInit ==
    /\ now = 1
    /\ blocked = [e \in EndpointIds |-> 0]
    /\ open = [e \in EndpointIds |-> 0]
    /\ fails = [e \in EndpointIds |-> NoCounter]
    /\ slots = [e \in EndpointIds |-> [m \in Minutes |-> NoCounter]]
    /\ failures = [e \in EndpointIds |-> {}]
    /\ granted = [e \in EndpointIds |-> 0]

\* What INCR finds: an expired key counts from nothing.
Value(k) == IF k.expires > now THEN k.count ELSE 0

\* Broken variant: the EXPIRE is missing.
IncrForever(k, ttl) == [count |-> k.count + 1, expires |-> MaxTime + 1]

\* INCR, and EXPIRE if that made it 1.
Incr(k, ttl) ==
    IF Value(k) = 0 THEN [count |-> 1, expires |-> now + ttl] ELSE [k EXCEPT !.count = @ + 1]

IsBlocked(e) == blocked[e] > now
IsOpen(e) == open[e] > now

\* Broken variant: compares the counter before it is incremented.
AllowedOneMore(e, m, limit) == Value(slots[e][m]) <= limit

\* try_acquire lets the call through: the counter does not pass the limit.
Allowed(e, m, limit) == Value(slots[e][m]) + 1 <= limit

\* try_acquire of a slot in minute m; a refusal rolls the increment back.
TakeSlot(e, m) ==
    /\ slots' = [slots EXCEPT ![e][m] = Incr(@, SlotTtl)]
    /\ granted' = IF m = MinuteOf(now) THEN [granted EXCEPT ![e] = @ + 1] ELSE granted
    /\ UNCHANGED <<now, blocked, open, fails, failures>>

\* set_blocked; SET refuses a TTL of 0, and the refusal is ignored.
SetBlocked(e, ttl) ==
    /\ blocked' = IF ttl = 0 THEN blocked ELSE [blocked EXCEPT ![e] = now + ttl]
    /\ UNCHANGED <<now, open, fails, slots, failures, granted>>

\* record_failure; the circuit is to be opened if the count reached the threshold.
RecordFailure(e) ==
    /\ fails' = [fails EXCEPT ![e] = Incr(@, Window)]
    /\ failures' = [failures EXCEPT ![e] = @ \cup {<<now, Cardinality(@)>>}]
    /\ UNCHANGED <<now, blocked, open, slots, granted>>

OpenCircuit(e) ==
    /\ open' = [open EXCEPT ![e] = now + Cooldown]
    /\ UNCHANGED <<now, blocked, fails, slots, failures, granted>>

\* reset: DEL of both keys of the breaker.
Reset(e) ==
    /\ open' = [open EXCEPT ![e] = 0]
    /\ fails' = [fails EXCEPT ![e] = NoCounter]
    /\ failures' = [failures EXCEPT ![e] = {}]
    /\ UNCHANGED <<now, blocked, slots, granted>>

Tick ==
    /\ now < MaxTime
    /\ now' = now + 1
    /\ failures' = [e \in EndpointIds |-> {f \in failures[e] : f[1] + Window > now'}]
    /\ granted' = IF MinuteOf(now') = MinuteOf(now) THEN granted ELSE [e \in EndpointIds |-> 0]
    /\ UNCHANGED <<blocked, open, fails, slots>>
=============================================================================
