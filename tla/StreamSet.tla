------------------------------ MODULE StreamSet ------------------------------
(***************************************************************************)
(* hookly:q:streams, the sorted set by which workers choose the stream to  *)
(* read next: a function from its members to their scores, the time of the *)
(* last claim or 0.  Each operator is one command or one Lua script.       *)
(***************************************************************************)
EXTENDS Naturals, Functions

IsSortedSet(z, S) == DOMAIN z \subseteq S /\ z \in [DOMAIN z -> Nat]

\* Broken variant: ZADD without NX.
RegisterAgain(z, s) == [m \in DOMAIN z \cup {s} |-> IF m = s THEN 0 ELSE z[m]]

\* register_stream: ZADD NX 0.
Register(z, s) == [m \in DOMAIN z \cup {s} |-> IF m \in DOMAIN z THEN z[m] ELSE 0]

\* claim_next_stream: a member with the lowest score (Redis breaks ties by
\* name) is given the score `at`.
Lowest(z) == {s \in DOMAIN z : \A m \in DOMAIN z : z[s] <= z[m]}
Claim(z, s, at) == [z EXCEPT ![s] = at]

\* ZREM.
Remove(z, s) == Restrict(z, DOMAIN z \ {s})
=============================================================================
