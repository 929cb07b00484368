----------------------------- MODULE MCDispatch -----------------------------
(* An instance of Dispatch for TLC.                                        *)
EXTENDS Dispatch, TLC

CONSTANTS s1, e1

Nothing == [s \in StreamNames |-> <<>>]
\* n entries for one endpoint in one stream.
Holding(n) == [Nothing EXCEPT ![s1] = [i \in 1..n |-> e1]]
OneEach == [s \in StreamNames |-> <<e1>>]

Allow(backlog, budget) == [backlog |-> backlog, budget |-> budget @@ [x \in Events |-> 0]]

\* The breaker, the rate limit, a 429 and failing calls; streams that take
\* turns, registered while workers drop them or again after that, and trimmed.
Nine ==
    {Allow(Holding(4), [claim |-> 1, deliver |-> 4, broken |-> 3, tick |-> 2]),
     Allow(Holding(3), [claim |-> 1, deliver |-> 3, slot |-> 3, tick |-> 2]),
     Allow(Holding(3), [claim |-> 1, deliver |-> 3, busy |-> 2, tick |-> 1]),
     Allow(Holding(3), [claim |-> 1, deliver |-> 2, slot |-> 1, broken |-> 2, fault |-> 1, stop |-> 1]),
     Allow(OneEach, [claim |-> 3, publish |-> 1, tick |-> 2]),
     Allow(Nothing, [claim |-> 3, publish |-> 2, start |-> 1, fault |-> 1, stop |-> 1]),
     Allow(Nothing, [claim |-> 2, start |-> 3, tick |-> 1]),
     Allow(Holding(2), [claim |-> 2, publish |-> 1, trim |-> 1]),
     Allow(Holding(3), [claim |-> 1, deliver |-> 4, busy |-> 1, reclaim |-> 1])}

Symmetry == Permutations(Permits) \cup Permutations(Workers) \cup Permutations(Registrants)
=============================================================================
