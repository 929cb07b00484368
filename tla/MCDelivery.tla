------------------------------ MODULE MCDelivery ------------------------------
(* Instances of Delivery for TLC: values for its constants.                *)
EXTENDS Delivery, TLC

CONSTANTS j1, j2, c1, o1, t1, t2

Symmetry == Permutations({t1, t2})

\* Up to n of the events K, each at most once.
UpTo(n, K) == [k \in Kinds |-> IF k = "any" THEN n ELSE IF k \in K THEN 1 ELSE 0]
Faults == UpTo(1, Kinds)
Mixed == UpTo(2, {"crash", "redis", "defer", "retry"})
Trims == UpTo(2, {"trim", "endpoint", "loss"})
=============================================================================
