------------------------------ MODULE MCScheduler ------------------------------
(* Instances of Scheduler for TLC: values for its constants.               *)
EXTENDS Scheduler, TLC

CONSTANTS s1, s2, h1, h2, c1, c2, w1, w2, i1

OneInstance == [w \in Workers |-> i1]

Symmetry == Permutations(Callers)

\* c API calls, and up to n of the faults K, each at most once.
UpTo(c, n, K) == [k \in Events |-> IF k = "call" THEN c ELSE IF k = "any" THEN n ELSE IF k \in K THEN 1 ELSE 0]
CallAndFault == UpTo(1, 1, Events)
TwoCallsAndFault == UpTo(2, 1, {"routing"})
OneCall == UpTo(1, 0, {})
Fired == {"pending", "running", "success", "partial_failure", "failure", "fired"}
=============================================================================
