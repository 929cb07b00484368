----------------------------- MODULE MCJwtKeys -----------------------------
(* An instance of JwtKeys for TLC.                                         *)
EXTENDS JwtKeys, TLC

CONSTANTS o1, t1, j1, j2, j3, r1, r2, v1, v2

OneOrg == [t \in Tenants |-> o1]
OneTenant == [j \in Keys |-> t1]

Allow(account, key, rotate, lookup, fault, tick) ==
    [x \in Operations |-> CASE x = "account" -> account [] x = "key" -> key [] x = "rotate" -> rotate
                            [] x = "lookup" -> lookup [] x = "fault" -> fault [] x = "tick" -> tick]
\* Revocations racing with lookups; rotations racing with each other, with
\* the task and with requests for the same key.
Four == {Allow(1, 1, 0, 2, 0, 3), Allow(0, 2, 0, 2, 0, 2), Allow(0, 2, 1, 0, 1, 6), Allow(0, 1, 2, 0, 1, 5)}

Symmetry == Permutations(Keys) \cup Permutations(Rotators) \cup Permutations(Verifiers)
=============================================================================
