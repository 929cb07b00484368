---------------------------- MODULE MCApiKeyAuth ----------------------------
(* An instance of ApiKeyAuth for TLC.                                      *)
EXTENDS ApiKeyAuth, TLC

CONSTANTS o1, t1, t2, u1, u2, k1, k2, k3, a1, a2, q1, q2

OneOrg == [t \in Tenants |-> o1]
OneTenant == [k \in Keys |-> t1]
TwoUsers == [k \in Keys |-> IF k = k1 THEN u1 ELSE u2]
\* A limit of one key, and keys that live for one tick and can be viewed.
TwoPolicies ==
    {[stored |-> TRUE, max |-> 1, view |-> FALSE, ttl |-> 0], [stored |-> TRUE, max |-> 0, view |-> TRUE, ttl |-> 1]}

Allow(account, create, change, setting, lookup, tick) ==
    [x \in Kinds |-> CASE x = "account" -> account [] x = "create" -> create [] x = "change" -> change
                       [] x = "settings" -> setting [] x = "lookup" -> lookup [] x = "tick" -> tick]
\* Revocations racing with lookups; requests to the API of keys racing with
\* each other.
Four == {Allow(2, 0, 0, 0, 1, 3), Allow(1, 0, 1, 0, 2, 3), Allow(0, 2, 1, 1, 0, 1), Allow(0, 0, 2, 0, 0, 0)}

Symmetry == Permutations(Admins) \cup Permutations(Requests) \cup Permutations({k2, k3})
=============================================================================
