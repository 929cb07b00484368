----------------------------- MODULE MCPlatform -----------------------------
(* An instance of Platform for TLC.                                        *)
EXTENDS Platform, TLC

CONSTANTS t1, t2, t3, unknown

Some == {{}, {t1}, {t1, t2}, {t2, t3, unknown}}

Allow(create, manage, subscribe, replace, fault) ==
    [x \in Operations |-> CASE x = "create" -> create [] x = "manage" -> manage [] x = "subscribe" -> subscribe
                            [] x = "replace" -> replace [] x = "fault" -> fault]
Two == {Allow(5, 2, 0, 0, 1), Allow(0, 0, 3, 3, 1)}

Symmetry == Permutations(Webhooks)
=============================================================================
