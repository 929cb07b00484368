----------------------------- MODULE MCInvites -----------------------------
(* An instance of Invites for TLC.                                         *)
EXTENDS Invites, TLC

Symmetry == Permutations(Invites) \cup Permutations(Emails) \cup Permutations(Calls)
=============================================================================
