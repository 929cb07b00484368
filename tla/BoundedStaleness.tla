-------------------------- MODULE BoundedStaleness --------------------------
(***************************************************************************)
(* What a caching authenticator promises.  Credentials hold or do not      *)
(* hold, as the database has it; questions are answered from memory, but   *)
(* never from further back than Window:                                    *)
(*                                                                         *)
(*   yes  only if the credential held at some time in the last Window      *)
(*   no   only if it did not hold, or its terms changed, at some time in   *)
(*        the last Window                                                  *)
(*                                                                         *)
(* The answer is visible in the step that gives it and cleared by the next *)
(* step of any other kind.                                                 *)
(***************************************************************************)
EXTENDS Naturals

CONSTANTS Cred, Window, NoAnswer

VARIABLES
    clock,
    holds,      \* does the credential hold now?
    held,       \* when it last held
    unsettled,  \* when it last did not hold or was changed
    answer

bvars == <<clock, holds, held, unsettled, answer>>

Init ==
    /\ clock \in Nat
    /\ holds = [c \in Cred |-> FALSE]
    /\ held = [c \in Cred |-> 0]
    /\ unsettled = [c \in Cred |-> clock]
    /\ answer = NoAnswer

\* Time passes, or credentials are created, changed and revoked, or nothing
\* of the sort happens.
World ==
    /\ clock' \in {clock, clock + 1}
    /\ holds' \in [Cred -> BOOLEAN]
    /\ held' = [c \in Cred |-> IF holds'[c] THEN clock' ELSE held[c]]
    /\ \E changed \in SUBSET Cred :
         unsettled' = [c \in Cred |-> IF holds'[c] /\ c \notin changed THEN unsettled[c] ELSE clock']

Silent == World /\ answer' = NoAnswer

Yes(c) == clock <= held[c] + Window
No(c) == clock <= unsettled[c] + Window

Answer(c, ok) ==
    /\ IF ok THEN Yes(c) ELSE No(c)
    /\ answer' = [cred |-> c, ok |-> ok]
    /\ UNCHANGED <<clock, holds, held, unsettled>>

Next == Silent \/ \E c \in Cred, ok \in BOOLEAN : Answer(c, ok)

Spec == Init /\ [][Next]_bvars
=============================================================================
