----------------------------- MODULE MCKiviCache -----------------------------
(* Instances of KiviCache for TLC. *)
EXTENDS KiviCache, TLC

CONSTANTS a, b
TwoTokens == {a, b}
\* Failures over a context of four.
MCContexts == {4, 5}
MCFaults == [n \in MCContexts |-> IF n = 4 THEN 1 ELSE 0]
TokenSymmetry == Permutations(TwoTokens)
=============================================================================
