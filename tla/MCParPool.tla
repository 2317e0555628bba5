------------------------------ MODULE MCParPool ------------------------------
(* Instances of ParPool for TLC. *)
EXTENDS ParPool

CONSTANTS c1, c2

TwoCallers == {c1, c2}

\* A static body that calls geist_par_for itself, and a pull body.
TwoForms == {[dyn |-> FALSE, nest |-> TRUE], [dyn |-> TRUE, nest |-> FALSE]}

\* Fewer items than workers, and a number no team divides.
UnevenSizes == {1, 4}
=============================================================================
