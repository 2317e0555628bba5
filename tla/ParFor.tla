------------------------------- MODULE ParFor -------------------------------
(***************************************************************************)
(* What src/base/par.h promises of geist_par_for: the items [0, n) of a     *)
(* call are handed to fn, each exactly once, in an order and on threads the *)
(* caller does not learn, and the call returns when all of them have run.   *)
(* Calls of different threads do not disturb one another.                   *)
(***************************************************************************)
EXTENDS Naturals

CONSTANTS Callers,    \* the threads that call geist_par_for
          Sizes       \* the item counts a call is made with

VARIABLES active,     \* active[c]: thread c is inside a call
          todo        \* todo[c]: items of c's call that fn has not taken yet

vars == <<active, todo>>

Init == /\ active = [c \in Callers |-> FALSE]
        /\ todo = [c \in Callers |-> {}]

Call(c) == /\ ~active[c]
           /\ active' = [active EXCEPT ![c] = TRUE]
           /\ \E n \in Sizes : todo' = [todo EXCEPT ![c] = 0 .. n - 1]

\* Some thread runs a set of items nobody ran before.
Run(c) == /\ active[c]
          /\ \E S \in SUBSET todo[c] : todo' = [todo EXCEPT ![c] = @ \ S]
          /\ UNCHANGED active

Return(c) == /\ active[c]
             /\ todo[c] = {}
             /\ active' = [active EXCEPT ![c] = FALSE]
             /\ UNCHANGED todo

Next == \E c \in Callers : Call(c) \/ Run(c) \/ Return(c)

Spec == Init /\ [][Next]_vars
=============================================================================
