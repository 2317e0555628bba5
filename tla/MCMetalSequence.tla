--------------------------- MODULE MCMetalSequence ---------------------------
(* Instances of MetalSequence for TLC. *)
EXTENDS MetalSequence

CONSTANTS s1, s2

TwoSessions == {s1, s2}
TwoTensors == {1, 2}

\* One long pass beside a short one.
LongAndShort == [t \in TwoSessions |-> IF t = s1 THEN 4 ELSE 2]

\* Every creation but the one after a flush, which leaks the lock.
ButReopening == Creations \ {"reopen"}
Reopening == {"reopen"}
=============================================================================
