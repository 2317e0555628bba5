---------------------------- MODULE MCVkSequence ----------------------------
EXTENDS VkSequence

CONSTANTS a, b

MCTensors == {a, b}
MCCells   == {a, b, <<"x", 0>>, <<"u", 0>>}
\* A kernel from one tensor to the other, and one in place.
MCKernels == {[in |-> {a}, out |-> {b}], [in |-> {b}, out |-> {b}]}
=============================================================================
