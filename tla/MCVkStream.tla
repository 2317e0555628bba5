----------------------------- MODULE MCVkStream -----------------------------
EXTENDS VkStream

CONSTANTS a, b, p, q, r

MCTensors == {a, b}
MCWeights == {p, q, r}
MCCells   == {a, b, <<"x", 0>>, <<"w", 0>>, <<"w", 1>>, <<"s", 1>>}
\* Activations in host memory, and in the BAR window.
MCKernels == {}
MCLinears == {[x |-> a, y |-> b, staged |-> TRUE], [x |-> b, y |-> a, staged |-> FALSE]}
MCSize(w) == IF w = r THEN 2 ELSE 1

\* A chunk that streamed p, q, r has just been waited for: p was in slot 0 before r
\* needed a larger one, and the order is learned.
AfterChunk ==
    /\ SequenceInit
    /\ prog = [c \in Cells |-> CASE c = <<"w", 0>> -> r [] c = <<"w", 1>> -> q [] OTHER -> 0]
    /\ mem = prog /\ gpu = <<>> /\ xfer = <<>> /\ event = FALSE
    /\ tl = [copy |-> 3, comp |-> 3] /\ tlVal = tl
    /\ stream = [on |-> TRUE, off |-> FALSE, next |-> 1, reader |-> -1, prev |-> r]
    /\ slot = (0 :> [size |-> 2, src |-> r, ready |-> 3, free |-> 3]
               @@ 1 :> [size |-> 1, src |-> q, ready |-> 2, free |-> 2])
    /\ follows = (p :> q @@ q :> r @@ r :> NoWeight)
    /\ stage = [ready |-> 0, free |-> 0, unwaited |-> FALSE, of |-> [w \in Weights |-> 0],
                split |-> FALSE]

MCInit == StreamInit \/ AfterChunk
MCSpec == MCInit /\ [][StreamNext]_allVars
MCFairSpec ==
    /\ MCSpec
    /\ WF_allVars(HostRuns) /\ WF_allVars(ComputeRuns) /\ WF_allVars(CopiesRun)
=============================================================================
