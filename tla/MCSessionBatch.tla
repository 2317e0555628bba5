---------------------------- MODULE MCSessionBatch ----------------------------
(* Instances of SessionBatch for TLC. *)
EXTENDS SessionBatch, FiniteSets, TLC

CONSTANTS anna, bert

MCMembers == {anna, bert}
Swap == Permutations(MCMembers)
MCTokens == {0, 1}
MCPredict(s) ==
    LET ones == Cardinality({i \in DOMAIN s : s[i] = 1}) IN
    IF s = <<>> THEN 0 ELSE (ones + (Len(s) \div 2)) % 2

\* Qwen3.5 is a hybrid, Qwen3-MoE has no recurrence.
MCModels == {[recurrent |-> TRUE, keepsRows |-> TRUE, mtp |-> FALSE, maxLen |-> 3],
             [recurrent |-> FALSE, keepsRows |-> TRUE, mtp |-> FALSE, maxLen |-> 3]}
=============================================================================
