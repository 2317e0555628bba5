---------------------------- MODULE MCSpeculation ----------------------------
(* Instances of Speculation: two models over two tokens that agree on some      *)
(* sequences only; the target with n-grams or with its draft head.              *)
EXTENDS Speculation, FiniteSets

MCTokens == {0, 1}
Ones(s) == Cardinality({i \in DOMAIN s : s[i] = 1})
MCPredict(s) == IF s = <<>> THEN 0 ELSE (Ones(s) + (Len(s) \div 2)) % 2
MCDraftPredict(s) == IF s = <<>> THEN 0 ELSE IF Ones(s) % 3 = 1 THEN 1 ELSE MCPredict(s)

Dense == [recurrent |-> FALSE, keepsRows |-> FALSE, mtp |-> FALSE, maxLen |-> 6]
Rows == [recurrent |-> TRUE, keepsRows |-> TRUE, mtp |-> FALSE, maxLen |-> 6]
Replays == [recurrent |-> TRUE, keepsRows |-> FALSE, mtp |-> FALSE, maxLen |-> 6]
DraftHead == [Rows EXCEPT !.mtp = TRUE, !.maxLen = 5]
Targets == {Rows, DraftHead}
DenseOrReplays == {Dense, Replays}
=============================================================================
