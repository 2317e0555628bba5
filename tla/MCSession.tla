------------------------------ MODULE MCSession ------------------------------
(* Instances of Session for TLC: a vocabulary of two tokens, and a model whose *)
(* next token depends on the whole sequence, so that drafts are accepted in    *)
(* full, in part and not at all.  Each model, here a family and a context      *)
(* size, is given the calls that matter to it and bounds of its own.           *)
EXTENDS Session, FiniteSets

MCTokens == {0, 1}
MCPredict(s) ==
    LET ones == Cardinality({i \in DOMAIN s : s[i] = 1}) IN
    IF s = <<>> THEN 0 ELSE (ones + (Len(s) \div 2)) % 2

Dense(n)   == [recurrent |-> FALSE, keepsRows |-> FALSE, mtp |-> FALSE, maxLen |-> n]
Rows(n)    == [recurrent |-> TRUE, keepsRows |-> TRUE, mtp |-> FALSE, maxLen |-> n]
Replays(n) == [recurrent |-> TRUE, keepsRows |-> FALSE, mtp |-> FALSE, maxLen |-> n]
MCModels == {Dense(3), Dense(4), Rows(2), Rows(3), Rows(4), Replays(3), Replays(4)}

Bursts == {"prefill", "decode", "verify"}
Images == {"snapshot", "restore"}
Rewinds == {"truncate", "checkpoint"}
Limits(c, p, g, f) == [calls |-> c, prompt |-> p, guesses |-> g, faults |-> f]
DenseBounds(n) ==   \* images and failures; prompts of two sub-batches and cancels
    IF n = 3 THEN Limits(Bursts \cup Images \cup {"pin", "reset"}, 2, 1, 1)
             ELSE Limits({"prefill", "pin", "decode", "truncate", "reset", "cancel"}, 4, 1, 0)
RowsBounds(n) ==    \* failing rewinds; rewinds among bursts; failing bursts
    CASE n = 2 -> Limits(Rewinds \cup {"prefill", "decode"}, 1, 1, 1)
      [] n = 3 -> Limits(Rewinds \cup Bursts \cup {"reset"}, 1, 1, 0)
      [] n = 4 -> Limits(Bursts \cup {"reset", "cancel"}, 1, 2, 1)
ReplaysBounds(n) == \* failing images and replays; failing bursts and cancels
    IF n = 3 THEN Limits(Bursts \cup Images \cup {"cancel"}, 2, 1, 1)
             ELSE Limits(Bursts \cup {"cancel"}, 1, 2, 1)
MCBounds(s) == CASE ~s.recurrent -> DenseBounds(s.maxLen)
                 [] s.recurrent /\ s.keepsRows -> RowsBounds(s.maxLen)
                 [] s.recurrent /\ ~s.keepsRows -> ReplaysBounds(s.maxLen)
=============================================================================
