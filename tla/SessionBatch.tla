----------------------------- MODULE SessionBatch -----------------------------
(***************************************************************************)
(* geist_session_decode_batch: one decode step of several sessions of a      *)
(* model in one pass (engine/session.c, archs/transformer/arch.c and         *)
(* forward/step.c).  The sessions are those of SessionOps, each driven by    *)
(* its own calls in between, and cancelled from another thread.              *)
(*                                                                           *)
(* A pass writes a row of every session's cache at every layer; where one of *)
(* its operations fails, each session has its row and its recurrent step or  *)
(* not, and those sampled before the failure have advanced.  The refusals of *)
(* sessions of another model, with the KIVI cache or MTP, or offloaded, are  *)
(* left out: they depend on how a session was made.                          *)
(***************************************************************************)
EXTENDS SessionOps

CONSTANTS Members,    \* the sessions, all on one model
          BatchMax,   \* geist_model_decode_batch_max
          MaxPrompt,  \* bound: tokens of one prefill
          MaxGuesses, \* bound: guesses handed to one verify_drafts
          MaxFaults,  \* bound: failing passes
          MaxCalls    \* bound: calls, cancels included

ASSUME BatchConstants ==
    /\ BatchMax \in Nat /\ BatchMax > 1
    /\ \A m \in Models : m.maxLen <= MMax    \* a prefill is one sub-batch; Session splits it

VARIABLES sess,   \* the members' sessions
          out,    \* what the last call returned, to whom, and the batch it was (<<>>: none)
          faults, \* failed passes so far
          calls   \* calls so far

vars == <<sess, out, faults, calls>>

Nothing == [m \in Members |-> <<>>]
Batches == UNION {[1 .. n -> Members] : n \in 2 .. BatchMax + 1}
Prompts(n) == UNION {[1 .. k -> Tokens] : k \in 1 .. n}
Distinct(q) == \A i, j \in DOMAIN q : q[i] = q[j] => i = j
In(q) == {q[i] : i \in DOMAIN q}

Init == /\ \E m \in Models : sess = [b \in Members |-> NewSession(m)]
        /\ out = [st |-> "OK", toks |-> Nothing, batch |-> <<>>]
        /\ faults = 0
        /\ calls = 0

-----------------------------------------------------------------------------
(* The calls of one session *)

Call(m, outs) ==
    \E o \in outs :
        /\ sess' = [sess EXCEPT ![m] = o.s]
        /\ out' = [st |-> o.st, toks |-> [Nothing EXCEPT ![m] = o.toks], batch |-> <<>>]
        /\ UNCHANGED faults

Prefill(m) ==
    \E ids \in Prompts(MaxPrompt) :
        Call(m, Then(Settle(sess[m], FALSE), LAMBDA s : PrefillOnce(s, ids, FALSE)))

\* Callers pin in an empty session, or unpin; Session has the pins that empty it first.
PinPrefix(m) ==
    \E ids \in {<<>>} \cup IF Text(sess[m]) = <<>> THEN Prompts(1) ELSE {} :
        LET empty(s) == Reset([s EXCEPT !.prefixLength = 0])
            kept(s) == {Ok([s EXCEPT !.prefixLength = s.kvLen])}
            pin(s) == IF ids = <<>> THEN {Ok(empty(s))}
                      ELSE IF s.recurrent THEN Refused(s, "UNSUPPORTED")
                      ELSE Then(PrefillOnce(empty(s), ids, FALSE), kept)
        IN  Call(m, Then(Settle(sess[m], FALSE), pin))

Decode(m) == Call(m, DecodeStep(sess[m], FALSE))
Verify(m) == \E guesses \in Prompts(MaxGuesses) : Call(m, VerifyDrafts(sess[m], guesses, FALSE))
ResetSession(m) == Call(m, {Ok(Reset(sess[m]))})

Cancel(m) == /\ ~sess[m].cancel
             /\ sess' = [sess EXCEPT ![m].cancel = TRUE]
             /\ UNCHANGED <<out, faults>>

-----------------------------------------------------------------------------
(* The batch *)

\* Mutant: the owed row is not counted.
MemberRefusalOne(s) ==
    IF ~s.logitsValid THEN "INVALID_STATE"
    ELSE IF ~RoomFor(s, 1) THEN "TOO_MANY_TOKENS"
    ELSE "OK"

\* batch_member_ok: the owed forward appends a row, and the returned token owes one.
MemberRefusal(s) ==
    IF ~s.logitsValid THEN "INVALID_STATE"
    ELSE IF ~RoomFor(s, IF s.deferred THEN 2 ELSE 1) THEN "TOO_MANY_TOKENS"
    ELSE "OK"

\* Why member i of batch q is refused, those before it being fit.
Refusal(q, i) ==
    IF \E j \in 1 .. i - 1 : q[j] = q[i] THEN "INVALID_ARG" ELSE MemberRefusal(sess[q[i]])
FirstUnfit(q) ==
    {i \in DOMAIN q : Refusal(q, i) # "OK" /\ \A j \in 1 .. i - 1 : Refusal(q, j) = "OK"}
FirstCancelled(q) ==
    {i \in DOMAIN q : sess[q[i]].cancel /\ \A j \in 1 .. i - 1 : ~sess[q[j]].cancel}

Refuse(q, st) == /\ out' = [st |-> st, toks |-> Nothing, batch |-> q]
                 /\ UNCHANGED faults

BatchTooLarge(q) ==
    /\ Len(q) > BatchMax
    /\ Refuse(q, "UNSUPPORTED")
    /\ UNCHANGED sess

BatchCancelled(q) ==
    /\ Len(q) <= BatchMax
    /\ \E i \in FirstCancelled(q) : sess' = [sess EXCEPT ![q[i]].cancel = FALSE]
    /\ Refuse(q, "CANCELLED")

BatchUnfit(q) ==
    /\ Len(q) <= BatchMax /\ FirstCancelled(q) = {}
    /\ \E i \in FirstUnfit(q) : Refuse(q, Refusal(q, i))
    /\ UNCHANGED sess

\* transformer_decode_batch_forward over the sessions of Q: each consumes its
\* pending token and predicts the next one.
Consumed(s) == [Forwarded(Commit(s), <<PendingToken(s)>>) EXCEPT !.kvLen = @ + 1]
Pass(ss, Q) == [m \in Members |-> IF m \in Q THEN Finalized(Consumed(ss[m])) ELSE ss[m]]

\* Mutant: with one forward owed, every member's runs.
OwingAll(q) == IF \E m \in In(q) : sess[m].deferred THEN In(q) ELSE {}
Owing(q) == {m \in In(q) : sess[m].deferred}

\* The forwards owed run first.
SettleBatch(q) ==
    [m \in Members |-> [Pass(sess, Owing(q))[m] EXCEPT
                          !.deferred = IF m \in Owing(q) THEN FALSE ELSE @]]

Runs(q) == Len(q) <= BatchMax /\ FirstCancelled(q) = {} /\ FirstUnfit(q) = {}

\* Each token, and its forward run now, not owed.
BatchDecode(q) ==
    /\ Runs(q)
    /\ LET settled == SettleBatch(q) IN
       /\ sess' = Pass(settled, In(q))
       /\ out' = [st |-> "OK", batch |-> q,
                  toks |-> [m \in Members |->
                              IF m \in In(q) THEN <<PendingToken(settled[m])>> ELSE <<>>]]
    /\ UNCHANGED faults

\* What a failing pass over Q may leave of session s.
Wrecks(s) == {s, Finalized(Consumed(s))} \cup Broken(Commit(s), <<PendingToken(s)>>)

ResetMembers(q, ss) == [m \in Members |-> IF m \in In(q) THEN Reset(ss[m]) ELSE ss[m]]

BatchFails(q) ==
    /\ Runs(q) /\ faults < MaxFaults
    /\ \E first \in {TRUE, FALSE} :
         LET Q == IF first THEN Owing(q) ELSE In(q)
             before == IF first THEN sess ELSE SettleBatch(q)
         IN  /\ Q # {}
             /\ \E wrecked \in [Q -> UNION {Wrecks(before[m]) : m \in Q}] :
                  /\ \A m \in Q : wrecked[m] \in Wrecks(before[m])
                  /\ sess' = ResetMembers(q, [m \in Members |->
                                IF m \in Q THEN wrecked[m] ELSE before[m]])
    /\ out' = [st |-> "BACKEND", toks |-> Nothing, batch |-> q]
    /\ faults' = faults + 1

DecodeBatch == \E q \in Batches : \/ BatchTooLarge(q) \/ BatchCancelled(q) \/ BatchUnfit(q)
                                  \/ BatchDecode(q) \/ BatchFails(q)

Next == /\ calls < MaxCalls /\ calls' = calls + 1
        /\ \/ DecodeBatch
           \/ \E m \in Members : \/ Prefill(m) \/ PinPrefix(m) \/ Decode(m) \/ Verify(m)
                                 \/ ResetSession(m) \/ Cancel(m)

Spec == Init /\ [][Next]_vars

-----------------------------------------------------------------------------
(* Properties *)

Contract(m) == INSTANCE Conversation WITH
    text <- Text(sess[m]),
    pinned <- SubSeq(sess[m].rows, 1, sess[m].prefixLength),
    ready <- sess[m].logitsValid,
    said <- IF out.st = "OK" THEN out.toks[m] ELSE <<>>,
    image <- [taken |-> FALSE, text |-> <<>>, pinned |-> <<>>, ready |-> FALSE]

\* geist_util.h, isolation: whoever shares its batches and whatever fails in them,
\* every session is a Conversation of its own; a failed pass is a reset to it.
EachIsAConversation ==
    /\ \A m \in Members : Contract(m)!Init
    /\ [][\A m \in Members : [Contract(m)!Next]_(Contract(m)!vars)]_vars

\* A batch of distinct sessions is the decode_steps of its members: it runs iff each of
\* them would return a token, with the same tokens and, once what those owe is settled,
\* the same sessions.  A refused one changes nothing but the request it reports,
\* and a failed one leaves members as fresh as a reset, the half-run recurrences too.
Settled(o) == {p.s : p \in Settle(o.s, FALSE)}
BatchIsAllOrNothing ==
    [][(out'.batch # <<>> /\ out' # out) =>
         LET q == out'.batch
             Step(m) == CHOOSE o \in DecodeStep(sess[m], FALSE) : TRUE
             steps == \A m \in In(q) : Step(m).st = "OK"
         IN  CASE out'.st = "OK" ->
                    /\ Distinct(q) /\ steps
                    /\ \A m \in In(q) : /\ out'.toks[m] = Step(m).toks
                                        /\ {sess'[m]} = Settled(Step(m))
               [] out'.st = "BACKEND" ->
                    \A m \in In(q) : /\ Text(sess'[m]) = SubSeq(sess[m].rows, 1, sess[m].prefixLength)
                                     /\ sess'[m].recurrent => sess'[m].rec = Content(sess'[m])
                                     /\ ~sess'[m].logitsValid
               [] OTHER ->
                    /\ ~Distinct(q) \/ ~steps \/ Len(q) > BatchMax
                    /\ \A m \in Members : sess'[m] = [sess[m] EXCEPT !.cancel = sess'[m].cancel]
                    /\ \A m, k \in Members : (sess'[m] # sess[m] /\ sess'[k] # sess[k]) => m = k]_vars
=============================================================================
