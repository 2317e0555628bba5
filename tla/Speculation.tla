----------------------------- MODULE Speculation -----------------------------
(***************************************************************************)
(* geist_session_decode_speculative (engine/session.c): a target session     *)
(* verifies the guesses of a draft session (geist_session_set_draft), of its  *)
(* model's own draft head (forward/mtp.c) or of the n-gram drafter.  Both     *)
(* sessions are those of SessionOps.  The caller keeps `history`, the tokens  *)
(* it has prefilled and been handed, and passes it with every call; the draft *)
(* is brought level with it at the next call.                                 *)
(*                                                                           *)
(* A call runs to its end before the next one; only geist_session_cancel,    *)
(* of the target, comes from another thread.                                 *)
(***************************************************************************)
EXTENDS SessionOps

CONSTANTS DraftPredict(_),  \* the draft model's, or head's, greedy next token
          DraftModels,      \* what the draft session may be made on
          MaxSuffix,        \* max_suffix of propose_drafts_ngram
          MinMatch,         \* GEIST_SPEC_MIN_L
          KMax,             \* bound: the largest k_max a caller asks for
          MaxPrompt,        \* bound: tokens of one prefill
          MaxTurns,         \* bound: prefills
          MaxFaults         \* bound: calls in which an operation of the draft fails

\* A prefill is one sub-batch here; Session splits it.  Of the draft models the
\* same is assumed as of the others.
ASSUME SpeculationConstants ==
    /\ \A m \in Models \cup DraftModels : m.maxLen <= MMax
    /\ KMax \in 1 .. MMax /\ MinMatch >= 1 /\ MaxSuffix \in Nat
    /\ DraftModels \subseteq [recurrent : BOOLEAN, keepsRows : BOOLEAN,
                              mtp : BOOLEAN, maxLen : Nat]
    /\ \A m \in DraftModels : m.mtp => m.recurrent
    /\ \A m \in Models \cup DraftModels : \A n \in 0 .. m.maxLen :
          \A t \in [1 .. n -> Tokens] : DraftPredict(t) \in Tokens

D == INSTANCE SessionOps WITH Predict <- DraftPredict, Models <- DraftModels

VARIABLES sess,      \* the target
          draft,     \* the draft model's session
          attached,  \* set_draft
          history,   \* the caller's
          out,       \* what the last call returned, and its k_max if it drafted
          faults,    \* backend failures of the draft so far; Session has the target's
          clean,     \* no speculative call has failed or stranded the draft
          turns      \* prefills so far

vars == <<sess, draft, attached, history, out, faults, clean, turns>>

Init == /\ sess \in {NewSession(m) : m \in Models}
        /\ draft \in {NewSession(m) : m \in DraftModels}
        /\ attached \in BOOLEAN
        /\ history = <<>>
        /\ out = [st |-> "OK", toks |-> <<>>, k |-> 0]
        /\ faults = 0
        /\ clean = TRUE
        /\ turns = 0

CanFail == faults < MaxFaults

\* Op(s) on every successful outcome; tokens and failures add up.
Chain(outs, Op(_)) ==
    UNION {IF o.st = "OK"
           THEN {[r EXCEPT !.toks = o.toks \o @, !.faults = @ + o.faults] : r \in Op(o.s)}
           ELSE {o} : o \in outs}

\* geist_session_prefill_tokens, of the target and of the draft.
Feed(s, ids) == Chain(Settle(s, FALSE), LAMBDA t : PrefillOnce(t, ids, FALSE))
FeedDraft(d, ids, canFail) ==
    IF ids = <<>> THEN {Ok(d)}
    ELSE Chain(D!Settle(d, canFail), LAMBDA e : D!PrefillOnce(e, ids, canFail))

-----------------------------------------------------------------------------
(* The drafters *)

From(h, n) == SubSeq(h, n + 1, Len(h))

\* Ahead of the history: back to it, or start over.
NotAhead(d, h, canFail) ==
    IF Len(D!Text(d)) <= Len(h) THEN {Ok(d)}
    ELSE {IF o.st = "OK" THEN o ELSE [Ok(D!Reset(o.s)) EXCEPT !.faults = o.faults]
          : o \in D!Truncate(d, Len(h), canFail)}

\* The draft brought level with the history, and one guess more of it.
LevelWith(d, h, canFail) ==
    Chain(NotAhead(d, h, canFail), LAMBDA e : FeedDraft(e, From(h, Len(D!Text(e))), canFail))

\* Without checkpoints the draft goes on, and starts over after a rejected guess.
Marked(outs, canFail) ==
    Chain(outs, LAMBDA e : IF e.usesMtp THEN {Ok(e)} ELSE D!Checkpoint(e, canFail))

Guessing(outs, canFail) == Chain(outs, LAMBDA e : D!DecodeStep(e, canFail))

\* draft_model_propose: the outcomes carry the guesses after the seed.
DraftModelPropose(d, h, seed, k, canFail) ==
    LET seeded == Chain(LevelWith(d, h, canFail), LAMBDA e : FeedDraft(e, <<seed>>, canFail))
        guessed[i \in 0 .. k - 1] ==
            IF i = 0 THEN Marked(seeded, canFail)
            ELSE IF i < k - 1 THEN Marked(Guessing(guessed[i - 1], canFail), canFail)
            ELSE Guessing(guessed[i - 1], canFail)
    IN  guessed[k - 1]

\* Mutants: the end is one token short, or one too far.
RollbackShort(d, h, guesses, n, canFail) ==
    IF n - 2 < guesses THEN D!Truncate(d, Len(h) + n - 2, canFail) ELSE {Ok(d)}
RollbackFar(d, h, guesses, n, canFail) ==
    IF n - 2 < guesses THEN D!Truncate(d, Len(h) + n, canFail) ELSE {Ok(d)}

\* draft_model_rollback after n emitted tokens; its failure is ignored.
DraftModelRollback(d, h, guesses, n, canFail) ==
    IF n - 2 < guesses THEN D!Truncate(d, Len(h) + n - 1, canFail) ELSE {Ok(d)}

\* propose_drafts_ngram: where the last L tokens of history and seed occur in
\* the history with something after them.
Occurrences(h, seed, L) ==
    {p \in 1 .. Len(h) - L :
        SubSeq(h, p, p + L - 1) = Append(From(h, Len(h) - (L - 1)), seed)}

NgramGuesses(h, seed, k) ==
    LET lengths == {L \in 1 .. MaxSuffix : Occurrences(h, seed, L) # {}}
        longest == CHOOSE L \in lengths : \A l \in lengths : l <= L
        follow(p) == IF Len(h) - (p + longest - 1) < k - 1
                     THEN Len(h) - (p + longest - 1) ELSE k - 1
        best == CHOOSE p \in Occurrences(h, seed, longest) :
                  \A q \in Occurrences(h, seed, longest) :
                      follow(q) < follow(p) \/ (follow(q) = follow(p) /\ q <= p)
    IN  IF k = 1 \/ lengths = {} \/ longest < MinMatch THEN <<>>
        ELSE SubSeq(h, best + longest, best + longest + follow(best) - 1)

\* transformer_mtp_draft: the head's guesses after the seed, each from the
\* target's last hidden state and its own guesses so far.
MtpInStep(s, k) == Len(s.mtp.rows) = s.kvLen /\ s.kvLen + k <= s.maxLen
MtpGuesses(s, seed, k) ==
    LET guesses[i \in 0 .. k - 1] ==
          IF i = 0 THEN <<>>
          ELSE Append(guesses[i - 1], DraftPredict(s.mtp.carry \o <<seed>> \o guesses[i - 1]))
    IN  guesses[k - 1]

-----------------------------------------------------------------------------
(* The calls *)

Returns(o, k) ==
    /\ sess' = o.s
    /\ out' = [st |-> o.st, toks |-> o.toks, k |-> k]
    /\ history' = IF o.st = "OK" THEN history \o o.toks ELSE history

Prefill ==
    /\ turns < MaxTurns
    /\ turns' = turns + 1
    /\ \E n \in 1 .. MaxPrompt : \E ids \in [1 .. n -> Tokens] : \E o \in Feed(sess, ids) :
          /\ sess' = o.s
          /\ out' = [st |-> o.st, toks |-> <<>>, k |-> 0]
          /\ history' = IF o.st = "OK" THEN history \o ids ELSE history
    /\ UNCHANGED <<draft, attached, faults, clean>>

Decode == \E o \in DecodeStep(sess, FALSE) :
    /\ Returns(o, 0)
    /\ UNCHANGED <<draft, attached, faults, clean, turns>>

SetDraft == /\ attached' = ~attached
            /\ UNCHANGED <<sess, draft, history, out, faults, clean, turns>>

Cancel == /\ ~sess.cancel
          /\ sess' = [sess EXCEPT !.cancel = TRUE]
          /\ UNCHANGED <<draft, attached, history, out, faults, clean, turns>>

\* A call emits the seed, the accepted guesses and one token more.  A draft that
\* has no rewind cannot go back over more guesses than it has checkpoints.
Rejected(k, toks) == k + 1 - Len(toks)
Stranded(k, toks) == attached /\ draft.recurrent /\ Rejected(k, toks) > Slots

SpeculativeReturn(o, k) ==
    /\ Returns(o, k)
    /\ clean' = (clean /\ o.st = "OK" /\ ~Stranded(k, o.toks))
    /\ UNCHANGED <<attached, turns>>

\* Nothing to verify: spec_fallback_single.
Single(s) == \E o \in DecodeStep(s, FALSE) :
    /\ SpeculativeReturn(o, 0)
    /\ UNCHANGED <<draft, faults>>

\* The draft model's guesses, their verify, and the draft's rollback.
WithDraftModel(s, k) ==
    LET seed == PendingToken(s) IN
    \E p \in DraftModelPropose(draft, history, seed, k, CanFail) :
      IF p.st # "OK"
      THEN /\ SpeculativeReturn(Out(s, p.st, <<>>, 0), k)
           /\ draft' = p.s
           /\ faults' = faults + p.faults
      ELSE \E v \in SpecVerify(s, <<seed>> \o p.toks, FALSE) :
             /\ SpeculativeReturn(v, k)
             /\ \E r \in IF v.st = "OK"
                         THEN DraftModelRollback(p.s, history, k - 1, Len(v.toks),
                                                 CanFail /\ p.faults = 0)
                         ELSE {Ok(p.s)} :
                  /\ draft' = r.s
                  /\ faults' = faults + p.faults + r.faults

\* The guesses of the draft head or of the n-grams.
WithGuesses(s, guesses, k) ==
    IF guesses = <<>> THEN Single(s)
    ELSE \E v \in SpecVerify(s, <<PendingToken(s)>> \o guesses, FALSE) :
           /\ SpeculativeReturn(v, k)
           /\ UNCHANGED <<draft, faults>>

WithMtp(s, k) ==
    IF MtpInStep(s, k) THEN WithGuesses(s, MtpGuesses(s, PendingToken(s), k), k)
    ELSE /\ SpeculativeReturn(Out(s, "INVALID_STATE", <<>>, 0), k)
         /\ UNCHANGED <<draft, faults>>

\* geist_session_decode_speculative: peek_next_token settles first.
DecodeSpeculative == \E k \in 1 .. KMax, o \in Settle(sess, FALSE) :
    \/ /\ o.st # "OK" \/ ~o.s.logitsValid
       /\ Single(o.s)
    \/ /\ o.st = "OK" /\ o.s.logitsValid
       /\ \/ attached /\ WithDraftModel(o.s, k)
          \/ ~attached /\ o.s.usesMtp /\ WithMtp(o.s, k)
          \/ /\ ~attached /\ ~o.s.usesMtp
             /\ WithGuesses(o.s, NgramGuesses(history, PendingToken(o.s), k), k)

Next == Prefill \/ Decode \/ SetDraft \/ Cancel \/ DecodeSpeculative

Spec == Init /\ [][Next]_vars

-----------------------------------------------------------------------------
(* Properties *)

Contract == INSTANCE Conversation WITH
    text <- Text(sess), pinned <- <<>>, ready <- sess.logitsValid,
    said <- IF out.st = "OK" THEN out.toks ELSE <<>>,
    image <- [taken |-> FALSE, text |-> <<>>, pinned |-> <<>>, ready |-> FALSE]

\* Whatever the drafter guesses, whatever state the draft session is in and
\* wherever it fails, the stream is the target model's own greedy one.
StreamIsGreedy == Contract!Spec

\* A call that drafts and returns OK, with no speculative call failed or draft
\* stranded before it, of a draft that takes checkpoints, from a caller whose
\* history is, as it should be, the whole text.
DraftedCall == /\ attached /\ ~draft.usesMtp /\ out'.k > 0 /\ history' # history
               /\ clean /\ faults' = 0 /\ history = Text(sess)
HeadDrafted == /\ ~attached /\ sess.usesMtp /\ out'.k > 1 /\ history' # history
               /\ history = Text(sess)

\* A call leaves the draft at the whole history but the correction it has just
\* emitted: rejected guesses are gone and accepted ones are not fed again.  Only
\* a draft with no rewind that guessed further than its checkpoints reach stays
\* where it is, on the guesses that were rejected.
DraftInStep ==
    [][DraftedCall =>
          IF Stranded(out'.k, out'.toks)
          THEN Len(D!Text(draft')) = Len(history) + out'.k
          ELSE D!Text(draft') = SubSeq(history', 1, Len(history') - 1)]_vars

\* A draft model or head is worth its cost: a call emits the seed, as many further
\* tokens as the two models agree on (k_max - 1 at most), and one more.
Agreed(text, toks) ==
    \A i \in 1 .. Len(toks) : toks[i] = Predict(text \o SubSeq(toks, 1, i - 1))
AcceptsWhatAgrees ==
    [][DraftedCall \/ HeadDrafted =>
          LET n == Len(out'.toks) - 2   \* accepted guesses; k = 1 has none and one more token
              Before(i) == history \o SubSeq(out'.toks, 1, i)
          IN  /\ n \in 0 .. out'.k - 1
              /\ \A i \in 1 .. n : DraftPredict(Before(i)) = Predict(Before(i))
              /\ n < out'.k - 1 => DraftPredict(Before(n + 1)) # Predict(Before(n + 1))]_vars

\* Neither session's recurrence ever parts from its cache, nor does the draft
\* head's: it has a row for each cached position, of that position, and the
\* hidden state of the last.
RecurrencesMatch ==
    /\ sess.recurrent => sess.rec = Content(sess)
    /\ sess.usesMtp => /\ sess.mtp.rows = [p \in 1 .. sess.kvLen |-> SubSeq(sess.rows, 1, p)]
                       /\ sess.mtp.carry = Content(sess)
    /\ faults = 0 /\ draft.recurrent => draft.rec = D!Content(draft)
=============================================================================
