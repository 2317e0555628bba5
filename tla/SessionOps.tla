------------------------------ MODULE SessionOps ------------------------------
(***************************************************************************)
(* The operations of one transformer session, as functions of its state:    *)
(* each maps a state to the set of its outcomes.  Sources: the op_* wrappers *)
(* of archs/transformer/arch.c, which settle the owed forward first; the     *)
(* bodies in arch_ops.c, forward/step.c and snapshot.c; and the calls of     *)
(* engine/session.c that combine them (decode_step, verify_drafts).          *)
(*                                                                           *)
(* A K/V row is the token of its position.  The recurrent (DeltaNet) state   *)
(* is the sequence it has absorbed: it has no rewind, so a wrong step shows  *)
(* as a sequence that is not the cached one.  A prediction is the pair it    *)
(* was computed from; sampling is greedy.                                    *)
(***************************************************************************)
EXTENDS Integers, Sequences

CONSTANTS
    Tokens,      \* the vocabulary
    Predict(_),  \* greedy next token of a sequence
    MMax,        \* m_max, rows of one forward pass
    Slots,       \* TRANSFORMER_CKPT_SLOTS
    RowSlots,    \* TRANSFORMER_DN_ROW_SLOTS
    Models       \* what a session may be made on: recurrent, a model with
                 \* Gated-DeltaNet layers; keepsRows, a backend that keeps a
                 \* verify's row states; mtp, GEIST_MTP on a model with a
                 \* draft head; maxLen, max_seq_len

ASSUME SessionConstants ==
    /\ MMax \in Nat \ {0} /\ Slots \in Nat \ {0} /\ RowSlots \in Nat
    /\ Models \subseteq [recurrent : BOOLEAN, keepsRows : BOOLEAN,
                         mtp : BOOLEAN, maxLen : Nat]
    /\ \A m \in Models : m.mtp => m.recurrent   \* only the hybrid family has draft heads
    /\ Tokens # {}
    /\ \A m \in Models : \A n \in 0 .. m.maxLen : \A t \in [1 .. n -> Tokens] : Predict(t) \in Tokens

NoPending == [on |-> <<>>, rec |-> <<>>]
NoMtp == [rows |-> <<>>, carry |-> <<>>]
NoTxn == [active |-> FALSE, base |-> 0, ids |-> <<>>, rec |-> <<>>, mtp |-> NoMtp,
          rowsOk |-> FALSE, rows |-> <<>>]

NewSession(model) ==
    [recurrent    |-> model.recurrent,
     keepsRows    |-> model.keepsRows,
     maxLen       |-> model.maxLen,
     usesMtp      |-> model.mtp,
     rows         |-> <<>>,   \* K/V by position; past kvLen they are leftovers
     kvLen        |-> 0,
     prefixLength |-> 0,
     rec          |-> <<>>,   \* dn_conv_state, dn_S
     mtp          |-> NoMtp,  \* the draft head's cache, and mtp_pending_h
     logitsValid  |-> FALSE,
     pending      |-> NoPending,  \* next_token_pending: what it was predicted from
     deferred     |-> FALSE,  \* advance_deferred
     txn          |-> NoTxn,  \* dn_txn_*, dn_row_*
     rowsOff      |-> FALSE,  \* dn_rows_off
     ckptLens     |-> <<>>,
     ckptBase     |-> 0,
     ckptBuf      |-> [i \in 0 .. Slots - 1 |-> <<>>],
     cancel       |-> FALSE]  \* the engine session's cancel flag

-----------------------------------------------------------------------------
Content(s) == SubSeq(s.rows, 1, s.kvLen)
PendingToken(s) == Predict(s.pending.on)
\* What the caller sees: a token decode_step returned counts as filled.
Text(s) == Content(s) \o (IF s.deferred THEN <<PendingToken(s)>> ELSE <<>>)

Out(s, st, toks, f) == [s |-> s, st |-> st, toks |-> toks, faults |-> f]
Ok(s) == Out(s, "OK", <<>>, 0)
Refused(s, st) == {Out(s, st, <<>>, 0)}
Failed(s) == Out(s, "BACKEND", <<>>, 1)

\* Outcome o of a call in which `before` has happened: its faults say whether
\* any backend operation of the call has failed.
After(before, o) == IF before.faults = 0 THEN o ELSE [o EXCEPT !.faults = before.faults]

\* Op(s) on every successful outcome; the others are final.
Then(outs, Op(_)) == UNION {IF o.st = "OK" THEN Op(o.s) ELSE {o} : o \in outs}

RoomFor(s, n) == s.kvLen + n <= s.maxLen
\* Only an active transaction is ever read, so a closed one keeps no data.
Commit(s) == [s EXCEPT !.txn = NoTxn]
\* Mutant: a rewind leaves the logits of the longer text pending.
KeepLogits(s) == s
DropLogits(s) == [s EXCEPT !.logitsValid = FALSE, !.pending = NoPending]
Finalized(s) == [s EXCEPT !.logitsValid = TRUE, !.pending = [on |-> Content(s), rec |-> s.rec]]

\* transformer_mtp_sync_target: row p of the draft head's cache is made of the
\* token at p and the target's hidden state before it, so it names the sequence
\* of both; the carry is the sequence of the last hidden state.
MtpRows(s, ids) == s.mtp.rows \o [i \in 1 .. Len(ids) |->
    (IF i = 1 THEN s.mtp.carry ELSE Content(s) \o SubSeq(ids, 1, i - 1)) \o <<ids[i]>>]
MtpSync(s, ids) ==
    IF s.usesMtp THEN [rows |-> MtpRows(s, ids), carry |-> Content(s) \o ids]
    ELSE s.mtp

\* The layer loop over `ids` at kvLen: writes the rows, absorbs the ids.
Forwarded(s, ids) ==
    [s EXCEPT !.rows = SubSeq(@, 1, s.kvLen) \o ids
                         \o SubSeq(@, s.kvLen + Len(ids) + 1, Len(@)),
              !.rec = IF s.recurrent THEN @ \o ids ELSE @,
              !.mtp = MtpSync(s, ids)]

\* A forward that fails: the recurrence may have absorbed the ids or not, and
\* if it has, the draft head its rows and its carry.
Broken(s, ids) ==
    LET f == Forwarded(s, ids) IN
    {f, [f EXCEPT !.mtp = s.mtp], [f EXCEPT !.mtp.carry = s.mtp.carry],
     [f EXCEPT !.mtp = s.mtp, !.rec = s.rec]}

-----------------------------------------------------------------------------
(* transformer_decode_step: appends one token and predicts the next. *)
RunStep(s, tok, canFail) ==
    IF ~RoomFor(s, 1) THEN Refused(Commit(s), "TOO_MANY_TOKENS")
    ELSE LET s0 == Commit(s)
             s1 == [Forwarded(s0, <<tok>>) EXCEPT !.kvLen = @ + 1]
         IN  {Ok(Finalized(s1))}
               \cup (IF canFail THEN {Failed(b) : b \in Broken(s0, <<tok>>)} ELSE {})

\* Mutant: the debt is gone even when the forward failed.
SettleForgetting(s, canFail) ==
    IF ~s.deferred THEN {Ok(s)}
    ELSE {[o EXCEPT !.s.deferred = FALSE] : o \in RunStep(s, PendingToken(s), canFail)}

Settle(s, canFail) ==
    IF ~s.deferred THEN {Ok(s)}
    ELSE Then(RunStep(s, PendingToken(s), canFail),
              LAMBDA t : {Ok([t EXCEPT !.deferred = FALSE])})

\* Mutant: the forward is owed before the logits are checked.
DecodeEager(s) ==
    IF ~s.logitsValid THEN Refused([s EXCEPT !.deferred = TRUE], "INVALID_STATE")
    ELSE {Out([Commit(s) EXCEPT !.deferred = TRUE], "OK", <<PendingToken(s)>>, 0)}

(* geist_session_decode_step *)
DecodeSettled(s) ==
    IF ~s.logitsValid THEN Refused(s, "INVALID_STATE")
    ELSE IF ~RoomFor(s, 1) THEN Refused(Commit(s), "TOO_MANY_TOKENS")
    ELSE {Out([Commit(s) EXCEPT !.deferred = TRUE], "OK", <<PendingToken(s)>>, 0)}

\* Mutant: the request is reported and stays.
CancelledAgain(s) == Refused(s, "CANCELLED")

Cancelled(s) == Refused([s EXCEPT !.cancel = FALSE], "CANCELLED")

DecodeStep(s, canFail) ==
    IF s.cancel THEN Cancelled(s) ELSE Then(Settle(s, canFail), DecodeSettled)

-----------------------------------------------------------------------------
(* One sub-batch of a prefill: cancel check, layers, advance; the last one   *)
(* computes the logits.  A failure leaves the logits flag as it was.         *)
PrefillChunk(s, ids, last, canFail) ==
    IF s.cancel THEN Cancelled([s EXCEPT !.logitsValid = FALSE])
    ELSE LET s1 == [Forwarded(s, ids) EXCEPT !.kvLen = @ + Len(ids)]
         IN  {Ok(IF last THEN Finalized(s1) ELSE s1)}
               \cup (IF canFail THEN {Failed(b) : b \in Broken(s, ids)} ELSE {})
               \cup (IF canFail /\ last THEN {Failed(s1)} ELSE {})

\* A prefill that is one sub-batch.
PrefillOnce(s, ids, canFail) ==
    IF ~RoomFor(s, Len(ids)) THEN Refused(Commit(s), "TOO_MANY_TOKENS")
    ELSE PrefillChunk(Commit(s), ids, TRUE, canFail)

-----------------------------------------------------------------------------
(* verify_forward and kv_truncate: the speculative transaction. *)

\* The recurrent state after each verified row but the last.  Mutant: before it.
RowStatesEarly(s, ids) == [i \in 1 .. Len(ids) - 1 |-> s.rec \o SubSeq(ids, 1, i - 1)]
RowStates(s, ids) == [i \in 1 .. Len(ids) - 1 |-> s.rec \o SubSeq(ids, 1, i)]

TxnBegin(s, ids) ==
    IF ~s.recurrent THEN s
    ELSE LET k == Len(ids)
             req == ~s.rowsOff /\ k >= 2 /\ k - 1 <= RowSlots
         IN  [s EXCEPT
               !.txn = [active |-> TRUE, base |-> s.kvLen, ids |-> ids,
                        rec |-> s.rec, mtp |-> s.mtp,
                        rowsOk |-> req /\ s.keepsRows,
                        rows |-> IF req /\ s.keepsRows
                                 THEN RowStates(s, ids) ELSE @.rows]]

\* A verify that asked for row states and did not get them asks no more.
RowsMissing(s) == s.recurrent /\ ~s.keepsRows /\ Len(s.txn.ids) \in 2 .. RowSlots + 1

\* Mutant: the recurrence is not copied back.
TxnRestoreLength(s) == IF s.txn.active THEN [s EXCEPT !.kvLen = s.txn.base] ELSE s

TxnRestore(s) ==
    IF s.txn.active
    THEN [s EXCEPT !.rec = s.txn.rec, !.mtp = s.txn.mtp, !.kvLen = s.txn.base]
    ELSE s

\* The copy back may fail itself, having brought back the recurrence or not; the
\* length and the draft head stay.
TxnRestores(s, canFail) ==
    {Ok(TxnRestore(s))}
      \cup (IF canFail /\ s.txn.active
            THEN {Failed(s), Failed([s EXCEPT !.rec = s.txn.rec])} ELSE {})

\* Feeds `ids` and returns the prediction after each of them.  A verify that fails
\* copies back and commits whatever became of the copy, unless it failed in the
\* head of a single row: then a failed copy leaves the transaction open.
VerifyForward(s, ids, canFail) ==
    LET k  == Len(ids)
        s0 == TxnBegin(s, ids)
        s1 == DropLogits([Forwarded(s0, ids) EXCEPT !.kvLen = @ + k])
    IN  IF k > MMax THEN Refused(s, "INVALID_ARG")
        ELSE IF ~RoomFor(s, k) THEN Refused(s, "TOO_MANY_TOKENS")
        ELSE {Out([Finalized(s1) EXCEPT !.rowsOff = @ \/ RowsMissing(s1)], "OK",
                  [i \in 1 .. k |-> Predict(Content(s) \o SubSeq(ids, 1, i))], 0)}
             \cup (IF canFail
                   THEN {Failed(Commit(r.s)) :
                            r \in UNION {TxnRestores(b, TRUE) : b \in Broken(s0, ids)}}
                        \cup {Failed(IF k = 1 /\ r.st # "OK" THEN r.s ELSE Commit(r.s)) :
                                 r \in TxnRestores(s1, TRUE)}
                   ELSE {})

\* mtp_rows_restore: the head's rows of the first n positions, without a replay.
MtpKept(s, n) ==
    IF s.usesMtp
    THEN [rows |-> SubSeq(s.mtp.rows, 1, n), carry |-> SubSeq(s.rows, 1, n)]
    ELSE s.mtp

\* Keep `n` positions after a verify.
Cut(s, n) == [s EXCEPT !.kvLen = n]

\* The kept beginning is fed again to what the restore r left.  When that is
\* refused, the verify is restored once more.
Replayed(s, n, r, canFail) ==
    UNION {IF o.st = "OK" THEN {After(r, [o EXCEPT !.s = Cut(@, n)])}
           ELSE {After(r, After(u, [o EXCEPT !.s = DropLogits(Commit(u.s))])) :
                    u \in TxnRestores([o.s EXCEPT !.txn = s.txn], canFail)}
           : o \in PrefillOnce(Commit(r.s), SubSeq(s.txn.ids, 1, n - s.txn.base), canFail)}

\* transformer_kv_truncate.  A row state that cannot be copied ends it with all of
\* the verify in place and open; a restore that fails does not end it.
KvTruncate(s, n, canFail) ==
    LET accepted == n - s.txn.base
        kept == [s EXCEPT !.rec = s.txn.rows[accepted], !.mtp = MtpKept(s, n)]
    IN  IF n > s.kvLen THEN Refused(s, "INVALID_ARG")
        ELSE IF ~s.txn.active THEN {Ok(DropLogits(Cut(s, n)))}
        ELSE IF accepted \notin 0 .. Len(s.txn.ids) THEN Refused(s, "INVALID_ARG")
        ELSE IF accepted = Len(s.txn.ids)
             THEN LET c == Cut(Commit(s), n) IN {Ok(IF s.logitsValid THEN c ELSE DropLogits(c))}
        ELSE IF accepted > 0 /\ s.txn.rowsOk
             THEN {Ok(DropLogits(Cut(Commit(kept), n)))}
                  \cup (IF canFail THEN {Failed(s), Failed([kept EXCEPT !.mtp = s.mtp])} ELSE {})
        ELSE IF accepted = 0
             THEN {After(r, Ok(DropLogits(Cut(Commit(r.s), n)))) : r \in TxnRestores(s, canFail)}
        ELSE UNION {Replayed(s, n, r, canFail) : r \in TxnRestores(s, canFail)}

(* spec_verify: accept the longest prefix of the drafts the model agrees     *)
(* with, roll the rest back, and push the model's own next token.            *)
\* Mutant: drafts compared with the prediction before them.
AcceptedShifted(drafts, verified) ==
    CHOOSE a \in 0 .. Len(drafts) - 1 :
        /\ \A i \in 1 .. a : verified[i] = drafts[i]
        /\ a = Len(drafts) - 1 \/ verified[a + 1] # drafts[a + 1]

Accepted(drafts, verified) ==
    CHOOSE a \in 0 .. Len(drafts) - 1 :
        /\ \A i \in 1 .. a : verified[i] = drafts[i + 1]
        /\ a = Len(drafts) - 1 \/ verified[a + 1] # drafts[a + 2]

SpecVerify(s, drafts, canFail) ==
    LET before == s.kvLen IN
    UNION {IF v.st # "OK" THEN {v}
           ELSE LET a == Accepted(drafts, v.toks)
                    correction == v.toks[a + 1]
                    kept == IF a = Len(drafts) - 1 THEN {Ok(v.s)}
                            ELSE KvTruncate(v.s, before + a + 1, canFail)
                    pushed == UNION {IF k.st # "OK" THEN {k}
                                     ELSE {After(k, x) : x \in PrefillOnce(k.s, <<correction>>, canFail)}
                                     : k \in kept}
                IN  {IF x.st = "OK"
                     THEN [x EXCEPT !.toks = SubSeq(drafts, 1, a + 1) \o <<correction>>]
                     ELSE x
                     : x \in pushed}
           : v \in VerifyForward(s, drafts, canFail)}

(* geist_session_verify_drafts; decode_speculative is the same from the seed  *)
(* on.  Without pending logits, or when settling fails, it is a decode_step.  *)
VerifyDrafts(s, guesses, canFail) ==
    IF guesses = <<>> THEN DecodeStep(s, canFail)
    ELSE UNION {IF o.st = "OK" /\ o.s.logitsValid
                THEN SpecVerify(o.s, <<PendingToken(o.s)>> \o guesses, canFail)
                ELSE {After(o, r) : r \in DecodeStep(o.s, canFail)}
                : o \in Settle(s, canFail)}

-----------------------------------------------------------------------------
(* reset, checkpoints, truncate, snapshots *)

Reset(s) == [DropLogits(Commit(s)) EXCEPT
               !.kvLen = s.prefixLength, !.deferred = FALSE,
               !.ckptLens = <<>>, !.ckptBase = 0, !.rec = <<>>, !.mtp = NoMtp]

\* Mutant: the slots do not rotate with the evicted lengths.
CkptSlotFixed(s, j) == (j - 1) % Slots
CkptSlot(s, j) == (s.ckptBase + j - 1) % Slots

\* Full: the oldest goes before anything can fail.
Evicted(s) ==
    IF Len(s.ckptLens) = Slots
    THEN [s EXCEPT !.ckptLens = Tail(@), !.ckptBase = (@ + 1) % Slots]
    ELSE s

CheckpointSettled(s, canFail) ==
    LET e == Evicted(s)
        slot == CkptSlot(e, Len(e.ckptLens) + 1)
    IN  IF s.usesMtp THEN Refused(s, "UNSUPPORTED")
        ELSE
        {Ok([Commit(e) EXCEPT !.ckptBuf[slot] = s.rec, !.ckptLens = Append(@, s.kvLen)])}
          \cup (IF canFail /\ s.recurrent
                THEN {Failed(e), Failed([Commit(e) EXCEPT !.ckptBuf[slot] = s.rec])}
                ELSE {})

Checkpoint(s, canFail) ==
    Then(Settle(s, canFail), LAMBDA t : CheckpointSettled(t, canFail))

\* The first checkpoint taken at length n.
CkptAt(s, n) == {j \in DOMAIN s.ckptLens :
                   s.ckptLens[j] = n /\ \A i \in 1 .. j - 1 : s.ckptLens[i] # n}

CheckpointRestore(s, j) ==
    [Commit(s) EXCEPT !.rec = IF s.recurrent THEN s.ckptBuf[CkptSlot(s, j)] ELSE @,
                      !.kvLen = s.ckptLens[j],
                      !.ckptLens = SubSeq(@, 1, j)]

\* Checkpoints past the new end are gone, from the newest down.
Pruned(s, n) ==
    LET keep == {m \in 0 .. Len(s.ckptLens) : m = 0 \/ s.ckptLens[m] <= n}
    IN  [s EXCEPT !.ckptLens = SubSeq(@, 1, CHOOSE m \in keep : \A i \in keep : i <= m)]

TruncateSettled(s, n, canFail) ==
    IF n > s.kvLen \/ n < s.prefixLength THEN Refused(s, "INVALID_ARG")
    ELSE IF n = s.kvLen THEN {Ok(s)}
    ELSE IF n = 0 THEN {Ok(Reset(s))}
    ELSE IF CkptAt(s, n) # {}
         THEN LET j == CHOOSE i \in CkptAt(s, n) : TRUE
                  r == CheckpointRestore(s, j)
              IN  {Ok([DropLogits(r) EXCEPT !.deferred = FALSE])}
                    \cup (IF canFail /\ s.recurrent
                          THEN {Failed(Commit(s)), Failed([Commit(s) EXCEPT !.rec = r.rec])}
                          ELSE {})
    ELSE IF s.recurrent \/ s.usesMtp THEN Refused(s, "UNSUPPORTED")
    ELSE {Ok([DropLogits(Cut(Pruned(Commit(s), n), n)) EXCEPT !.deferred = FALSE])}

Truncate(s, n, canFail) ==
    Then(Settle(s, canFail), LAMBDA t : TruncateSettled(t, n, canFail))

\* Mutant: the debt is not in the image.
ImageSettled(s) == [rows |-> Content(s), prefixLength |-> s.prefixLength, rec |-> s.rec,
                    logitsValid |-> s.logitsValid, pending |-> s.pending, deferred |-> FALSE]
\* A snapshot does not settle: the owed forward is part of the image.  Sessions
\* with the MTP drafter make none.
Image(s) == [rows |-> Content(s), prefixLength |-> s.prefixLength, rec |-> s.rec,
             logitsValid |-> s.logitsValid, pending |-> s.pending, deferred |-> s.deferred]

Restore(s, img, canFail) ==
    LET r == [Reset(s) EXCEPT !.prefixLength = 0, !.kvLen = 0] IN
    {Ok([r EXCEPT !.rows = img.rows \o SubSeq(@, Len(img.rows) + 1, Len(@)),
                  !.kvLen = Len(img.rows), !.prefixLength = img.prefixLength, !.rec = img.rec,
                  !.logitsValid = img.logitsValid, !.pending = img.pending,
                  !.deferred = img.deferred])}
      \cup (IF canFail THEN {Failed(Reset(r))} ELSE {})
=============================================================================
