--------------------------- MODULE SessionOpsProofs ---------------------------
(***************************************************************************)
(* Lemmas about SessionOps: what each operation does to a session.            *)
(*                                                                           *)
(* Core(s) is what holds even in the middle of a call while no backend        *)
(* operation has failed: the recurrence has absorbed exactly the cached text, *)
(* and every checkpoint is a prefix of that text whose slot holds the         *)
(* recurrence at its length.  Rest(s) is what holds between two calls: no      *)
(* transaction is open, pending logits are those of the whole state, and an   *)
(* owed forward is owed to such logits.  The first half of the module takes    *)
(* Rest through every operation, following the layers, the verify and its     *)
(* rollbacks one by one.                                                      *)
(*                                                                           *)
(* What is promised of failures holds after one too, so that the second half  *)
(* rests on less: Held(s), that the rows are tokens, that the length stays in  *)
(* the cache and that an owed token is one.  Grows(s, t, ids) says that t is s *)
(* with ids appended, and every operation is followed through it, on success, *)
(* on refusal and on failure; Speaks(s, o) is the step of the conversation     *)
(* that a call with outcome o is.                                             *)
(***************************************************************************)
EXTENDS SessionOps, SequenceTheorems, WellFoundedInduction, TLAPS

-----------------------------------------------------------------------------
(* Sequences. *)

\* A prefix of a text.
LEMMA CutText ==
    ASSUME NEW S, NEW s \in Seq(S), NEW n \in 0 .. Len(s)
    PROVE  /\ SubSeq(s, 1, n) \in Seq(S) /\ Len(SubSeq(s, 1, n)) = n
           /\ \A i \in 1 .. n : SubSeq(s, 1, n)[i] = s[i]
<1>1. \A i \in 1 .. n : s[i] \in S
    BY ElementOfSeq
<1> QED
    BY <1>1, SubSeqProperties

\* Two texts that agree up to n have the same prefix of length n.
LEMMA PrefixesAgree ==
    ASSUME NEW S, NEW s \in Seq(S), NEW t \in Seq(S), NEW n \in 0 .. Len(s), n <= Len(t),
           \A i \in 1 .. n : s[i] = t[i]
    PROVE  SubSeq(s, 1, n) = SubSeq(t, 1, n)
<1>1. n \in 0 .. Len(t)
    OBVIOUS
<1>2. /\ SubSeq(s, 1, n) \in Seq(S) /\ Len(SubSeq(s, 1, n)) = n
      /\ SubSeq(t, 1, n) \in Seq(S) /\ Len(SubSeq(t, 1, n)) = n
      /\ \A i \in 1 .. n : SubSeq(s, 1, n)[i] = s[i]
      /\ \A i \in 1 .. n : SubSeq(t, 1, n)[i] = t[i]
    BY <1>1, CutText
<1>3. \A i \in 1 .. Len(SubSeq(s, 1, n)) : SubSeq(s, 1, n)[i] = SubSeq(t, 1, n)[i]
    BY <1>2
<1> QED
    BY <1>2, <1>3, SeqEqual

\* Rows written over a sequence at k.
Splice(s, k, ids) == SubSeq(s, 1, k) \o ids \o SubSeq(s, k + Len(ids) + 1, Len(s))

IsSplice(S, s, k, ids, t) ==
    /\ t \in Seq(S) /\ Len(t) >= k + Len(ids) /\ Len(t) \in Nat
    /\ \A i \in 1 .. k : t[i] = s[i]
    /\ \A a \in 0 .. Len(ids) : SubSeq(t, 1, k + a) = SubSeq(s, 1, k) \o SubSeq(ids, 1, a)
    /\ SubSeq(t, 1, k + Len(ids)) = SubSeq(s, 1, k) \o ids

\* What Forwarded makes of the rows: k of the old ones, the ids, and leftovers.
LEMMA Spliced ==
    ASSUME NEW S, NEW s \in Seq(S), NEW k \in 0 .. Len(s), NEW ids \in Seq(S)
    PROVE  IsSplice(S, s, k, ids, Splice(s, k, ids))
<1> DEFINE u == SubSeq(s, 1, k)
           w == SubSeq(s, k + Len(ids) + 1, Len(s))
           t == u \o ids \o w
<1>1. PICK n \in Nat, L \in Nat : n = Len(ids) /\ L = Len(s)
    OBVIOUS
<1>2. u \in Seq(S) /\ Len(u) = k /\ \A i \in 1 .. k : u[i] = s[i]
    BY CutText
<1>3. w \in Seq(S) /\ Len(w) \in Nat
    <2>1. \A i \in k + n + 1 .. L : i \in 1 .. Len(s)
        BY <1>1
    <2>2. \A i \in k + n + 1 .. L : s[i] \in S
        BY <2>1, ElementOfSeq
    <2>3. k + n + 1 \in Int /\ L \in Int
        OBVIOUS
    <2>4. w = SubSeq(s, k + n + 1, L)
        BY <1>1
    <2> QED
        BY <2>2, <2>3, <2>4, SubSeqProperties
<1> HIDE DEF u, w
<1>4. PICK m \in Nat : m = Len(w)
    BY <1>3
<1>5. /\ u \o ids \in Seq(S) /\ Len(u \o ids) = k + n
      /\ \A i \in 1 .. k + n : (u \o ids)[i] = IF i <= k THEN u[i] ELSE ids[i - k]
    BY <1>1, <1>2, ConcatProperties
<1> DEFINE v == u \o ids
<1> HIDE DEF v
<1>6. /\ v \o w \in Seq(S) /\ Len(v \o w) = k + n + m
      /\ \A i \in 1 .. k + n + m : (v \o w)[i] = IF i <= k + n THEN v[i] ELSE w[i - (k + n)]
    <2>1. v \in Seq(S) /\ Len(v) = k + n
        BY <1>5 DEF v
    <2>2. /\ v \o w \in Seq(S) /\ Len(v \o w) = Len(v) + Len(w)
          /\ \A i \in 1 .. Len(v) + Len(w) : (v \o w)[i] = IF i <= Len(v) THEN v[i] ELSE w[i - Len(v)]
        BY <1>3, <2>1, ConcatProperties
    <2> QED
        BY <1>4, <2>1, <2>2
<1>7. t = v \o w
    BY DEF v
<1> HIDE DEF t
<1>8. \A i \in 1 .. k + n : t[i] = IF i <= k THEN u[i] ELSE ids[i - k]
    <2>1. TAKE i \in 1 .. k + n
    <2>2. i \in 1 .. k + n + m /\ i <= k + n
        OBVIOUS
    <2>3. t[i] = v[i]
        BY <1>6, <1>7, <2>2
    <2> QED
        BY <1>5, <2>3 DEF v
<1>9. t \in Seq(S) /\ Len(t) = k + n + m
    BY <1>6, <1>7
<1>10. ASSUME NEW a \in 0 .. n
       PROVE  SubSeq(t, 1, k + a) = u \o SubSeq(ids, 1, a)
    <2>1. SubSeq(ids, 1, a) \in Seq(S) /\ Len(SubSeq(ids, 1, a)) = a /\ \A i \in 1 .. a : SubSeq(ids, 1, a)[i] = ids[i]
        BY <1>1, CutText
    <2> DEFINE p == SubSeq(ids, 1, a)
               q == SubSeq(t, 1, k + a)
    <2>2. q \in Seq(S) /\ Len(q) = k + a /\ \A i \in 1 .. k + a : q[i] = t[i]
        <3>1. k + a \in 0 .. Len(t)
            BY <1>9
        <3> QED
            BY <1>9, <3>1, CutText
    <2> HIDE DEF p, q
    <2>3. /\ u \o p \in Seq(S) /\ Len(u \o p) = k + a
          /\ \A i \in 1 .. k + a : (u \o p)[i] = IF i <= k THEN u[i] ELSE p[i - k]
        <3>1. p \in Seq(S) /\ Len(p) = a
            BY <2>1 DEF p
        <3>2. /\ u \o p \in Seq(S) /\ Len(u \o p) = Len(u) + Len(p)
              /\ \A i \in 1 .. Len(u) + Len(p) : (u \o p)[i] = IF i <= Len(u) THEN u[i] ELSE p[i - Len(u)]
            BY <1>2, <3>1, ConcatProperties
        <3> QED
            BY <1>2, <3>1, <3>2
    <2>4. \A i \in 1 .. Len(q) : q[i] = (u \o p)[i]
        <3>1. TAKE i \in 1 .. Len(q)
        <3>2. i \in 1 .. k + a /\ i \in 1 .. k + n
            BY <2>2
        <3>3. q[i] = IF i <= k THEN u[i] ELSE ids[i - k]
            BY <1>8, <2>2, <3>2
        <3>4. ~(i <= k) => i - k \in 1 .. a
            BY <3>2
        <3> QED
            BY <2>1, <2>3, <3>2, <3>3, <3>4 DEF p
    <2>5. q = u \o p
        BY <2>2, <2>3, <2>4, SeqEqual
    <2> QED
        BY <2>5 DEF p, q
<1>11. SubSeq(ids, 1, n) = ids
    <2>1. SubSeq(ids, 1, n) \in Seq(S) /\ Len(SubSeq(ids, 1, n)) = n /\ \A i \in 1 .. n : SubSeq(ids, 1, n)[i] = ids[i]
        BY <1>1, CutText
    <2> QED
        BY <1>1, <2>1, SeqEqual
<1>12. SubSeq(t, 1, k + n) = u \o ids
    <2>1. n \in 0 .. n
        OBVIOUS
    <2> QED
        BY <1>10, <1>11, <2>1
<1>13. \A i \in 1 .. k : t[i] = s[i]
    <2>1. TAKE i \in 1 .. k
    <2>2. i \in 1 .. k + n /\ i <= k
        OBVIOUS
    <2> QED
        BY <1>2, <1>8, <2>2
<1>14. Len(t) >= k + Len(ids) /\ Len(t) \in Nat
    BY <1>1, <1>9
<1> QED
    BY <1>1, <1>9, <1>10, <1>12, <1>13, <1>14 DEF t, u, w, Splice, IsSplice

-----------------------------------------------------------------------------
(* Sessions. *)

\* A record with the fields of NewSession, whatever they hold.
IsSession(s) ==
    s \in [recurrent : {s.recurrent}, keepsRows : {s.keepsRows}, maxLen : {s.maxLen},
           usesMtp : {s.usesMtp}, rows : {s.rows}, kvLen : {s.kvLen},
           prefixLength : {s.prefixLength}, rec : {s.rec}, mtp : {s.mtp},
           logitsValid : {s.logitsValid}, pending : {s.pending}, deferred : {s.deferred},
           txn : {s.txn}, rowsOff : {s.rowsOff}, ckptLens : {s.ckptLens},
           ckptBase : {s.ckptBase}, ckptBuf : {s.ckptBuf}, cancel : {s.cancel}]

\* What two sessions have in common.
SameModel(s, t) == /\ t.recurrent = s.recurrent /\ t.keepsRows = s.keepsRows
                   /\ t.maxLen = s.maxLen /\ t.usesMtp = s.usesMtp
SameCkpts(s, t) == t.ckptLens = s.ckptLens /\ t.ckptBase = s.ckptBase /\ t.ckptBuf = s.ckptBuf
SameText(s, t) == t.rows = s.rows /\ t.kvLen = s.kvLen /\ t.rec = s.rec
SameLogits(s, t) == t.logitsValid = s.logitsValid /\ t.pending = s.pending

\* The operations of SessionOps by the fields they change.
LEMMA CommitFields ==
    ASSUME NEW s, IsSession(s)
    PROVE  LET t == Commit(s) IN
           /\ IsSession(t) /\ SameModel(s, t) /\ SameCkpts(s, t) /\ SameText(s, t) /\ SameLogits(s, t)
           /\ t.prefixLength = s.prefixLength /\ t.deferred = s.deferred /\ t.cancel = s.cancel
           /\ t.txn = NoTxn /\ ~t.txn.active
<1>1. PICK x : x = NoTxn
    OBVIOUS
<1>2. ~NoTxn.active
    BY DEF NoTxn
<1> QED
    BY <1>1, <1>2 DEF Commit, IsSession, SameModel, SameCkpts, SameText, SameLogits

\* Only the pending logits change.
LEMMA DropLogitsFields ==
    ASSUME NEW s, IsSession(s)
    PROVE  LET t == DropLogits(s) IN
           /\ IsSession(t) /\ SameModel(s, t) /\ SameCkpts(s, t) /\ SameText(s, t)
           /\ t.prefixLength = s.prefixLength /\ t.deferred = s.deferred /\ t.cancel = s.cancel
           /\ t.txn = s.txn /\ t.logitsValid = FALSE
<1>1. PICK x : x = NoPending
    OBVIOUS
<1> QED
    BY <1>1 DEF DropLogits, IsSession, SameModel, SameCkpts, SameText

\* Only the pending logits change, to those of the whole state.
LEMMA FinalizedFields ==
    ASSUME NEW s, IsSession(s)
    PROVE  LET t == Finalized(s) IN
           /\ IsSession(t) /\ SameModel(s, t) /\ SameCkpts(s, t) /\ SameText(s, t)
           /\ t.prefixLength = s.prefixLength /\ t.deferred = s.deferred /\ t.cancel = s.cancel
           /\ t.txn = s.txn /\ t.logitsValid = TRUE
           /\ t.pending.on = Content(s) /\ t.pending.rec = s.rec
<1>1. PICK x : x = [on |-> Content(s), rec |-> s.rec]
    OBVIOUS
<1>2. x.on = Content(s) /\ x.rec = s.rec
    BY <1>1
<1>3. Finalized(s) = [s EXCEPT !.logitsValid = TRUE, !.pending = x]
    BY <1>1 DEF Finalized
<1>4. Finalized(s).pending = x
    BY <1>3 DEF IsSession
<1> QED
    BY <1>2, <1>3, <1>4 DEF IsSession, SameModel, SameCkpts, SameText

\* Only the length changes.
LEMMA CutFields ==
    ASSUME NEW s, IsSession(s), NEW n
    PROVE  LET t == Cut(s, n) IN
           /\ IsSession(t) /\ SameModel(s, t) /\ SameCkpts(s, t) /\ SameLogits(s, t)
           /\ t.rows = s.rows /\ t.rec = s.rec /\ t.kvLen = n
           /\ t.prefixLength = s.prefixLength /\ t.deferred = s.deferred /\ t.cancel = s.cancel
           /\ t.txn = s.txn
BY DEF Cut, IsSession, SameModel, SameCkpts, SameLogits

\* The layers over ids, and the advance that follows.
Advanced(s, ids) == [Forwarded(s, ids) EXCEPT !.kvLen = @ + Len(ids)]

\* What a forward and its advance change; AdvancedCore says what it means.
LEMMA AdvancedFields ==
    ASSUME NEW s, IsSession(s), NEW ids
    PROVE  LET t == Advanced(s, ids) IN
           /\ IsSession(t) /\ SameModel(s, t) /\ SameCkpts(s, t) /\ SameLogits(s, t)
           /\ t.rows = SubSeq(s.rows, 1, s.kvLen) \o ids \o SubSeq(s.rows, s.kvLen + Len(ids) + 1, Len(s.rows))
           /\ t.rec = IF s.recurrent THEN s.rec \o ids ELSE s.rec
           /\ t.kvLen = s.kvLen + Len(ids)
           /\ t.prefixLength = s.prefixLength /\ t.deferred = s.deferred /\ t.cancel = s.cancel
           /\ t.txn = s.txn
<1>1. PICK R, q, m : /\ R = SubSeq(s.rows, 1, s.kvLen) \o ids \o SubSeq(s.rows, s.kvLen + Len(ids) + 1, Len(s.rows))
                     /\ q = IF s.recurrent THEN s.rec \o ids ELSE s.rec
                     /\ m = MtpSync(s, ids)
    OBVIOUS
<1>2. PICK f : f = [s EXCEPT !.rows = R, !.rec = q, !.mtp = m]
    OBVIOUS
<1>3. Forwarded(s, ids) = f
    BY <1>1, <1>2 DEF Forwarded, IsSession
<1>4. /\ IsSession(f) /\ SameModel(s, f) /\ SameCkpts(s, f) /\ SameLogits(s, f)
      /\ f.rows = R /\ f.rec = q /\ f.kvLen = s.kvLen
      /\ f.prefixLength = s.prefixLength /\ f.deferred = s.deferred /\ f.cancel = s.cancel
      /\ f.txn = s.txn
    BY <1>2 DEF IsSession, SameModel, SameCkpts, SameLogits
<1>5. PICK n : n = s.kvLen + Len(ids)
    OBVIOUS
<1>6. Advanced(s, ids) = [f EXCEPT !.kvLen = n]
    BY <1>3, <1>4, <1>5 DEF Advanced, IsSession
<1> DEFINE t == [f EXCEPT !.kvLen = n]
<1>7. /\ IsSession(t) /\ SameModel(f, t) /\ SameCkpts(f, t) /\ SameLogits(f, t)
      /\ t.rows = f.rows /\ t.rec = f.rec /\ t.kvLen = n
      /\ t.prefixLength = f.prefixLength /\ t.deferred = f.deferred /\ t.cancel = f.cancel
      /\ t.txn = f.txn
    BY <1>4 DEF IsSession, SameModel, SameCkpts, SameLogits
<1> HIDE DEF t
<1>8. SameModel(s, t) /\ SameCkpts(s, t) /\ SameLogits(s, t)
    BY <1>4, <1>7 DEF SameModel, SameCkpts, SameLogits
<1> QED
    BY <1>1, <1>4, <1>5, <1>6, <1>7, <1>8 DEF t

-----------------------------------------------------------------------------
(* Outcomes: each says whether a backend operation has failed.  Only a verify *)
(* and its rollback may succeed although one has.                            *)

IsOut(o) == o \in [s : {o.s}, st : {o.st}, toks : {o.toks}, faults : {o.faults}]
Tallied(o) == IsOut(o) /\ o.faults \in Nat
Counted(o) == Tallied(o) /\ (o.st = "OK" => o.faults = 0)

\* An outcome is what it was built from.
LEMMA OutCounted ==
    ASSUME NEW s, NEW st, NEW toks, NEW f \in Nat, st = "OK" => f = 0
    PROVE  LET o == Out(s, st, toks, f) IN
           Counted(o) /\ o.s = s /\ o.st = st /\ o.toks = toks /\ o.faults = f
BY DEF Out, Counted, Tallied, IsOut

\* A success has no failure in it.
LEMMA OkCounted ==
    ASSUME NEW s
    PROVE  Counted(Ok(s)) /\ Ok(s).s = s /\ Ok(s).st = "OK" /\ Ok(s).toks = <<>> /\ Ok(s).faults = 0
BY OutCounted DEF Ok

\* A failure counts one.
LEMMA FailedCounted ==
    ASSUME NEW s
    PROVE  Counted(Failed(s)) /\ Failed(s).s = s /\ Failed(s).st = "BACKEND" /\ Failed(s).faults = 1
BY OutCounted DEF Failed

\* A refusal is no failure.
LEMMA RefusedCounted ==
    ASSUME NEW s, NEW st, st # "OK", NEW o \in Refused(s, st)
    PROVE  Counted(o) /\ o.s = s /\ o.st = st /\ o.faults = 0
BY OutCounted DEF Refused

\* Counting goes through Then.
LEMMA ThenCounted ==
    ASSUME NEW outs, NEW Op(_), \A x \in outs : Counted(x),
           \A x \in outs : x.st = "OK" => \A o \in Op(x.s) : Counted(o),
           NEW o \in Then(outs, Op)
    PROVE  Counted(o)
BY DEF Then

\* What has failed before shows in an outcome, and nothing else of it changes.
LEMMA AfterTallied ==
    ASSUME NEW b, Tallied(b), NEW x, Tallied(x)
    PROVE  LET o == After(b, x) IN
           /\ Tallied(o) /\ o.s = x.s /\ o.st = x.st /\ o.toks = x.toks
           /\ o.faults = 0 <=> b.faults = 0 /\ x.faults = 0
<1>1. PICK f \in Nat : f = b.faults
    BY DEF Tallied
<1>2. CASE f = 0
    BY <1>1, <1>2 DEF After
<1>3. CASE f # 0
    <2>1. After(b, x) = [x EXCEPT !.faults = f]
        BY <1>1, <1>3 DEF After
    <2> QED
        BY <1>1, <1>3, <2>1 DEF Tallied, IsOut
<1> QED
    BY <1>2, <1>3

\* transformer_decode_step.
LEMMA RunStepCounted ==
    ASSUME NEW s, NEW tok, NEW canFail, NEW o \in RunStep(s, tok, canFail)
    PROVE  Counted(o)
BY OkCounted, FailedCounted, RefusedCounted DEF RunStep

\* The settle that begins most calls.
LEMMA SettleCounted ==
    ASSUME NEW s, NEW canFail, NEW o \in Settle(s, canFail)
    PROVE  Counted(o)
<1>1. CASE ~s.deferred
    BY <1>1, OkCounted DEF Settle
<1>2. CASE s.deferred
    <2>1. PICK x \in RunStep(s, PendingToken(s), canFail) :
              IF x.st = "OK" THEN o = Ok([x.s EXCEPT !.deferred = FALSE]) ELSE o = x
        BY <1>2 DEF Settle, Then
    <2> QED
        BY <2>1, OkCounted, RunStepCounted
<1> QED
    BY <1>1, <1>2

\* A decode_step behind the settle.
LEMMA DecodeSettledCounted ==
    ASSUME NEW s, NEW o \in DecodeSettled(s)
    PROVE  Counted(o)
BY OutCounted, RefusedCounted DEF DecodeSettled

\* geist_session_decode_step.
LEMMA DecodeStepCounted ==
    ASSUME NEW s, NEW canFail, NEW o \in DecodeStep(s, canFail)
    PROVE  Counted(o)
<1>1. CASE s.cancel
    BY <1>1, RefusedCounted DEF DecodeStep, Cancelled
<1>2. CASE ~s.cancel
    <2>1. PICK x \in Settle(s, canFail) : IF x.st = "OK" THEN o \in DecodeSettled(x.s) ELSE o = x
        BY <1>2 DEF DecodeStep, Then
    <2> QED
        BY <2>1, SettleCounted, DecodeSettledCounted
<1> QED
    BY <1>1, <1>2

\* One sub-batch.
LEMMA PrefillChunkCounted ==
    ASSUME NEW s, NEW ids, NEW last, NEW canFail, NEW o \in PrefillChunk(s, ids, last, canFail)
    PROVE  Counted(o)
BY OkCounted, FailedCounted, RefusedCounted DEF PrefillChunk, Cancelled

\* A prefill of one sub-batch.
LEMMA PrefillOnceCounted ==
    ASSUME NEW s, NEW ids, NEW canFail, NEW o \in PrefillOnce(s, ids, canFail)
    PROVE  Counted(o)
BY PrefillChunkCounted, RefusedCounted DEF PrefillOnce

\* The verify's forward.
LEMMA VerifyForwardCounted ==
    ASSUME NEW s, NEW ids, NEW canFail, NEW o \in VerifyForward(s, ids, canFail)
    PROVE  Counted(o)
<1>1. \/ o \in Refused(s, "INVALID_ARG") \cup Refused(s, "TOO_MANY_TOKENS")
      \/ \E t, toks : o = Out(t, "OK", toks, 0)
      \/ \E t : o = Failed(t)
    BY DEF VerifyForward
<1> QED
    BY <1>1, OutCounted, FailedCounted, RefusedCounted

\* What a copy that fails half way leaves.
HalfBack(s) == [s EXCEPT !.rec = s.txn.rec]

\* deltanet_txn_restore: the saved state, or what a failing copy leaves.
LEMMA TxnRestoresSplit ==
    ASSUME NEW s, NEW canFail, NEW r \in TxnRestores(s, canFail)
    PROVE  /\ Counted(r)
           /\ r.faults = 0 => r.st = "OK" /\ r.s = TxnRestore(s)
           /\ r.faults # 0 => /\ r.st = "BACKEND" /\ canFail /\ s.txn.active
                              /\ r.s = s \/ r.s = HalfBack(s)
<1>1. CASE r = Ok(TxnRestore(s))
    BY <1>1, OkCounted
<1>2. CASE canFail /\ s.txn.active /\ r = Failed(s)
    BY <1>2, FailedCounted
<1>3. CASE canFail /\ s.txn.active /\ r = Failed([s EXCEPT !.rec = s.txn.rec])
    BY <1>3, FailedCounted DEF HalfBack
<1> QED
    BY <1>1, <1>2, <1>3 DEF TxnRestores

\* A replay is a prefill x of the kept beginning, cut to it or taken back.
ReplaySteps(s, n, r, canFail, x, o) ==
    /\ x \in PrefillOnce(Commit(r.s), SubSeq(s.txn.ids, 1, n - s.txn.base), canFail)
    /\ Tallied(o) /\ o.st = x.st /\ o.toks = x.toks
    /\ x.st = "OK" => o.s = Cut(x.s, n) /\ (o.faults = 0 <=> r.faults = 0 /\ x.faults = 0)
    /\ x.st # "OK" => \E u \in TxnRestores([x.s EXCEPT !.txn = s.txn], canFail) :
                         /\ o.s = DropLogits(Commit(u.s))
                         /\ o.faults = 0 <=> r.faults = 0 /\ u.faults = 0 /\ x.faults = 0

LEMMA ReplayedSplit ==
    ASSUME NEW s, NEW n, NEW r, Tallied(r), NEW canFail, NEW o \in Replayed(s, n, r, canFail)
    PROVE  \E x : ReplaySteps(s, n, r, canFail, x, o)
<1> DEFINE ids == SubSeq(s.txn.ids, 1, n - s.txn.base)
<1>1. PICK x \in PrefillOnce(Commit(r.s), ids, canFail) :
         o \in IF x.st = "OK" THEN {After(r, [x EXCEPT !.s = Cut(@, n)])}
               ELSE {After(r, After(u, [x EXCEPT !.s = DropLogits(Commit(u.s))])) :
                        u \in TxnRestores([x.s EXCEPT !.txn = s.txn], canFail)}
    BY DEF Replayed
<1>2. Tallied(x)
    BY PrefillOnceCounted DEF Counted
<1>3. ASSUME NEW z, NEW y, y = [x EXCEPT !.s = z]
      PROVE  Tallied(y) /\ y.s = z /\ y.st = x.st /\ y.toks = x.toks /\ y.faults = x.faults
    BY <1>2, <1>3 DEF Tallied, IsOut
<1>4. CASE x.st = "OK"
    <2>1. PICK z, y : z = Cut(x.s, n) /\ y = [x EXCEPT !.s = z]
        OBVIOUS
    <2>2. o = After(r, y)
        BY <1>1, <1>2, <1>4, <2>1 DEF Tallied, IsOut
    <2>3. Tallied(y) /\ y.s = z /\ y.st = x.st /\ y.toks = x.toks /\ y.faults = x.faults
        BY <1>3, <2>1
    <2>4. /\ Tallied(o) /\ o.s = y.s /\ o.st = y.st /\ o.toks = y.toks
          /\ o.faults = 0 <=> r.faults = 0 /\ y.faults = 0
        BY <2>2, <2>3, AfterTallied
    <2> QED
        BY <1>1, <1>4, <2>1, <2>3, <2>4 DEF ReplaySteps
<1>5. CASE x.st # "OK"
    <2>1. PICK u \in TxnRestores([x.s EXCEPT !.txn = s.txn], canFail) :
              o = After(r, After(u, [x EXCEPT !.s = DropLogits(Commit(u.s))]))
        BY <1>1, <1>5
    <2>2. PICK z, y : z = DropLogits(Commit(u.s)) /\ y = [x EXCEPT !.s = z]
        OBVIOUS
    <2>8. PICK w : w = After(u, y)
        OBVIOUS
    <2>3. o = After(r, w)
        BY <1>2, <2>1, <2>2, <2>8 DEF Tallied, IsOut
    <2>4. Tallied(y) /\ y.s = z /\ y.st = x.st /\ y.toks = x.toks /\ y.faults = x.faults
        BY <1>3, <2>2
    <2>5. Tallied(u)
        BY TxnRestoresSplit DEF Counted
    <2>6. /\ Tallied(w) /\ w.s = y.s /\ w.st = y.st /\ w.toks = y.toks
          /\ w.faults = 0 <=> u.faults = 0 /\ y.faults = 0
        BY <2>4, <2>5, <2>8, AfterTallied
    <2>7. /\ Tallied(o) /\ o.s = w.s /\ o.st = w.st /\ o.toks = w.toks
          /\ o.faults = 0 <=> r.faults = 0 /\ w.faults = 0
        BY <2>3, <2>6, AfterTallied
    <2> QED
        BY <1>1, <1>5, <2>1, <2>2, <2>4, <2>6, <2>7 DEF ReplaySteps
<1> QED
    BY <1>4, <1>5

\* The rollback of a verify.
LEMMA KvTruncateCounted ==
    ASSUME NEW s, NEW n, NEW canFail, NEW o \in KvTruncate(s, n, canFail)
    PROVE  Tallied(o)
<1>1. \/ o \in Refused(s, "INVALID_ARG")
      \/ \E t : o = Ok(t) \/ o = Failed(t)
      \/ \E r \in TxnRestores(s, canFail) : \E t : o = After(r, Ok(t))
      \/ \E r \in TxnRestores(s, canFail) : o \in Replayed(s, n, r, canFail)
    BY DEF KvTruncate
<1>2. \A r \in TxnRestores(s, canFail) : Tallied(r)
    BY TxnRestoresSplit DEF Counted
<1>3. CASE \E r \in TxnRestores(s, canFail) : \E t : o = After(r, Ok(t))
    <2>1. PICK r \in TxnRestores(s, canFail) : \E t : o = After(r, Ok(t))
        BY <1>3
    <2>3. PICK t : o = After(r, Ok(t))
        BY <2>1
    <2>2. Tallied(Ok(t))
        BY OkCounted DEF Counted
    <2> QED
        BY <1>2, <2>2, <2>3, AfterTallied
<1>4. CASE \E r \in TxnRestores(s, canFail) : o \in Replayed(s, n, r, canFail)
    BY <1>2, <1>4, ReplayedSplit DEF ReplaySteps
<1>5. CASE o \in Refused(s, "INVALID_ARG")
    BY <1>5, RefusedCounted DEF Counted
<1>6. CASE \E t : o = Ok(t) \/ o = Failed(t)
    BY <1>6, OkCounted, FailedCounted DEF Counted
<1> QED
    BY <1>1, <1>3, <1>4, <1>5, <1>6

\* The outcomes to which a rejected suffix is rolled back, and the call's steps.
KeptOuts(s, drafts, v, canFail) ==
    IF Accepted(drafts, v.toks) = Len(drafts) - 1 THEN {Ok(v.s)}
    ELSE KvTruncate(v.s, s.kvLen + Accepted(drafts, v.toks) + 1, canFail)

SpecSteps(s, drafts, canFail, v, k, x, o) ==
    /\ Tallied(k) /\ Tallied(x)
    /\ IF k.st = "OK" THEN x \in PrefillOnce(k.s, <<v.toks[Accepted(drafts, v.toks) + 1]>>, canFail) ELSE x = k
    /\ Tallied(o) /\ o.s = x.s /\ o.st = x.st
    /\ o.toks = IF x.st = "OK"
                THEN SubSeq(drafts, 1, Accepted(drafts, v.toks) + 1)
                        \o <<v.toks[Accepted(drafts, v.toks) + 1]>>
                ELSE x.toks
    /\ o.faults = 0 <=> k.faults = 0 /\ x.faults = 0

\* spec_verify is a verify, what it keeps and the correction, in that order.
LEMMA SpecVerifySplit ==
    ASSUME NEW s, NEW drafts, NEW canFail, NEW o \in SpecVerify(s, drafts, canFail)
    PROVE  \E v \in VerifyForward(s, drafts, canFail) :
              /\ v.st # "OK" => o = v
              /\ v.st = "OK" => \E k \in KeptOuts(s, drafts, v, canFail) : \E x :
                                   SpecSteps(s, drafts, canFail, v, k, x, o)
<1>1. PICK v \in VerifyForward(s, drafts, canFail) :
         IF v.st # "OK" THEN o = v
         ELSE LET a == Accepted(drafts, v.toks)
                  correction == v.toks[a + 1]
                  kept == IF a = Len(drafts) - 1 THEN {Ok(v.s)}
                          ELSE KvTruncate(v.s, s.kvLen + a + 1, canFail)
                  pushed == UNION {IF k.st # "OK" THEN {k}
                                   ELSE {After(k, x) : x \in PrefillOnce(k.s, <<correction>>, canFail)}
                                   : k \in kept}
              IN  \E x \in pushed :
                     o = IF x.st = "OK" THEN [x EXCEPT !.toks = SubSeq(drafts, 1, a + 1) \o <<correction>>] ELSE x
    BY ZenonT(60) DEF SpecVerify
<1>2. CASE v.st # "OK"
    BY <1>1, <1>2
<1>3. CASE v.st = "OK"
    <2> DEFINE a == Accepted(drafts, v.toks)
               correction == v.toks[a + 1]
    <2>2. PICK k \in KeptOuts(s, drafts, v, canFail) :
             \E y \in IF k.st # "OK" THEN {k}
                      ELSE {After(k, x) : x \in PrefillOnce(k.s, <<correction>>, canFail)} :
                o = IF y.st = "OK" THEN [y EXCEPT !.toks = SubSeq(drafts, 1, a + 1) \o <<correction>>] ELSE y
        <3> DEFINE Pushed(k) == IF k.st # "OK" THEN {k}
                                ELSE {After(k, x) : x \in PrefillOnce(k.s, <<correction>>, canFail)}
                   Told(y) == IF y.st = "OK" THEN [y EXCEPT !.toks = SubSeq(drafts, 1, a + 1) \o <<correction>>]
                              ELSE y
        <3>1. \E y \in UNION {Pushed(k) : k \in KeptOuts(s, drafts, v, canFail)} : o = Told(y)
            BY <1>1, <1>3, ZenonT(60) DEF KeptOuts
        <3>2. \E k \in KeptOuts(s, drafts, v, canFail) : \E y \in Pushed(k) : o = Told(y)
            <4> HIDE DEF Pushed, Told
            <4> QED
                BY <3>1
        <3> QED
            BY <3>2
    <2>3. PICK y \in IF k.st # "OK" THEN {k}
                     ELSE {After(k, x) : x \in PrefillOnce(k.s, <<correction>>, canFail)} :
                o = IF y.st = "OK" THEN [y EXCEPT !.toks = SubSeq(drafts, 1, a + 1) \o <<correction>>] ELSE y
        BY <2>2
    <2>4. Tallied(k)
        BY OkCounted, KvTruncateCounted DEF KeptOuts, Counted
    <2>5. ASSUME NEW x, Tallied(x), Tallied(y), y.s = x.s, y.st = x.st, y.toks = x.toks,
                 y.faults = 0 <=> k.faults = 0 /\ x.faults = 0,
                 IF k.st = "OK" THEN x \in PrefillOnce(k.s, <<correction>>, canFail) ELSE x = k
          PROVE  SpecSteps(s, drafts, canFail, v, k, x, o)
        <3>1. PICK toks : toks = IF y.st = "OK" THEN SubSeq(drafts, 1, a + 1) \o <<correction>> ELSE y.toks
            OBVIOUS
        <3>2. o = [y EXCEPT !.toks = toks]
            BY <2>3, <2>5, <3>1 DEF Tallied, IsOut
        <3>3. Tallied(o) /\ o.s = y.s /\ o.st = y.st /\ o.toks = toks /\ o.faults = y.faults
            BY <2>5, <3>2 DEF Tallied, IsOut
        <3> QED
            BY <2>4, <2>5, <3>1, <3>3 DEF SpecSteps
    <2>6. CASE k.st # "OK"
        BY <2>2, <2>3, <2>4, <2>5, <2>6, <1>3
    <2>7. CASE k.st = "OK"
        <3>1. PICK x \in PrefillOnce(k.s, <<correction>>, canFail) : y = After(k, x)
            BY <2>3, <2>7
        <3>2. Tallied(x)
            BY PrefillOnceCounted DEF Counted
        <3>3. /\ Tallied(y) /\ y.s = x.s /\ y.st = x.st /\ y.toks = x.toks
              /\ y.faults = 0 <=> k.faults = 0 /\ x.faults = 0
            BY <2>4, <3>1, <3>2, AfterTallied
        <3> QED
            BY <1>3, <2>2, <2>5, <2>7, <3>1, <3>2, <3>3
    <2> QED
        BY <2>6, <2>7
<1> QED
    BY <1>2, <1>3

\* spec_verify counts its failures.
LEMMA SpecVerifyCounted ==
    ASSUME NEW s, NEW drafts, NEW canFail, NEW o \in SpecVerify(s, drafts, canFail)
    PROVE  Tallied(o)
<1>1. PICK v \in VerifyForward(s, drafts, canFail) :
              /\ v.st # "OK" => o = v
              /\ v.st = "OK" => \E k \in KeptOuts(s, drafts, v, canFail) : \E x :
                                   SpecSteps(s, drafts, canFail, v, k, x, o)
    BY SpecVerifySplit
<1> QED
    BY <1>1, VerifyForwardCounted DEF Counted, SpecSteps

\* A call that falls back to a decode_step reports the failure of its settle as well,
\* so that it too may succeed and still count one.
LEMMA VerifyDraftsCounted ==
    ASSUME NEW s, NEW guesses, NEW canFail, NEW o \in VerifyDrafts(s, guesses, canFail)
    PROVE  Tallied(o)
<1>1. CASE guesses = <<>>
    BY <1>1, DecodeStepCounted DEF VerifyDrafts, Counted
<1>2. CASE guesses # <<>>
    <2>1. PICK x \in Settle(s, canFail) :
             IF x.st = "OK" /\ x.s.logitsValid
             THEN o \in SpecVerify(x.s, <<PendingToken(x.s)>> \o guesses, canFail)
             ELSE \E r \in DecodeStep(x.s, canFail) : o = After(x, r)
        BY <1>2 DEF VerifyDrafts
    <2>2. CASE x.st = "OK" /\ x.s.logitsValid
        BY <2>1, <2>2, SpecVerifyCounted
    <2>3. ASSUME NEW r \in DecodeStep(x.s, canFail), o = After(x, r)
          PROVE  Tallied(o)
        BY <2>3, DecodeStepCounted, SettleCounted, AfterTallied DEF Counted
    <2> QED
        BY <2>1, <2>2, <2>3
<1> QED
    BY <1>1, <1>2

\* transformer_checkpoint.
LEMMA CheckpointCounted ==
    ASSUME NEW s, NEW canFail, NEW o \in Checkpoint(s, canFail)
    PROVE  Counted(o)
<1>1. PICK x \in Settle(s, canFail) : IF x.st = "OK" THEN o \in CheckpointSettled(x.s, canFail) ELSE o = x
    BY DEF Checkpoint, Then
<1>2. ASSUME NEW t, o \in CheckpointSettled(t, canFail)
      PROVE  Counted(o)
    <2>1. o \in Refused(t, "UNSUPPORTED") \/ (\E y : o = Ok(y)) \/ (\E y : o = Failed(y))
        BY <1>2 DEF CheckpointSettled
    <2> QED
        BY <2>1, OkCounted, FailedCounted, RefusedCounted
<1> QED
    BY <1>1, <1>2, SettleCounted

\* geist_session_truncate.
LEMMA TruncateCounted ==
    ASSUME NEW s, NEW n, NEW canFail, NEW o \in Truncate(s, n, canFail)
    PROVE  Counted(o)
<1>1. PICK x \in Settle(s, canFail) : IF x.st = "OK" THEN o \in TruncateSettled(x.s, n, canFail) ELSE o = x
    BY DEF Truncate, Then
<1>2. ASSUME NEW t, o \in TruncateSettled(t, n, canFail)
      PROVE  Counted(o)
    <2>1. (\E st : st # "OK" /\ o \in Refused(t, st)) \/ (\E y : o = Ok(y)) \/ (\E y : o = Failed(y))
        BY <1>2 DEF TruncateSettled
    <2> QED
        BY <2>1, OkCounted, FailedCounted, RefusedCounted
<1> QED
    BY <1>1, <1>2, SettleCounted

\* snapshot_restore.
LEMMA RestoreCounted ==
    ASSUME NEW s, NEW img, NEW canFail, NEW o \in Restore(s, img, canFail)
    PROVE  Counted(o)
<1>1. (\E y : o = Ok(y)) \/ (\E y : o = Failed(y))
    BY DEF Restore
<1> QED
    BY <1>1, OkCounted, FailedCounted

-----------------------------------------------------------------------------
(* The invariant of a session in which no backend operation has failed. *)

MaxLens == {m.maxLen : m \in Models}

Typed(s) ==
    /\ IsSession(s)
    /\ s.maxLen \in MaxLens /\ s.rows \in Seq(Tokens)
    /\ s.kvLen \in Nat /\ s.kvLen <= Len(s.rows) /\ s.kvLen <= s.maxLen
    /\ s.prefixLength \in 0 .. s.kvLen

\* The recurrence has absorbed the cached positions; it has no pinned prefix.
Absorbed(s) == s.recurrent => s.rec = Content(s) /\ s.prefixLength = 0

\* The checkpoints are prefixes of the text, the oldest the shortest, and the
\* slot of each holds the recurrence at its length.
Checkpoints(s) ==
    /\ s.ckptLens \in Seq(Nat) /\ Len(s.ckptLens) <= Slots /\ s.ckptBase \in 0 .. Slots - 1
    /\ s.ckptBuf = [i \in 0 .. Slots - 1 |-> s.ckptBuf[i]]
    /\ \A i, j \in 1 .. Len(s.ckptLens) : i <= j => s.ckptLens[i] <= s.ckptLens[j]
    /\ \A j \in 1 .. Len(s.ckptLens) :
          /\ s.ckptLens[j] <= s.kvLen
          /\ s.recurrent => s.ckptBuf[CkptSlot(s, j)] = SubSeq(s.rows, 1, s.ckptLens[j])

Core(s) == Typed(s) /\ Absorbed(s) /\ Checkpoints(s)

\* Pending logits are those of the whole state.
Current(s) == s.logitsValid => s.pending.on = Content(s) /\ s.pending.rec = s.rec

\* Between two calls.
Rest(s) == Core(s) /\ ~s.txn.active /\ Current(s) /\ (s.deferred => s.logitsValid)

\* s and t agree on everything Core is about.
LEMMA CoreSame ==
    ASSUME NEW s, Core(s), NEW t, IsSession(t), SameModel(s, t), SameCkpts(s, t), SameText(s, t),
           t.prefixLength = s.prefixLength
    PROVE  Core(t) /\ Content(t) = Content(s)
<1>1. Content(t) = Content(s)
    BY DEF SameText, Content
<1>2. Typed(t)
    BY DEF Core, Typed, SameModel, SameText
<1>3. Absorbed(t)
    BY <1>1 DEF Core, Absorbed, SameModel, SameText
<1>4. \A j : CkptSlot(t, j) = CkptSlot(s, j)
    BY DEF CkptSlot, SameCkpts
<1>5. Checkpoints(t)
    BY ZenonT(60), <1>4 DEF Core, Checkpoints, SameModel, SameText, SameCkpts
<1> QED
    BY <1>1, <1>2, <1>3, <1>5 DEF Core

\* t has the text of s and what follows it.
LEMMA CoreGrown ==
    ASSUME NEW s, Core(s), NEW t, IsSession(t), SameModel(s, t), SameCkpts(s, t),
           t.prefixLength = s.prefixLength,
           t.rows \in Seq(Tokens), t.kvLen \in Nat, s.kvLen <= t.kvLen, t.kvLen <= Len(t.rows),
           t.kvLen <= s.maxLen,
           \A i \in 1 .. s.kvLen : t.rows[i] = s.rows[i],
           s.recurrent => t.rec = Content(t)
    PROVE  Core(t)
<1>1. /\ s.maxLen \in MaxLens /\ s.rows \in Seq(Tokens) /\ Len(s.rows) \in Nat
      /\ s.kvLen \in Nat /\ s.kvLen <= Len(s.rows) /\ s.prefixLength \in 0 .. s.kvLen
    BY DEF Core, Typed
<1>2. Typed(t)
    BY <1>1 DEF Typed, SameModel
<1>3. Absorbed(t)
    BY DEF Core, Absorbed, SameModel
<1>4. \A j : CkptSlot(t, j) = CkptSlot(s, j)
    BY DEF CkptSlot, SameCkpts
<1>5. ASSUME NEW j \in 1 .. Len(t.ckptLens)
      PROVE  /\ t.ckptLens[j] <= t.kvLen
             /\ t.recurrent => t.ckptBuf[CkptSlot(t, j)] = SubSeq(t.rows, 1, t.ckptLens[j])
    <2>1. /\ t.ckptLens = s.ckptLens /\ t.ckptBuf = s.ckptBuf /\ t.recurrent = s.recurrent
        BY DEF SameCkpts, SameModel
    <2>2. s.ckptLens \in Seq(Nat)
        BY DEF Core, Checkpoints
    <2>3. PICK n \in Nat : n = s.ckptLens[j]
        BY <1>5, <2>1, <2>2, ElementOfSeq
    <2>4. n <= s.kvLen /\ (s.recurrent => s.ckptBuf[CkptSlot(s, j)] = SubSeq(s.rows, 1, n))
        BY <1>5, <2>1, <2>3 DEF Core, Checkpoints
    <2>5. SubSeq(s.rows, 1, n) = SubSeq(t.rows, 1, n)
        <3>1. n \in 0 .. Len(s.rows) /\ n <= Len(t.rows)
            BY <1>1, <2>4
        <3>2. \A i \in 1 .. n : s.rows[i] = t.rows[i]
            BY <1>1, <2>4
        <3> QED
            BY <1>1, <3>1, <3>2, PrefixesAgree
    <2> QED
        BY SMTT(30), <1>1, <1>4, <2>1, <2>3, <2>4, <2>5
<1>6. Checkpoints(t)
    BY <1>5 DEF Core, Checkpoints, SameCkpts
<1> QED
    BY <1>2, <1>3, <1>6 DEF Core

\* What the model predicts is a token.
LEMMA PredictTyped ==
    ASSUME NEW t \in Seq(Tokens), NEW M \in MaxLens, Len(t) <= M
    PROVE  Predict(t) \in Tokens
<1>1. PICK m \in Models : M = m.maxLen
    BY DEF MaxLens
<1>2. M \in Nat
    BY <1>1, SessionConstants
<1>3. Len(t) \in 0 .. m.maxLen /\ t \in [1 .. Len(t) -> Tokens]
    BY <1>1, <1>2, LenProperties
<1> QED
    BY <1>3, SessionConstants

\* The text is a sequence of tokens as long as kvLen.
LEMMA ContentTyped ==
    ASSUME NEW s, Typed(s)
    PROVE  /\ Content(s) \in Seq(Tokens) /\ Len(Content(s)) = s.kvLen
           /\ \A i \in 1 .. s.kvLen : Content(s)[i] = s.rows[i]
           /\ Predict(Content(s)) \in Tokens
<1>1. s.rows \in Seq(Tokens) /\ s.kvLen \in 0 .. Len(s.rows) /\ s.kvLen <= s.maxLen /\ s.maxLen \in MaxLens
    BY DEF Typed
<1>2. /\ Content(s) \in Seq(Tokens) /\ Len(Content(s)) = s.kvLen
      /\ \A i \in 1 .. s.kvLen : Content(s)[i] = s.rows[i]
    BY <1>1, CutText DEF Content
<1> QED
    BY <1>1, <1>2, PredictTyped

\* A forward appends its tokens, to the cache and to the recurrence.
LEMMA AdvancedCore ==
    ASSUME NEW s, Core(s), NEW ids \in Seq(Tokens), RoomFor(s, Len(ids))
    PROVE  LET t == Advanced(s, ids) IN
           /\ Core(t) /\ Content(t) = Content(s) \o ids /\ t.kvLen = s.kvLen + Len(ids)
           /\ \A i \in 1 .. s.kvLen : t.rows[i] = s.rows[i]
           /\ \A a \in 0 .. Len(ids) : SubSeq(t.rows, 1, s.kvLen + a) = Content(s) \o SubSeq(ids, 1, a)
<1> DEFINE t == Advanced(s, ids)
<1>1. /\ IsSession(s) /\ s.rows \in Seq(Tokens) /\ s.kvLen \in 0 .. Len(s.rows) /\ s.kvLen \in Nat
      /\ s.kvLen + Len(ids) <= s.maxLen /\ Len(ids) \in Nat
    BY DEF Core, Typed, RoomFor
<1>2. /\ IsSession(t) /\ SameModel(s, t) /\ SameCkpts(s, t)
      /\ t.rows = SubSeq(s.rows, 1, s.kvLen) \o ids \o SubSeq(s.rows, s.kvLen + Len(ids) + 1, Len(s.rows))
      /\ t.rec = IF s.recurrent THEN s.rec \o ids ELSE s.rec
      /\ t.kvLen = s.kvLen + Len(ids)
      /\ t.prefixLength = s.prefixLength
    BY <1>1, AdvancedFields
<1> HIDE DEF t
<1>3. /\ t.rows \in Seq(Tokens) /\ Len(t.rows) >= s.kvLen + Len(ids) /\ Len(t.rows) \in Nat
      /\ \A i \in 1 .. s.kvLen : t.rows[i] = s.rows[i]
      /\ \A a \in 0 .. Len(ids) : SubSeq(t.rows, 1, s.kvLen + a) = Content(s) \o SubSeq(ids, 1, a)
      /\ SubSeq(t.rows, 1, s.kvLen + Len(ids)) = Content(s) \o ids
    <2>1. t.rows = Splice(s.rows, s.kvLen, ids) /\ Content(s) = SubSeq(s.rows, 1, s.kvLen)
        BY <1>2 DEF Content, Splice
    <2>2. IsSplice(Tokens, s.rows, s.kvLen, ids, Splice(s.rows, s.kvLen, ids))
        BY <1>1, Spliced
    <2> QED
        BY <2>1, <2>2 DEF IsSplice
<1>4. Content(t) = Content(s) \o ids
    BY <1>2, <1>3 DEF Content
<1>5. s.recurrent => t.rec = Content(t)
    BY <1>2, <1>4 DEF Core, Absorbed
<1>6. t.kvLen \in Nat /\ s.kvLen <= t.kvLen /\ t.kvLen <= Len(t.rows) /\ t.kvLen <= s.maxLen
    <2>1. PICK k \in Nat, n \in Nat, L \in Nat : k = s.kvLen /\ n = Len(ids) /\ L = Len(t.rows)
        BY <1>1, <1>3
    <2>2. t.kvLen = k + n /\ L >= k + n /\ k + n <= s.maxLen
        BY <1>1, <1>2, <1>3, <2>1
    <2> QED
        BY <2>1, <2>2
<1>7. Core(t)
    BY <1>2, <1>3, <1>5, <1>6, CoreGrown
<1> QED
    BY <1>2, <1>3, <1>4, <1>7 DEF t

\* New logits are those of the whole state.
LEMMA FinalizedCore ==
    ASSUME NEW s, Core(s)
    PROVE  Core(Finalized(s)) /\ Current(Finalized(s)) /\ Content(Finalized(s)) = Content(s)
<1> DEFINE t == Finalized(s)
<1>1. IsSession(s)
    BY DEF Core, Typed
<1>2. /\ IsSession(t) /\ SameModel(s, t) /\ SameCkpts(s, t) /\ SameText(s, t)
      /\ t.prefixLength = s.prefixLength
      /\ t.pending.on = Content(s) /\ t.pending.rec = s.rec
    BY <1>1, FinalizedFields
<1> HIDE DEF t
<1>3. Core(t) /\ Content(t) = Content(s)
    BY <1>2, CoreSame
<1>4. Current(t)
    BY <1>2, <1>3 DEF Current, SameText
<1> QED
    BY <1>3, <1>4 DEF t

\* Closing the transaction changes nothing the invariant is about.
LEMMA CommitCore ==
    ASSUME NEW s, Core(s)
    PROVE  LET t == Commit(s) IN
           /\ Core(t) /\ Content(t) = Content(s) /\ ~t.txn.active /\ (Current(s) => Current(t))
           /\ SameModel(s, t) /\ SameText(s, t) /\ t.logitsValid = s.logitsValid
           /\ t.deferred = s.deferred /\ t.cancel = s.cancel /\ t.prefixLength = s.prefixLength
<1> DEFINE t == Commit(s)
<1>1. IsSession(s)
    BY DEF Core, Typed
<1>2. /\ IsSession(t) /\ SameModel(s, t) /\ SameCkpts(s, t) /\ SameText(s, t) /\ SameLogits(s, t)
      /\ t.prefixLength = s.prefixLength /\ t.deferred = s.deferred /\ t.cancel = s.cancel
      /\ ~t.txn.active
    BY <1>1, CommitFields
<1> HIDE DEF t
<1>3. Core(t) /\ Content(t) = Content(s)
    BY <1>2, CoreSame
<1>4. Current(s) => Current(t)
    BY <1>2, <1>3 DEF Current, SameText, SameLogits
<1> QED
    BY <1>2, <1>3, <1>4 DEF t, SameLogits

\* Without pending logits there is nothing that could be stale.
LEMMA DropLogitsCore ==
    ASSUME NEW s, Core(s)
    PROVE  LET t == DropLogits(s) IN
           /\ Core(t) /\ Content(t) = Content(s) /\ ~t.logitsValid /\ Current(t)
           /\ SameModel(s, t) /\ SameText(s, t) /\ t.txn = s.txn
           /\ t.deferred = s.deferred /\ t.cancel = s.cancel /\ t.prefixLength = s.prefixLength
<1> DEFINE t == DropLogits(s)
<1>1. IsSession(s)
    BY DEF Core, Typed
<1>2. /\ IsSession(t) /\ SameModel(s, t) /\ SameCkpts(s, t) /\ SameText(s, t)
      /\ t.prefixLength = s.prefixLength /\ t.deferred = s.deferred /\ t.cancel = s.cancel
      /\ t.txn = s.txn /\ t.logitsValid = FALSE
    BY <1>1, DropLogitsFields
<1> HIDE DEF t
<1>3. Core(t) /\ Content(t) = Content(s)
    BY <1>2, CoreSame
<1> QED
    BY <1>2, <1>3 DEF t, Current

\* transformer_decode_step appends its token, or refuses.
LEMMA RunStepCore ==
    ASSUME NEW s, Core(s), Current(s), NEW tok \in Tokens, NEW canFail,
           NEW o \in RunStep(s, tok, canFail), o.faults = 0
    PROVE  /\ Core(o.s) /\ Current(o.s) /\ ~o.s.txn.active
           /\ SameModel(s, o.s) /\ o.s.deferred = s.deferred /\ o.s.cancel = s.cancel
           /\ o.st = "OK" => o.s.logitsValid
           /\ o.st # "OK" => o.s.logitsValid = s.logitsValid
<1> DEFINE c == Commit(s)
           f == Advanced(c, <<tok>>)
<1>1. /\ Core(c) /\ Current(c) /\ ~c.txn.active /\ SameModel(s, c)
      /\ c.logitsValid = s.logitsValid /\ c.deferred = s.deferred /\ c.cancel = s.cancel
      /\ SameText(s, c)
    BY CommitCore
<1>2. CASE ~RoomFor(s, 1)
    <2>1. o \in Refused(c, "TOO_MANY_TOKENS")
        BY <1>2 DEF RunStep
    <2>2. o.s = c /\ o.st = "TOO_MANY_TOKENS"
        BY <2>1, RefusedCounted
    <2> QED
        BY <1>1, <2>2
<1>3. CASE RoomFor(s, 1)
    <2>1. <<tok>> \in Seq(Tokens) /\ Len(<<tok>>) = 1
        OBVIOUS
    <2>2. f = [Forwarded(c, <<tok>>) EXCEPT !.kvLen = @ + 1]
        BY <2>1 DEF Advanced
    <2>3. o = Ok(Finalized(f))
        <3>1. o = Ok(Finalized(f)) \/ \E b : o = Failed(b)
            BY <1>3, <2>2 DEF RunStep
        <3> QED
            BY <3>1, FailedCounted
    <2>4. o.s = Finalized(f) /\ o.st = "OK"
        BY <2>3, OkCounted
    <2>5. RoomFor(c, Len(<<tok>>))
        BY <1>1, <1>3, <2>1 DEF RoomFor, SameModel, SameText
    <2> HIDE DEF c
    <2>6. Core(f)
        BY <1>1, <2>1, <2>5, AdvancedCore
    <2>7. SameModel(c, f) /\ f.deferred = c.deferred /\ f.cancel = c.cancel /\ f.txn = c.txn
        BY <1>1, AdvancedFields DEF Core, Typed
    <2> HIDE DEF f
    <2>8. Core(Finalized(f)) /\ Current(Finalized(f))
        BY <2>6, FinalizedCore
    <2>9. /\ SameModel(f, Finalized(f)) /\ Finalized(f).deferred = f.deferred /\ Finalized(f).cancel = f.cancel
          /\ Finalized(f).txn = f.txn /\ Finalized(f).logitsValid
        BY <2>6, FinalizedFields DEF Core, Typed
    <2> QED
        BY <1>1, <2>4, <2>7, <2>8, <2>9 DEF SameModel
<1> QED
    BY <1>2, <1>3

-----------------------------------------------------------------------------
(* The calls, as long as nothing fails. *)

\* Only what the invariant says of deferred forwards changes.
LEMMA PaidCore ==
    ASSUME NEW s, Core(s), NEW d
    PROVE  LET t == [s EXCEPT !.deferred = d] IN
           /\ Core(t) /\ Content(t) = Content(s) /\ (Current(s) => Current(t))
           /\ SameModel(s, t) /\ SameText(s, t) /\ SameCkpts(s, t) /\ t.logitsValid = s.logitsValid
           /\ t.txn = s.txn /\ t.deferred = d /\ t.cancel = s.cancel
           /\ t.prefixLength = s.prefixLength
<1> DEFINE t == [s EXCEPT !.deferred = d]
<1>1. IsSession(s)
    BY DEF Core, Typed
<1>2. /\ IsSession(t) /\ SameModel(s, t) /\ SameText(s, t) /\ SameCkpts(s, t) /\ SameLogits(s, t)
      /\ t.txn = s.txn /\ t.deferred = d /\ t.cancel = s.cancel
      /\ t.prefixLength = s.prefixLength
    BY <1>1 DEF IsSession, SameModel, SameText, SameCkpts, SameLogits
<1> HIDE DEF t
<1>3. Core(t) /\ Content(t) = Content(s)
    BY <1>2, CoreSame
<1>4. Current(s) => Current(t)
    BY <1>2, <1>3 DEF Current, SameText, SameLogits
<1> QED
    BY <1>2, <1>3, <1>4 DEF t, SameLogits

\* Settling pays the owed forward, or leaves it owed when there is no room.
LEMMA SettleRest ==
    ASSUME NEW s, Rest(s), NEW canFail, NEW o \in Settle(s, canFail), o.faults = 0
    PROVE  /\ Rest(o.s) /\ SameModel(s, o.s) /\ o.s.cancel = s.cancel
           /\ o.st = "OK" => ~o.s.deferred
<1>1. Core(s) /\ Current(s) /\ ~s.txn.active
    BY DEF Rest
<1>2. CASE ~s.deferred
    <2>1. o = Ok(s)
        BY <1>2 DEF Settle
    <2> QED
        BY <1>2, <2>1, OkCounted DEF SameModel
<1>3. CASE s.deferred
    <2>1. PICK x \in RunStep(s, PendingToken(s), canFail) :
              IF x.st = "OK" THEN o = Ok([x.s EXCEPT !.deferred = FALSE]) ELSE o = x
        BY <1>3 DEF Settle, Then
    <2>2. PendingToken(s) \in Tokens
        <3>1. s.pending.on = Content(s)
            BY <1>1, <1>3 DEF Rest, Current
        <3> QED
            BY <1>1, <3>1, ContentTyped DEF PendingToken, Core
    <2>3. x.faults = 0
        BY <2>1, RunStepCounted DEF Counted, Tallied
    <2>4. /\ Core(x.s) /\ Current(x.s) /\ ~x.s.txn.active
          /\ SameModel(s, x.s) /\ x.s.deferred = s.deferred /\ x.s.cancel = s.cancel
          /\ x.st # "OK" => x.s.logitsValid = s.logitsValid
        BY <1>1, <2>2, <2>3, RunStepCore
    <2>5. CASE x.st = "OK"
        <3>1. o.s = [x.s EXCEPT !.deferred = FALSE]
            BY <2>1, <2>5, OkCounted
        <3> DEFINE t == [x.s EXCEPT !.deferred = FALSE]
        <3>2. /\ Core(t) /\ Current(t) /\ ~t.txn.active /\ ~t.deferred /\ t.cancel = x.s.cancel /\ SameModel(x.s, t)
            BY <2>4, PaidCore
        <3> HIDE DEF t
        <3>3. Rest(t) /\ SameModel(s, t)
            BY <2>4, <3>2 DEF Rest, SameModel
        <3> QED
            BY <2>4, <3>1, <3>2, <3>3 DEF t
    <2>6. CASE x.st # "OK"
        BY <2>1, <2>4, <2>6 DEF Rest
    <2> QED
        BY <2>5, <2>6
<1> QED
    BY <1>2, <1>3

\* The request to cancel is reported and goes away.
LEMMA UncancelledCore ==
    ASSUME NEW s, Core(s), NEW x
    PROVE  LET t == [s EXCEPT !.cancel = x] IN
           /\ Core(t) /\ Content(t) = Content(s) /\ (Current(s) => Current(t))
           /\ SameModel(s, t) /\ SameText(s, t) /\ SameCkpts(s, t) /\ t.logitsValid = s.logitsValid
           /\ t.txn = s.txn /\ t.deferred = s.deferred
           /\ t.prefixLength = s.prefixLength
<1> DEFINE t == [s EXCEPT !.cancel = x]
<1>1. IsSession(s)
    BY DEF Core, Typed
<1>2. /\ IsSession(t) /\ SameModel(s, t) /\ SameText(s, t) /\ SameCkpts(s, t) /\ SameLogits(s, t)
      /\ t.txn = s.txn /\ t.deferred = s.deferred
      /\ t.prefixLength = s.prefixLength
    BY <1>1 DEF IsSession, SameModel, SameText, SameCkpts, SameLogits
<1> HIDE DEF t
<1>3. Core(t) /\ Content(t) = Content(s)
    BY <1>2, CoreSame
<1>4. Current(s) => Current(t)
    BY <1>2, <1>3 DEF Current, SameText, SameLogits
<1> QED
    BY <1>2, <1>3, <1>4 DEF t, SameLogits

\* geist_session_decode_step leaves a state at rest.
LEMMA DecodeStepRest ==
    ASSUME NEW s, Rest(s), NEW canFail, NEW o \in DecodeStep(s, canFail), o.faults = 0
    PROVE  Rest(o.s) /\ SameModel(s, o.s)
<1>1. CASE s.cancel
    <2> DEFINE t == [s EXCEPT !.cancel = FALSE]
    <2>1. o \in Refused(t, "CANCELLED")
        BY <1>1 DEF DecodeStep, Cancelled
    <2> HIDE DEF t
    <2>2. o.s = t
        BY <2>1, RefusedCounted
    <2>3. Core(t) /\ Current(t) /\ SameModel(s, t) /\ t.logitsValid = s.logitsValid /\ t.txn = s.txn /\ t.deferred = s.deferred
        BY UncancelledCore DEF Rest, t
    <2> QED
        BY <2>2, <2>3 DEF Rest
<1>2. CASE ~s.cancel
    <2>1. PICK x \in Settle(s, canFail) : IF x.st = "OK" THEN o \in DecodeSettled(x.s) ELSE o = x
        BY <1>2 DEF DecodeStep, Then
    <2>2. x.faults = 0
        BY <2>1, SettleCounted DEF Counted, Tallied
    <2>3. Rest(x.s) /\ SameModel(s, x.s) /\ (x.st = "OK" => ~x.s.deferred)
        BY <2>2, SettleRest
    <2>4. CASE x.st # "OK"
        BY <2>1, <2>3, <2>4
    <2>5. CASE x.st = "OK"
        <3> DEFINE c == Commit(x.s)
        <3>1. o \in DecodeSettled(x.s)
            BY <2>1, <2>5
        <3>2. /\ Core(c) /\ Current(c) /\ ~c.txn.active /\ SameModel(x.s, c) /\ c.logitsValid = x.s.logitsValid
              /\ c.deferred = x.s.deferred
            BY <2>3, CommitCore DEF Rest
        <3>3. CASE ~x.s.logitsValid
            <4>1. o \in Refused(x.s, "INVALID_STATE")
                BY <3>1, <3>3 DEF DecodeSettled
            <4> QED
                BY <2>3, <4>1, RefusedCounted
        <3>4. CASE x.s.logitsValid /\ ~RoomFor(x.s, 1)
            <4>1. o \in Refused(c, "TOO_MANY_TOKENS")
                BY <3>1, <3>4 DEF DecodeSettled
            <4> HIDE DEF c
            <4>2. o.s = c
                BY <4>1, RefusedCounted
            <4>3. SameModel(s, c)
                BY <2>3, <3>2 DEF SameModel
            <4> QED
                BY <3>2, <3>4, <4>2, <4>3 DEF Rest
        <3>5. CASE x.s.logitsValid /\ RoomFor(x.s, 1)
            <4> DEFINE d == [c EXCEPT !.deferred = TRUE]
            <4>1. o = Out(d, "OK", <<PendingToken(x.s)>>, 0)
                BY <3>1, <3>5 DEF DecodeSettled
            <4> HIDE DEF c
            <4>2. Core(d) /\ Current(d) /\ SameModel(c, d) /\ d.logitsValid = c.logitsValid /\ d.txn = c.txn
                BY <3>2, PaidCore
            <4> HIDE DEF d
            <4>3. o.s = d
                BY <4>1, OutCounted
            <4>4. SameModel(s, d)
                BY <2>3, <3>2, <4>2 DEF SameModel
            <4> QED
                BY <3>2, <3>5, <4>2, <4>3, <4>4 DEF Rest
        <3> QED
            BY <3>3, <3>4, <3>5
    <2> QED
        BY <2>4, <2>5
<1> QED
    BY <1>1, <1>2

\* One sub-batch: it absorbs its tokens, or sees the cancel.
ChunkDone(s, ids, last, o) ==
    /\ Core(o.s) /\ ~o.s.txn.active /\ SameModel(s, o.s) /\ SameCkpts(s, o.s)
    /\ o.s.deferred = s.deferred /\ o.s.prefixLength = s.prefixLength
    /\ \A i \in 1 .. s.kvLen : o.s.rows[i] = s.rows[i]
    /\ o.st = "OK" => /\ Content(o.s) = Content(s) \o ids /\ o.s.kvLen = s.kvLen + Len(ids)
                      /\ last => Current(o.s) /\ o.s.logitsValid
    /\ o.st # "OK" => o.s.kvLen = s.kvLen /\ ~o.s.logitsValid

\* One sub-batch keeps the invariant; the last one has new logits.
LEMMA PrefillChunkCore ==
    ASSUME NEW s, Core(s), ~s.txn.active, NEW ids \in Seq(Tokens), RoomFor(s, Len(ids)), NEW last \in BOOLEAN,
           NEW canFail, NEW o \in PrefillChunk(s, ids, last, canFail), o.faults = 0
    PROVE  ChunkDone(s, ids, last, o)
<1>1. CASE s.cancel
    <2> DEFINE u == [s EXCEPT !.logitsValid = FALSE]
               t == [u EXCEPT !.cancel = FALSE]
    <2>1. o \in Refused(t, "CANCELLED")
        BY <1>1 DEF PrefillChunk, Cancelled
    <2>2. o.s = t /\ o.st = "CANCELLED"
        BY <2>1, RefusedCounted
    <2>3. IsSession(s)
        BY DEF Core, Typed
    <2>4. /\ IsSession(u) /\ SameModel(s, u) /\ SameText(s, u) /\ SameCkpts(s, u)
          /\ u.txn = s.txn /\ u.deferred = s.deferred /\ u.prefixLength = s.prefixLength /\ u.logitsValid = FALSE
        BY <2>3 DEF IsSession, SameModel, SameText, SameCkpts
    <2> HIDE DEF u
    <2>5. /\ IsSession(t) /\ SameModel(u, t) /\ SameText(u, t) /\ SameCkpts(u, t)
          /\ t.txn = u.txn /\ t.deferred = u.deferred /\ t.prefixLength = u.prefixLength
          /\ t.logitsValid = u.logitsValid
        BY <2>4 DEF IsSession, SameModel, SameText, SameCkpts
    <2> HIDE DEF t
    <2>6. SameModel(s, t) /\ SameText(s, t) /\ SameCkpts(s, t)
        BY <2>4, <2>5 DEF SameModel, SameText, SameCkpts
    <2>7. Core(t)
        BY <2>4, <2>5, <2>6, CoreSame
    <2> QED
        BY <2>2, <2>4, <2>5, <2>6, <2>7 DEF SameText, ChunkDone
<1>2. CASE ~s.cancel
    <2> DEFINE f == Advanced(s, ids)
    <2>1. o = Ok(IF last THEN Finalized(f) ELSE f)
        <3>1. o = Ok(IF last THEN Finalized(f) ELSE f) \/ \E b : o = Failed(b)
            BY <1>2 DEF PrefillChunk, Advanced
        <3> QED
            BY <3>1, FailedCounted
    <2>2. o.s = (IF last THEN Finalized(f) ELSE f) /\ o.st = "OK"
        BY <2>1, OkCounted
    <2>3. /\ Core(f) /\ Content(f) = Content(s) \o ids /\ f.kvLen = s.kvLen + Len(ids)
          /\ \A i \in 1 .. s.kvLen : f.rows[i] = s.rows[i]
        BY AdvancedCore
    <2>4. SameModel(s, f) /\ SameCkpts(s, f) /\ f.deferred = s.deferred /\ f.prefixLength = s.prefixLength /\ f.txn = s.txn
        BY AdvancedFields DEF Core, Typed
    <2> HIDE DEF f
    <2>5. CASE ~last
        BY <2>2, <2>3, <2>4, <2>5 DEF ChunkDone
    <2>6. CASE last
        <3> DEFINE t == Finalized(f)
        <3>1. Core(t) /\ Current(t) /\ Content(t) = Content(f)
            BY <2>3, FinalizedCore
        <3>2. /\ SameModel(f, t) /\ SameCkpts(f, t) /\ SameText(f, t) /\ t.deferred = f.deferred
              /\ t.prefixLength = f.prefixLength /\ t.txn = f.txn /\ t.logitsValid
            BY <2>3, FinalizedFields DEF Core, Typed
        <3> HIDE DEF t
        <3>3. SameModel(s, t) /\ SameCkpts(s, t) /\ t.rows = f.rows /\ t.kvLen = f.kvLen
            BY <2>4, <3>2 DEF SameModel, SameCkpts, SameText
        <3> QED
            BY <2>2, <2>3, <2>4, <2>6, <3>1, <3>2, <3>3 DEF t, ChunkDone
    <2> QED
        BY <2>5, <2>6
<1> QED
    BY <1>1, <1>2

\* The same of a prefill that checks its room and closes the transaction.
LEMMA PrefillOnceCore ==
    ASSUME NEW s, Core(s), NEW ids \in Seq(Tokens), NEW canFail,
           NEW o \in PrefillOnce(s, ids, canFail), o.faults = 0
    PROVE  /\ Core(o.s) /\ ~o.s.txn.active /\ SameModel(s, o.s) /\ SameCkpts(s, o.s)
           /\ o.s.deferred = s.deferred /\ o.s.prefixLength = s.prefixLength
           /\ \A i \in 1 .. s.kvLen : o.s.rows[i] = s.rows[i]
           /\ Current(s) => Current(o.s)
           /\ o.st = "OK" => /\ Content(o.s) = Content(s) \o ids /\ o.s.kvLen = s.kvLen + Len(ids)
                             /\ Current(o.s) /\ o.s.logitsValid
           /\ o.st # "OK" => o.s.kvLen = s.kvLen /\ (RoomFor(s, Len(ids)) => ~o.s.logitsValid)
<1> DEFINE c == Commit(s)
<1>1. /\ Core(c) /\ Content(c) = Content(s) /\ ~c.txn.active /\ (Current(s) => Current(c))
      /\ SameModel(s, c) /\ SameText(s, c)
      /\ c.deferred = s.deferred /\ c.prefixLength = s.prefixLength
    BY CommitCore
<1>2. SameCkpts(s, c)
    BY CommitFields DEF Core, Typed
<1>3. CASE ~RoomFor(s, Len(ids))
    <2>1. o \in Refused(c, "TOO_MANY_TOKENS")
        BY <1>3 DEF PrefillOnce
    <2> HIDE DEF c
    <2>2. o.s = c /\ o.st = "TOO_MANY_TOKENS"
        BY <2>1, RefusedCounted
    <2> QED
        BY <1>1, <1>2, <1>3, <2>2 DEF SameText
<1>4. CASE RoomFor(s, Len(ids))
    <2>1. o \in PrefillChunk(c, ids, TRUE, canFail)
        BY <1>4 DEF PrefillOnce
    <2> HIDE DEF c
    <2>2. RoomFor(c, Len(ids))
        BY <1>1, <1>4 DEF RoomFor, SameModel, SameText
    <2>3. /\ Core(o.s) /\ ~o.s.txn.active /\ SameModel(c, o.s) /\ SameCkpts(c, o.s)
          /\ o.s.deferred = c.deferred /\ o.s.prefixLength = c.prefixLength
          /\ \A i \in 1 .. c.kvLen : o.s.rows[i] = c.rows[i]
          /\ o.st = "OK" => /\ Content(o.s) = Content(c) \o ids /\ o.s.kvLen = c.kvLen + Len(ids)
                            /\ Current(o.s) /\ o.s.logitsValid
          /\ o.st # "OK" => o.s.kvLen = c.kvLen /\ ~o.s.logitsValid
        <3>1. PICK y \in BOOLEAN : y = TRUE
            OBVIOUS
        <3>2. o \in PrefillChunk(c, ids, y, canFail)
            BY <2>1, <3>1
        <3>3. ChunkDone(c, ids, y, o)
            BY <1>1, <2>2, <3>2, PrefillChunkCore
        <3> QED
            BY <3>1, <3>3 DEF ChunkDone
    <2>4. SameModel(s, o.s) /\ SameCkpts(s, o.s) /\ c.rows = s.rows /\ c.kvLen = s.kvLen
        BY <1>1, <1>2, <2>3 DEF SameModel, SameCkpts, SameText
    <2>5. Current(o.s)
        BY <2>3 DEF Current
    <2> QED
        BY <1>1, <2>3, <2>4, <2>5
<1> QED
    BY <1>3, <1>4

-----------------------------------------------------------------------------
(* The speculative transaction. *)

\* v is s after a verify of ids.
Verified(s, ids, v) ==
    /\ Core(v) /\ Current(v) /\ SameModel(s, v) /\ SameCkpts(s, v)
    /\ v.deferred = s.deferred /\ v.prefixLength = s.prefixLength
    /\ v.kvLen = s.kvLen + Len(ids)
    /\ \A i \in 1 .. s.kvLen : v.rows[i] = s.rows[i]
    /\ \A a \in 0 .. Len(ids) : SubSeq(v.rows, 1, s.kvLen + a) = Content(s) \o SubSeq(ids, 1, a)
    /\ ~s.recurrent => ~v.txn.active
    /\ s.recurrent => /\ v.txn.active /\ v.txn.base = s.kvLen /\ v.txn.ids = ids /\ v.txn.rec = s.rec
                      /\ v.txn.rowsOk => \A i \in 1 .. Len(ids) - 1 : v.txn.rows[i] = s.rec \o SubSeq(ids, 1, i)

\* verify_forward saves what a rollback needs, on recurrent sessions only.
LEMMA TxnBeginFields ==
    ASSUME NEW s, IsSession(s), s.txn.active => s.recurrent, NEW ids
    PROVE  LET t == TxnBegin(s, ids) IN
           /\ IsSession(t) /\ SameModel(s, t) /\ SameCkpts(s, t) /\ SameText(s, t) /\ SameLogits(s, t)
           /\ t.prefixLength = s.prefixLength /\ t.deferred = s.deferred /\ t.cancel = s.cancel
           /\ ~s.recurrent => ~t.txn.active
           /\ s.recurrent => /\ t.txn.active /\ t.txn.base = s.kvLen /\ t.txn.ids = ids /\ t.txn.rec = s.rec
                             /\ t.txn.rowsOk => \A i \in 1 .. Len(ids) - 1 : t.txn.rows[i] = s.rec \o SubSeq(ids, 1, i)
<1>1. CASE ~s.recurrent
    <2>1. TxnBegin(s, ids) = s
        BY <1>1 DEF TxnBegin
    <2> QED
        BY <1>1, <2>1 DEF SameModel, SameCkpts, SameText, SameLogits
<1>2. CASE s.recurrent
    <2> DEFINE k == Len(ids)
               req == ~s.rowsOff /\ k >= 2 /\ k - 1 <= RowSlots
    <2>1. PICK r : r = IF req /\ s.keepsRows THEN RowStates(s, ids) ELSE s.txn.rows
        OBVIOUS
    <2>2. PICK ok \in BOOLEAN : ok = (req /\ s.keepsRows)
        <3>1. (req /\ s.keepsRows) \in BOOLEAN
            OBVIOUS
        <3> QED
            BY <3>1
    <2>3. PICK x : x = [active |-> TRUE, base |-> s.kvLen, ids |-> ids, rec |-> s.rec, mtp |-> s.mtp,
                        rowsOk |-> ok, rows |-> r]
        OBVIOUS
    <2>4. TxnBegin(s, ids) = [s EXCEPT !.txn = x]
        BY <1>2, <2>1, <2>2, <2>3 DEF TxnBegin
    <2>5. x.active /\ x.base = s.kvLen /\ x.ids = ids /\ x.rec = s.rec /\ x.rowsOk = ok /\ x.rows = r
        BY <2>3
    <2>6. x.rowsOk => \A i \in 1 .. Len(ids) - 1 : x.rows[i] = s.rec \o SubSeq(ids, 1, i)
        <3>1. ok => r = [i \in 1 .. Len(ids) - 1 |-> s.rec \o SubSeq(ids, 1, i)]
            BY <2>1, <2>2 DEF RowStates
        <3> QED
            BY <2>5, <3>1
    <2> HIDE DEF k, req
    <2> DEFINE t == [s EXCEPT !.txn = x]
    <2>7. /\ IsSession(t) /\ SameModel(s, t) /\ SameCkpts(s, t) /\ SameText(s, t) /\ SameLogits(s, t)
          /\ t.prefixLength = s.prefixLength /\ t.deferred = s.deferred /\ t.cancel = s.cancel
          /\ t.txn = x
        BY DEF IsSession, SameModel, SameCkpts, SameText, SameLogits
    <2> HIDE DEF t
    <2> QED
        BY <1>2, <2>4, <2>5, <2>6, <2>7 DEF t
<1> QED
    BY <1>1, <1>2

\* A verify that succeeds feeds its ids; one that is refused changes nothing.
VerifyDone(s, ids, o) ==
    /\ o.st # "OK" => o.s = s
    /\ o.st = "OK" => /\ RoomFor(s, Len(ids)) /\ Verified(s, ids, o.s) /\ o.s.logitsValid
                      /\ o.toks = [i \in 1 .. Len(ids) |-> Predict(Content(s) \o SubSeq(ids, 1, i))]

\* A verify is a forward of all its ids, in a transaction.
LEMMA VerifyForwardCore ==
    ASSUME NEW s, Core(s), ~s.txn.active, NEW ids \in Seq(Tokens), NEW canFail,
           NEW o \in VerifyForward(s, ids, canFail), o.faults = 0
    PROVE  VerifyDone(s, ids, o)
<1> DEFINE b == TxnBegin(s, ids)
           f == Advanced(b, ids)
           d == DropLogits(f)
           n == Finalized(d)
           v == [n EXCEPT !.rowsOff = @ \/ RowsMissing(d)]
           toks == [i \in 1 .. Len(ids) |-> Predict(Content(s) \o SubSeq(ids, 1, i))]
<1>1. CASE Len(ids) > MMax \/ ~RoomFor(s, Len(ids))
    <2>1. PICK st : st # "OK" /\ o \in Refused(s, st)
        BY <1>1 DEF VerifyForward
    <2> QED
        BY <2>1, RefusedCounted DEF VerifyDone
<1>2. CASE ~(Len(ids) > MMax) /\ RoomFor(s, Len(ids))
    <2>1. o = Out(v, "OK", toks, 0)
        <3>1. o = Out(v, "OK", toks, 0) \/ \E x : o = Failed(x)
            BY <1>2 DEF VerifyForward, Advanced
        <3> QED
            BY <3>1, FailedCounted
    <2>2. o.s = v /\ o.st = "OK" /\ o.toks = toks
        BY <2>1, OutCounted
    <2>3. /\ IsSession(b) /\ SameModel(s, b) /\ SameCkpts(s, b) /\ SameText(s, b)
          /\ b.prefixLength = s.prefixLength /\ b.deferred = s.deferred
          /\ ~s.recurrent => ~b.txn.active
          /\ s.recurrent => /\ b.txn.active /\ b.txn.base = s.kvLen /\ b.txn.ids = ids /\ b.txn.rec = s.rec
                            /\ b.txn.rowsOk => \A i \in 1 .. Len(ids) - 1 : b.txn.rows[i] = s.rec \o SubSeq(ids, 1, i)
        BY TxnBeginFields DEF Core, Typed
    <2> HIDE DEF b
    <2>4. Core(b) /\ Content(b) = Content(s)
        BY <2>3, CoreSame
    <2>5. RoomFor(b, Len(ids))
        BY <1>2, <2>3 DEF RoomFor, SameModel, SameText
    <2>6. /\ Core(f) /\ f.kvLen = b.kvLen + Len(ids)
          /\ \A i \in 1 .. b.kvLen : f.rows[i] = b.rows[i]
          /\ \A a \in 0 .. Len(ids) : SubSeq(f.rows, 1, b.kvLen + a) = Content(b) \o SubSeq(ids, 1, a)
        BY <2>4, <2>5, AdvancedCore
    <2>7. SameModel(b, f) /\ SameCkpts(b, f) /\ f.prefixLength = b.prefixLength /\ f.deferred = b.deferred /\ f.txn = b.txn
        BY <2>3, AdvancedFields
    <2> HIDE DEF f
    <2>8. Core(d) /\ SameModel(f, d) /\ SameText(f, d) /\ d.txn = f.txn /\ d.deferred = f.deferred /\ d.prefixLength = f.prefixLength
        BY <2>6, DropLogitsCore
    <2>9. SameCkpts(f, d)
        BY <2>6, DropLogitsFields DEF Core, Typed
    <2> HIDE DEF d
    <2>10. Core(n) /\ Current(n)
        BY <2>8, FinalizedCore
    <2>11. /\ IsSession(n) /\ SameModel(d, n) /\ SameCkpts(d, n) /\ SameText(d, n) /\ n.prefixLength = d.prefixLength
           /\ n.deferred = d.deferred /\ n.txn = d.txn /\ n.logitsValid
        BY <2>8, FinalizedFields DEF Core, Typed
    <2> HIDE DEF n
    <2>12. /\ IsSession(v) /\ SameModel(n, v) /\ SameCkpts(n, v) /\ SameText(n, v) /\ SameLogits(n, v)
           /\ v.prefixLength = n.prefixLength
           /\ v.deferred = n.deferred /\ v.txn = n.txn
        <3>1. PICK x : x = (n.rowsOff \/ RowsMissing(d))
            OBVIOUS
        <3>2. v = [n EXCEPT !.rowsOff = x]
            BY <2>11, <3>1 DEF IsSession
        <3> QED
            BY <2>11, <3>2 DEF IsSession, SameModel, SameCkpts, SameText, SameLogits
    <2> HIDE DEF v
    <2>13. Core(v) /\ Content(v) = Content(n)
        BY <2>10, <2>12, CoreSame
    <2>14. Current(v) /\ v.logitsValid
        BY <2>10, <2>11, <2>12, <2>13 DEF Current, SameText, SameLogits
    <2>15. SameModel(s, v)
        BY <2>3, <2>7, <2>8, <2>11, <2>12 DEF SameModel
    <2>16. SameCkpts(s, v)
        BY <2>3, <2>7, <2>9, <2>11, <2>12 DEF SameCkpts
    <2>17. v.rows = f.rows /\ v.kvLen = f.kvLen /\ v.txn = b.txn /\ v.deferred = s.deferred /\ v.prefixLength = s.prefixLength
        BY <2>3, <2>7, <2>8, <2>11, <2>12 DEF SameText
    <2>18. b.rows = s.rows /\ b.kvLen = s.kvLen
        BY <2>3 DEF SameText
    <2>19. Verified(s, ids, v)
        BY ZenonT(60), <2>3, <2>4, <2>6, <2>13, <2>14, <2>15, <2>16, <2>17, <2>18 DEF Verified
    <2> QED
        BY <1>2, <2>2, <2>14, <2>19 DEF VerifyDone
<1> QED
    BY <1>1, <1>2

\* A set of numbers has a least one.
LEMMA LeastNumber ==
    ASSUME NEW S \in SUBSET Nat, S # {}
    PROVE  \E m \in S : \A k \in S : m <= k
<1> DEFINE Less == {ss \in Nat \X Nat : ss[1] < ss[2]}
<1>1. IsWellFoundedOn(Less, Nat)
    BY NatLessThanWellFounded DEF OpToRel
<1> HIDE DEF Less
<1>2. PICK m \in S : \A k \in S : ~ (<<k, m>> \in Less)
    BY <1>1, WFMin
<1>3. \A k \in S : ~ (k < m)
    BY <1>2 DEF Less
<1> QED
    BY <1>3

\* There is a longest accepted prefix, and it leaves at least the seed.
LEMMA AcceptedRange ==
    ASSUME NEW drafts, NEW n \in Nat, Len(drafts) = n, n > 0, NEW verified
    PROVE  Accepted(drafts, verified) \in 0 .. n - 1
<1> DEFINE Ends == {a \in 0 .. n - 1 : a = n - 1 \/ verified[a + 1] # drafts[a + 2]}
<1>1. Ends \in SUBSET Nat
    OBVIOUS
<1>2. n - 1 \in Ends
    OBVIOUS
<1>3. PICK a \in Ends : \A k \in Ends : a <= k
    <2> HIDE DEF Ends
    <2> QED
        BY <1>1, <1>2, LeastNumber
<1>4. \A i \in 1 .. a : verified[i] = drafts[i + 1]
    <2>1. TAKE i \in 1 .. a
    <2>2. i - 1 \in 0 .. n - 1 /\ i - 1 \notin Ends
        BY <1>3
    <2>3. verified[i - 1 + 1] = drafts[i - 1 + 2]
        BY <2>2
    <2>4. i - 1 + 1 = i /\ i - 1 + 2 = i + 1
        OBVIOUS
    <2> QED
        BY <2>3, <2>4
<1>5. a \in 0 .. Len(drafts) - 1 /\ (a = Len(drafts) - 1 \/ verified[a + 1] # drafts[a + 2])
    BY <1>3
<1> QED
    BY <1>4, <1>5 DEF Accepted

\* t is s with b of the ids, as its verify v fed them.
KeptAt(s, ids, v, b, t) ==
    /\ Core(t) /\ SameModel(s, t) /\ SameCkpts(s, t) /\ t.prefixLength = s.prefixLength
    /\ \A i \in 1 .. s.kvLen : t.rows[i] = s.rows[i]

\* A verified session cut back to b of the ids, its recurrence with it.
LEMMA KeptCore ==
    ASSUME NEW s, Core(s), NEW ids \in Seq(Tokens), NEW v, Verified(s, ids, v), NEW b \in 0 .. Len(ids),
           NEW t, IsSession(t), SameModel(v, t), SameCkpts(v, t), t.prefixLength = v.prefixLength,
           t.rows = v.rows, t.kvLen = s.kvLen + b,
           s.recurrent => t.rec = Content(s) \o SubSeq(ids, 1, b)
    PROVE  KeptAt(s, ids, v, b, t)
<1>1. /\ Core(v) /\ SameModel(s, v) /\ SameCkpts(s, v) /\ v.prefixLength = s.prefixLength
      /\ v.kvLen = s.kvLen + Len(ids)
      /\ \A i \in 1 .. s.kvLen : v.rows[i] = s.rows[i]
      /\ SubSeq(v.rows, 1, s.kvLen + b) = Content(s) \o SubSeq(ids, 1, b)
    BY DEF Verified
<1>2. SameModel(s, t) /\ SameCkpts(s, t) /\ t.prefixLength = s.prefixLength
    BY <1>1 DEF SameModel, SameCkpts
<1>3. PICK k \in Nat, n \in Nat, L \in Nat, M \in Nat :
          k = s.kvLen /\ n = Len(ids) /\ L = Len(v.rows) /\ M = s.maxLen
    <2>1. s.maxLen \in Nat
        <3>1. PICK m \in Models : s.maxLen = m.maxLen
            BY DEF Core, Typed, MaxLens
        <3> QED
            BY <3>1, SessionConstants
    <2>2. s.kvLen \in Nat /\ v.rows \in Seq(Tokens)
        BY <1>1 DEF Core, Typed
    <2> QED
        BY <2>1, <2>2
<1>4. k + n <= L /\ k + n <= M /\ v.rows \in Seq(Tokens)
    BY <1>1, <1>3 DEF Core, Typed, SameModel
<1>5. t.kvLen = k + b /\ k + b \in Nat /\ k <= k + b /\ k + b <= L /\ k + b <= M
    BY <1>3, <1>4
<1>6. Content(t) = Content(s) \o SubSeq(ids, 1, b)
    BY <1>1 DEF Content
<1>7. Core(t)
    BY <1>1, <1>2, <1>3, <1>4, <1>5, <1>6, CoreGrown
<1> QED
    BY <1>1, <1>2, <1>7 DEF KeptAt

\* The saved state comes back; the rows stay.
LEMMA TxnRestoreFields ==
    ASSUME NEW s, IsSession(s), s.txn.active
    PROVE  LET t == TxnRestore(s) IN
           /\ IsSession(t) /\ SameModel(s, t) /\ SameCkpts(s, t) /\ SameLogits(s, t)
           /\ t.rows = s.rows /\ t.rec = s.txn.rec /\ t.kvLen = s.txn.base
           /\ t.prefixLength = s.prefixLength /\ t.deferred = s.deferred
<1>1. PICK r, m, k : r = s.txn.rec /\ m = s.txn.mtp /\ k = s.txn.base
    OBVIOUS
<1>2. TxnRestore(s) = [s EXCEPT !.rec = r, !.mtp = m, !.kvLen = k]
    BY <1>1 DEF TxnRestore, IsSession
<1> QED
    BY <1>1, <1>2 DEF IsSession, SameModel, SameCkpts, SameLogits

\* A rolled-back verify: a of its ids are kept, or none when the replay is cancelled.
RolledBack(s, a, o) ==
    /\ Core(o.s) /\ ~o.s.txn.active /\ Current(o.s) /\ SameModel(s, o.s) /\ SameCkpts(s, o.s)
    /\ o.s.deferred = s.deferred /\ o.s.prefixLength = s.prefixLength
    /\ \A i \in 1 .. s.kvLen : o.s.rows[i] = s.rows[i]
    /\ o.st = "OK" => o.s.kvLen = s.kvLen + a

\* The rows of the verify are cut; a dense session has nothing else to undo.
LEMMA DenseRollback ==
    ASSUME NEW s, Core(s), ~s.recurrent, NEW ids \in Seq(Tokens), NEW v, Verified(s, ids, v),
           NEW a \in 0 .. Len(ids), NEW n, n = s.kvLen + a,
           NEW o, o = Ok(DropLogits(Cut(v, n)))
    PROVE  RolledBack(s, a, o)
<1> DEFINE t == Cut(v, n)
           d == DropLogits(t)
<1>1. o.s = d /\ o.st = "OK"
    BY OkCounted
<1>2. Core(v) /\ v.deferred = s.deferred /\ ~v.txn.active
    BY DEF Verified
<1>3. /\ IsSession(t) /\ SameModel(v, t) /\ SameCkpts(v, t) /\ t.rows = v.rows /\ t.kvLen = n
      /\ t.prefixLength = v.prefixLength /\ t.deferred = v.deferred /\ t.txn = v.txn
    BY <1>2, CutFields DEF Core, Typed
<1> HIDE DEF t
<1>4. /\ Core(t) /\ SameModel(s, t) /\ SameCkpts(s, t) /\ t.prefixLength = s.prefixLength
      /\ \A i \in 1 .. s.kvLen : t.rows[i] = s.rows[i]
    BY <1>3, KeptCore DEF KeptAt
<1>5. /\ Core(d) /\ Current(d) /\ SameModel(t, d) /\ SameText(t, d) /\ d.txn = t.txn
      /\ d.deferred = t.deferred /\ d.prefixLength = t.prefixLength
    BY <1>4, DropLogitsCore
<1>6. SameCkpts(t, d)
    BY <1>3, DropLogitsFields
<1> HIDE DEF d
<1>7. SameModel(s, d) /\ SameCkpts(s, d) /\ d.rows = t.rows /\ d.kvLen = n
    BY <1>3, <1>4, <1>5, <1>6 DEF SameModel, SameCkpts, SameText
<1> QED
    BY <1>1, <1>2, <1>3, <1>4, <1>5, <1>7 DEF RolledBack

\* A recurrent session takes back the state kept after row a.
LEMMA RowsRollback ==
    ASSUME NEW s, Core(s), NEW ids \in Seq(Tokens), NEW v, Verified(s, ids, v),
           NEW a \in 0 .. Len(ids), NEW n, n = s.kvLen + a, NEW r, NEW m,
           r = Content(s) \o SubSeq(ids, 1, a),
           NEW o, o = Ok(DropLogits(Cut(Commit([v EXCEPT !.rec = r, !.mtp = m]), n)))
    PROVE  RolledBack(s, a, o)
<1> DEFINE w == [v EXCEPT !.rec = r, !.mtp = m]
           c == Commit(w)
           t == Cut(c, n)
           d == DropLogits(t)
<1>1. o.s = d /\ o.st = "OK"
    BY OkCounted
<1>2. Core(v) /\ v.deferred = s.deferred
    BY DEF Verified
<1>3. /\ IsSession(w) /\ SameModel(v, w) /\ SameCkpts(v, w) /\ w.rows = v.rows /\ w.rec = r
      /\ w.prefixLength = v.prefixLength /\ w.deferred = v.deferred
    BY <1>2 DEF Core, Typed, IsSession, SameModel, SameCkpts
<1> HIDE DEF w
<1>4. /\ IsSession(c) /\ SameModel(w, c) /\ SameCkpts(w, c) /\ SameText(w, c)
      /\ c.prefixLength = w.prefixLength /\ c.deferred = w.deferred /\ ~c.txn.active
    BY <1>3, CommitFields
<1> HIDE DEF c
<1>5. /\ IsSession(t) /\ SameModel(c, t) /\ SameCkpts(c, t) /\ t.rows = c.rows /\ t.rec = c.rec /\ t.kvLen = n
      /\ t.prefixLength = c.prefixLength /\ t.deferred = c.deferred /\ t.txn = c.txn
    BY <1>4, CutFields
<1> HIDE DEF t
<1>6. SameModel(v, t) /\ SameCkpts(v, t) /\ t.rows = v.rows /\ t.rec = r /\ t.prefixLength = v.prefixLength
    BY <1>3, <1>4, <1>5 DEF SameModel, SameCkpts, SameText
<1>7. /\ Core(t) /\ SameModel(s, t) /\ SameCkpts(s, t) /\ t.prefixLength = s.prefixLength
      /\ \A i \in 1 .. s.kvLen : t.rows[i] = s.rows[i]
    <2>1. IsSession(t) /\ t.kvLen = s.kvLen + a /\ t.rec = Content(s) \o SubSeq(ids, 1, a)
        BY <1>5, <1>6
    <2>2. KeptAt(s, ids, v, a, t)
        BY <1>6, <2>1, KeptCore
    <2> QED
        BY <2>2 DEF KeptAt
<1>8. /\ Core(d) /\ Current(d) /\ SameModel(t, d) /\ SameText(t, d) /\ d.txn = t.txn
      /\ d.deferred = t.deferred /\ d.prefixLength = t.prefixLength
    BY <1>7, DropLogitsCore
<1>9. SameCkpts(t, d)
    BY <1>5, DropLogitsFields
<1> HIDE DEF d
<1>10. SameModel(s, d) /\ SameCkpts(s, d) /\ d.rows = t.rows /\ d.kvLen = n
    BY <1>5, <1>7, <1>8, <1>9 DEF SameModel, SameCkpts, SameText
<1> QED
    BY <1>1, <1>2, <1>3, <1>4, <1>5, <1>7, <1>8, <1>10 DEF RolledBack

\* The state before the verify.
LEMMA RestoredCore ==
    ASSUME NEW s, Core(s), s.recurrent, NEW ids \in Seq(Tokens), NEW v, Verified(s, ids, v)
    PROVE  LET t == Commit(TxnRestore(v)) IN
           /\ Core(t) /\ SameModel(s, t) /\ SameCkpts(s, t) /\ t.prefixLength = s.prefixLength
           /\ t.deferred = s.deferred /\ ~t.txn.active /\ t.kvLen = s.kvLen
           /\ \A i \in 1 .. s.kvLen : t.rows[i] = s.rows[i]
<1> DEFINE w == TxnRestore(v)
           t == Commit(w)
<1>1. /\ IsSession(v) /\ v.txn.active /\ v.txn.base = s.kvLen /\ v.txn.rec = s.rec /\ v.deferred = s.deferred
    BY DEF Verified, Core, Typed
<1>2. /\ IsSession(w) /\ SameModel(v, w) /\ SameCkpts(v, w) /\ w.rows = v.rows /\ w.rec = s.rec /\ w.kvLen = s.kvLen
      /\ w.prefixLength = v.prefixLength /\ w.deferred = v.deferred
    BY <1>1, TxnRestoreFields
<1> HIDE DEF w
<1>3. /\ IsSession(t) /\ SameModel(w, t) /\ SameCkpts(w, t) /\ SameText(w, t)
      /\ t.prefixLength = w.prefixLength /\ t.deferred = w.deferred /\ ~t.txn.active
    BY <1>2, CommitFields
<1> HIDE DEF t
<1>4. SameModel(v, t) /\ SameCkpts(v, t) /\ t.rows = v.rows /\ t.rec = s.rec /\ t.kvLen = s.kvLen
      /\ t.prefixLength = v.prefixLength
    BY <1>2, <1>3 DEF SameModel, SameCkpts, SameText
<1>5. /\ SameModel(s, v) /\ SameCkpts(s, v) /\ v.prefixLength = s.prefixLength
      /\ Core(v) /\ \A i \in 1 .. s.kvLen : v.rows[i] = s.rows[i]
    BY DEF Verified
<1>6. SameModel(s, t) /\ SameCkpts(s, t) /\ t.prefixLength = s.prefixLength
    BY <1>4, <1>5 DEF SameModel, SameCkpts
<1>7. s.rows \in Seq(Tokens) /\ t.rows \in Seq(Tokens) /\ s.kvLen \in 0 .. Len(s.rows) /\ s.kvLen <= Len(t.rows)
      /\ s.kvLen \in Nat /\ s.kvLen <= s.maxLen
    <2>1. PICK k \in Nat, n \in Nat, L \in Nat : k = s.kvLen /\ n = Len(ids) /\ L = Len(v.rows)
        BY <1>5 DEF Core, Typed
    <2>2. k + n <= L
        BY <2>1 DEF Verified, Core, Typed
    <2>3. v.rows \in Seq(Tokens) /\ s.rows \in Seq(Tokens) /\ s.kvLen \in 0 .. Len(s.rows) /\ s.kvLen <= s.maxLen
        BY <1>5 DEF Core, Typed
    <2> QED
        BY <1>4, <2>1, <2>2, <2>3
<1>8. Content(t) = Content(s)
    <2>1. \A i \in 1 .. s.kvLen : s.rows[i] = t.rows[i]
        BY <1>4, <1>5
    <2>2. SubSeq(s.rows, 1, s.kvLen) = SubSeq(t.rows, 1, s.kvLen)
        BY <1>7, <2>1, PrefixesAgree
    <2> QED
        BY <1>4, <2>2 DEF Content
<1>9. t.rec = Content(t)
    BY <1>4, <1>8 DEF Core, Absorbed
<1>10. t.kvLen \in Nat /\ s.kvLen <= t.kvLen /\ t.kvLen <= Len(t.rows) /\ t.kvLen <= s.maxLen
    BY <1>4, <1>7
<1>11. \A i \in 1 .. s.kvLen : t.rows[i] = s.rows[i]
    BY <1>4, <1>5
<1>12. Core(t)
    BY <1>3, <1>6, <1>7, <1>9, <1>10, <1>11, CoreGrown
<1> QED
    BY <1>1, <1>2, <1>3, <1>4, <1>6, <1>11, <1>12 DEF t, w

\* Without row states: back to the state before the verify, and the accepted
\* ids once more.
LEMMA ReplayRollback ==
    ASSUME NEW s, Core(s), s.recurrent, NEW ids \in Seq(Tokens), NEW v, Verified(s, ids, v),
           NEW a \in 1 .. Len(ids), NEW n, n = s.kvLen + a, NEW canFail,
           NEW x \in PrefillOnce(Commit(TxnRestore(v)), SubSeq(ids, 1, a), canFail), x.faults = 0,
           NEW o, o.st = x.st, x.st = "OK" => o.s = Cut(x.s, n),
           x.st # "OK" => o.s = DropLogits(Commit(TxnRestore([x.s EXCEPT !.txn = v.txn])))
    PROVE  RolledBack(s, a, o)
<1> DEFINE b == Commit(TxnRestore(v))
<1>1. /\ Core(b) /\ SameModel(s, b) /\ SameCkpts(s, b) /\ b.prefixLength = s.prefixLength
      /\ b.deferred = s.deferred /\ ~b.txn.active /\ b.kvLen = s.kvLen
      /\ \A i \in 1 .. s.kvLen : b.rows[i] = s.rows[i]
    BY RestoredCore
<1>2. PICK p : p = SubSeq(ids, 1, a)
    OBVIOUS
<1>3. p \in Seq(Tokens) /\ Len(p) = a
    BY <1>2, CutText
<1>4. x \in PrefillOnce(b, p, canFail)
    BY <1>2
<1> HIDE DEF b
<1>5. /\ Core(x.s) /\ ~x.s.txn.active /\ SameModel(b, x.s) /\ SameCkpts(b, x.s)
      /\ x.s.deferred = b.deferred /\ x.s.prefixLength = b.prefixLength
      /\ \A i \in 1 .. b.kvLen : x.s.rows[i] = b.rows[i]
      /\ x.st = "OK" => x.s.kvLen = b.kvLen + a /\ Current(x.s)
      /\ x.st # "OK" => x.s.kvLen = b.kvLen
    BY <1>1, <1>3, <1>4, PrefillOnceCore
<1>7. PICK z : z = x.s
    OBVIOUS
<1>8. /\ SameModel(s, z) /\ SameCkpts(s, z) /\ z.deferred = s.deferred /\ z.prefixLength = s.prefixLength
      /\ \A i \in 1 .. s.kvLen : z.rows[i] = s.rows[i]
    BY <1>1, <1>5, <1>7 DEF SameModel, SameCkpts
<1>9. Core(z) /\ IsSession(z) /\ ~z.txn.active
    BY <1>5, <1>7 DEF Core, Typed
<1>10. CASE x.st = "OK"
    <2> DEFINE t == Cut(z, n)
    <2>1. o.s = t
        BY <1>7, <1>10
    <2>2. z.kvLen = n /\ Current(z)
        BY <1>1, <1>5, <1>7, <1>10
    <2>3. /\ IsSession(t) /\ SameModel(z, t) /\ SameCkpts(z, t) /\ SameLogits(z, t)
          /\ t.rows = z.rows /\ t.rec = z.rec /\ t.kvLen = n
          /\ t.prefixLength = z.prefixLength /\ t.deferred = z.deferred /\ t.txn = z.txn
        BY <1>9, CutFields
    <2> HIDE DEF t
    <2>4. SameText(z, t)
        BY <2>2, <2>3 DEF SameText
    <2>5. Core(t) /\ Content(t) = Content(z)
        BY <1>9, <2>3, <2>4, CoreSame
    <2>6. Current(t)
        BY <2>2, <2>3, <2>5 DEF Current, SameLogits
    <2>7. SameModel(s, t) /\ SameCkpts(s, t)
        BY <1>8, <2>3 DEF SameModel, SameCkpts
    <2> QED
        BY <1>8, <1>9, <2>1, <2>3, <2>5, <2>6, <2>7 DEF RolledBack
<1>11. CASE x.st # "OK"
    <2> DEFINE y == [z EXCEPT !.txn = v.txn]
               w == TxnRestore(y)
               c == Commit(w)
               d == DropLogits(c)
    <2>1. o.s = d /\ o.st # "OK"
        BY <1>7, <1>11
    <2>2. v.txn.active /\ v.txn.base = s.kvLen /\ v.txn.rec = s.rec
        BY DEF Verified
    <2>3. /\ IsSession(y) /\ SameModel(z, y) /\ SameCkpts(z, y) /\ y.rows = z.rows /\ y.txn = v.txn
          /\ y.prefixLength = z.prefixLength /\ y.deferred = z.deferred
        BY <1>9 DEF IsSession, SameModel, SameCkpts
    <2> HIDE DEF y
    <2>4. /\ IsSession(w) /\ SameModel(y, w) /\ SameCkpts(y, w)
          /\ w.rows = y.rows /\ w.rec = s.rec /\ w.kvLen = s.kvLen
          /\ w.prefixLength = y.prefixLength /\ w.deferred = y.deferred
        BY <2>2, <2>3, TxnRestoreFields
    <2> HIDE DEF w
    <2>5. /\ IsSession(c) /\ SameModel(w, c) /\ SameCkpts(w, c) /\ SameText(w, c)
          /\ c.prefixLength = w.prefixLength /\ c.deferred = w.deferred /\ ~c.txn.active
        BY <2>4, CommitFields
    <2> HIDE DEF c
    <2>6. SameModel(z, c) /\ SameCkpts(z, c) /\ c.rows = z.rows /\ c.rec = s.rec /\ c.kvLen = s.kvLen
        BY <2>3, <2>4, <2>5 DEF SameModel, SameCkpts, SameText
    <2>7. z.kvLen = s.kvLen
        BY <1>1, <1>5, <1>7, <1>11
    <2>8. s.recurrent => z.rec = s.rec
        <3>1. /\ s.rows \in Seq(Tokens) /\ z.rows \in Seq(Tokens) /\ s.kvLen \in 0 .. Len(s.rows)
              /\ s.kvLen <= Len(z.rows)
            BY <1>9, <2>7 DEF Core, Typed
        <3>2. \A i \in 1 .. s.kvLen : s.rows[i] = z.rows[i]
            BY <1>8
        <3>3. SubSeq(s.rows, 1, s.kvLen) = SubSeq(z.rows, 1, s.kvLen)
            BY <3>1, <3>2, PrefixesAgree
        <3>4. Content(z) = Content(s)
            BY <2>7, <3>3 DEF Content
        <3> QED
            BY <1>8, <1>9, <3>4 DEF Core, Absorbed, SameModel
    <2>9. SameText(z, c)
        BY <2>6, <2>7, <2>8 DEF SameText
    <2>10. c.prefixLength = z.prefixLength /\ c.deferred = z.deferred
        BY <2>3, <2>4, <2>5
    <2>11. Core(c)
        BY <1>9, <2>5, <2>6, <2>9, <2>10, CoreSame
    <2>12. /\ Core(d) /\ Current(d) /\ SameModel(c, d) /\ SameText(c, d) /\ d.txn = c.txn
           /\ d.deferred = c.deferred /\ d.prefixLength = c.prefixLength
        BY <2>11, DropLogitsCore
    <2>13. SameCkpts(c, d)
        BY <2>5, DropLogitsFields
    <2> HIDE DEF d
    <2>14. SameModel(s, d) /\ SameCkpts(s, d) /\ d.rows = z.rows
        BY <1>8, <2>6, <2>12, <2>13 DEF SameModel, SameCkpts, SameText
    <2> QED
        BY <1>8, <2>1, <2>5, <2>10, <2>12, <2>14 DEF RolledBack
<1> QED
    BY <1>10, <1>11

\* What a verify fed and the model did not agree with is rolled back.
LEMMA KvTruncateCore ==
    ASSUME NEW s, Core(s), NEW ids \in Seq(Tokens), NEW v, Verified(s, ids, v),
           NEW a \in 1 .. Len(ids) - 1, NEW canFail,
           NEW o \in KvTruncate(v, s.kvLen + a, canFail), o.faults = 0
    PROVE  RolledBack(s, a, o)
<1>1. PICK k \in Nat, L \in Nat : k = s.kvLen /\ L = Len(ids)
    BY DEF Core, Typed
<1>2. PICK n \in Nat : n = s.kvLen + a
    BY <1>1
<1>3. ~(n > v.kvLen)
    BY <1>1, <1>2 DEF Verified
<1>4. a \in 0 .. Len(ids) /\ a \in 1 .. Len(ids)
    BY <1>1
<1>5. CASE ~s.recurrent
    <2>1. o = Ok(DropLogits(Cut(v, n)))
        BY <1>2, <1>3, <1>5 DEF KvTruncate, Verified
    <2> QED
        BY <1>2, <1>4, <1>5, <2>1, DenseRollback
<1>6. CASE s.recurrent
    <2>1. /\ v.txn.active /\ v.txn.base = s.kvLen /\ v.txn.ids = ids
          /\ v.txn.rowsOk => \A i \in 1 .. Len(ids) - 1 : v.txn.rows[i] = s.rec \o SubSeq(ids, 1, i)
        BY <1>6 DEF Verified
    <2>2. n - v.txn.base = a
        BY <1>1, <1>2, <2>1
    <2>3. a \in 0 .. Len(v.txn.ids) /\ a # Len(v.txn.ids) /\ a > 0
        BY <1>1, <2>1
    <2>4. CASE v.txn.rowsOk
        <3>1. PICK r, m : r = v.txn.rows[a] /\ m = MtpKept(v, n)
            OBVIOUS
        <3>2. o = Ok(DropLogits(Cut(Commit([v EXCEPT !.rec = r, !.mtp = m]), n)))
            <4>1. \/ o = Ok(DropLogits(Cut(Commit([v EXCEPT !.rec = r, !.mtp = m]), n)))
                  \/ \E t : o = Failed(t)
                BY <1>2, <1>3, <2>1, <2>2, <2>3, <2>4, <3>1 DEF KvTruncate
            <4> QED
                BY <4>1, FailedCounted
        <3>3. r = Content(s) \o SubSeq(ids, 1, a)
            BY <1>6, <2>1, <2>4, <3>1 DEF Core, Absorbed
        <3> QED
            BY <1>2, <1>4, <3>2, <3>3, RowsRollback
    <2>5. CASE ~v.txn.rowsOk
        <3>1. PICK q \in TxnRestores(v, canFail) : o \in Replayed(v, n, q, canFail)
            <4>1. o \in KvTruncate(v, n, canFail)
                BY <1>2
            <4>2. /\ n - v.txn.base \in 0 .. Len(v.txn.ids) /\ n - v.txn.base # Len(v.txn.ids)
                  /\ ~(n - v.txn.base > 0 /\ v.txn.rowsOk) /\ n - v.txn.base # 0
                BY <2>2, <2>3, <2>5
            <4> QED
                BY <1>3, <2>1, <4>1, <4>2, ZenonT(30) DEF KvTruncate
        <3>2. Tallied(q) /\ (q.faults = 0 => q.s = TxnRestore(v))
            BY TxnRestoresSplit, Zenon DEF Counted
        <3>3. PICK x : ReplaySteps(v, n, q, canFail, x, o)
            BY <3>1, <3>2, ReplayedSplit
        <3>4. x.faults = 0 /\ q.s = TxnRestore(v)
            BY <1>4, <3>2, <3>3 DEF ReplaySteps
        <3>5. x \in PrefillOnce(Commit(TxnRestore(v)), SubSeq(ids, 1, a), canFail)
            BY <2>1, <2>2, <3>3, <3>4 DEF ReplaySteps
        <3>6. x.st # "OK" => o.s = DropLogits(Commit(TxnRestore([x.s EXCEPT !.txn = v.txn])))
            <4>1. \A u \in TxnRestores([x.s EXCEPT !.txn = v.txn], canFail) :
                     u.faults = 0 => u.s = TxnRestore([x.s EXCEPT !.txn = v.txn])
                BY TxnRestoresSplit, Zenon
            <4> QED
                BY <1>4, <3>3, <4>1 DEF ReplaySteps
        <3>7. o.st = x.st /\ (x.st = "OK" => o.s = Cut(x.s, n))
            BY <3>3 DEF ReplaySteps
        <3> QED
            BY <1>2, <1>4, <1>6, <3>4, <3>5, <3>6, <3>7, ReplayRollback
    <2> QED
        BY <2>4, <2>5
<1> QED
    BY <1>5, <1>6

\* A verify, its rollback and the model's own next token leave a state at rest.
LEMMA SpecVerifyRest ==
    ASSUME NEW s, Rest(s), ~s.deferred, NEW drafts \in Seq(Tokens), drafts # <<>>, NEW canFail,
           NEW o \in SpecVerify(s, drafts, canFail), o.faults = 0
    PROVE  Rest(o.s) /\ SameModel(s, o.s)
<1>1. PICK v \in VerifyForward(s, drafts, canFail) :
              /\ v.st # "OK" => o = v
              /\ v.st = "OK" => \E k \in KeptOuts(s, drafts, v, canFail) : \E x :
                                   SpecSteps(s, drafts, canFail, v, k, x, o)
    BY SpecVerifySplit
<1>2. Core(s) /\ ~s.txn.active
    BY DEF Rest
<1>3. Counted(v)
    BY VerifyForwardCounted
<1>4. CASE v.st # "OK"
    <2>1. o = v /\ v.faults = 0
        BY <1>1, <1>4
    <2>2. VerifyDone(s, drafts, v)
        BY <1>2, <2>1, VerifyForwardCore
    <2>3. v.s = s
        BY <1>4, <2>2 DEF VerifyDone
    <2> QED
        BY <2>1, <2>3 DEF SameModel
<1>5. CASE v.st = "OK"
    <2>1. v.faults = 0
        BY <1>3, <1>5 DEF Counted, Tallied
    <2>2. /\ RoomFor(s, Len(drafts)) /\ Verified(s, drafts, v.s) /\ v.s.logitsValid
          /\ v.toks = [i \in 1 .. Len(drafts) |-> Predict(Content(s) \o SubSeq(drafts, 1, i))]
        BY <1>2, <1>5, <2>1, VerifyForwardCore DEF VerifyDone
    <2>3. PICK n \in Nat : n = Len(drafts) /\ n > 0
        <3>1. Len(drafts) \in Nat /\ (Len(drafts) = 0 => drafts = <<>>)
            BY EmptySeq
        <3> QED
            BY <3>1
    <2>4. PICK a \in 0 .. n - 1 : a = Accepted(drafts, v.toks)
        BY <2>3, AcceptedRange
    <2>5. PICK c : c = v.toks[a + 1]
        OBVIOUS
    <2>6. c \in Tokens
        <3>1. PICK k \in Nat : k = s.kvLen
            BY <1>2 DEF Core, Typed
        <3>2. a + 1 \in 1 .. Len(drafts) /\ a + 1 \in 0 .. Len(drafts)
            BY <2>3
        <3>3. c = Predict(Content(s) \o SubSeq(drafts, 1, a + 1))
            BY <2>2, <2>5, <3>2
        <3>4. Content(s) \in Seq(Tokens) /\ Len(Content(s)) = k
            BY <1>2, <3>1, ContentTyped DEF Core
        <3>5. SubSeq(drafts, 1, a + 1) \in Seq(Tokens) /\ Len(SubSeq(drafts, 1, a + 1)) = a + 1
            BY <3>2, CutText
        <3>6. PICK t : t = Content(s) \o SubSeq(drafts, 1, a + 1)
            OBVIOUS
        <3>7. t \in Seq(Tokens) /\ Len(t) = k + (a + 1)
            BY <3>4, <3>5, <3>6, ConcatProperties
        <3>8. s.maxLen \in MaxLens /\ k + n <= s.maxLen
            BY <1>2, <2>2, <2>3, <3>1 DEF RoomFor, Core, Typed
        <3>9. s.maxLen \in Nat
            <4>1. PICK m \in Models : s.maxLen = m.maxLen
                BY <3>8 DEF MaxLens
            <4> QED
                BY <4>1, SessionConstants
        <3>10. Len(t) <= s.maxLen
            BY <3>7, <3>8, <3>9
        <3> QED
            BY <3>3, <3>6, <3>7, <3>8, <3>10, PredictTyped
    <2>6a. PICK k \in KeptOuts(s, drafts, v, canFail) :
                 \E x : SpecSteps(s, drafts, canFail, v, k, x, o)
        BY <1>1, <1>5
    <2>7. PICK x : SpecSteps(s, drafts, canFail, v, k, x, o)
        BY <2>6a
    <2>8. k.faults = 0 => /\ Core(k.s) /\ Current(k.s) /\ SameModel(s, k.s) /\ ~k.s.deferred
                          /\ k.st # "OK" => ~k.s.txn.active
        <3>1. CASE a = Len(drafts) - 1
            <4>1. k = Ok(v.s)
                BY <2>4, <3>1 DEF KeptOuts
            <4> QED
                BY <2>2, <4>1, OkCounted DEF Verified
        <3>2. CASE a # Len(drafts) - 1
            <4>1. k \in KvTruncate(v.s, s.kvLen + a + 1, canFail)
                BY <2>4, <3>2 DEF KeptOuts
            <4>2. PICK b \in 1 .. Len(drafts) - 1 : b = a + 1
                BY <2>3, <3>2
            <4>3. s.kvLen + a + 1 = s.kvLen + b
                <5>1. PICK l \in Nat : l = s.kvLen
                    BY <1>2 DEF Core, Typed
                <5>2. l + a + 1 = l + b
                    BY <2>3, <4>2
                <5> QED
                    BY <5>1, <5>2
            <4>4. k \in KvTruncate(v.s, s.kvLen + b, canFail)
                BY <4>1, <4>3
            <4>5. k.faults = 0 => RolledBack(s, b, k)
                BY <1>2, <2>2, <4>4, KvTruncateCore
            <4> QED
                BY <4>5 DEF RolledBack
        <3> QED
            BY <3>1, <3>2
    <2>9. IF k.st = "OK" THEN x \in PrefillOnce(k.s, <<c>>, canFail) ELSE x = k
        BY <2>4, <2>5, <2>7 DEF SpecSteps
    <2>10. o.s = x.s /\ x.faults = 0 /\ k.faults = 0
        BY <2>7 DEF SpecSteps
    <2>13. /\ Core(k.s) /\ Current(k.s) /\ SameModel(s, k.s) /\ ~k.s.deferred
           /\ k.st # "OK" => ~k.s.txn.active
        BY <2>8, <2>10
    <2>14. CASE k.st # "OK"
        BY <2>9, <2>10, <2>13, <2>14 DEF Rest
    <2>15. CASE k.st = "OK"
        <3>1. PICK p : p = <<c>> /\ p \in Seq(Tokens)
            <4>1. <<c>> \in Seq(Tokens)
                BY <2>6
            <4> QED
                BY <4>1
        <3>2. x \in PrefillOnce(k.s, p, canFail)
            BY <2>9, <2>15, <3>1
        <3>3. /\ Core(x.s) /\ ~x.s.txn.active /\ SameModel(k.s, x.s) /\ x.s.deferred = k.s.deferred
              /\ Current(k.s) => Current(x.s)
            <4>1. p \in Seq(Tokens) /\ x.faults = 0 /\ Core(k.s)
                BY <2>10, <2>13, <3>1
            <4> QED
                BY <3>2, <4>1, PrefillOnceCore
        <3>4. SameModel(s, x.s)
            BY <2>13, <3>3 DEF SameModel
        <3> QED
            BY <2>10, <2>13, <3>3, <3>4 DEF Rest
    <2> QED
        BY <2>14, <2>15
<1> QED
    BY <1>4, <1>5

\* geist_session_verify_drafts leaves a state at rest.
LEMMA VerifyDraftsRest ==
    ASSUME NEW s, Rest(s), NEW guesses \in Seq(Tokens), NEW canFail,
           NEW o \in VerifyDrafts(s, guesses, canFail), o.faults = 0
    PROVE  Rest(o.s) /\ SameModel(s, o.s)
<1>1. CASE guesses = <<>>
    BY <1>1, DecodeStepRest DEF VerifyDrafts
<1>2. CASE guesses # <<>>
    <2>1. PICK x \in Settle(s, canFail) :
             IF x.st = "OK" /\ x.s.logitsValid
             THEN o \in SpecVerify(x.s, <<PendingToken(x.s)>> \o guesses, canFail)
             ELSE \E r \in DecodeStep(x.s, canFail) : o = After(x, r)
        BY <1>2 DEF VerifyDrafts
    <2>2. Counted(x)
        BY SettleCounted
    <2>3. CASE x.st = "OK" /\ x.s.logitsValid
        <3>1. x.faults = 0
            BY <2>2, <2>3 DEF Counted, Tallied
        <3>2. Rest(x.s) /\ SameModel(s, x.s) /\ ~x.s.deferred
            BY <2>3, <3>1, SettleRest
        <3>3. PendingToken(x.s) \in Tokens
            <4>1. x.s.pending.on = Content(x.s) /\ Core(x.s)
                BY <2>3, <3>2 DEF Rest, Current
            <4> QED
                BY <4>1, ContentTyped DEF PendingToken, Core
        <3>4. PICK p : p = <<PendingToken(x.s)>> \o guesses
            OBVIOUS
        <3>5. p \in Seq(Tokens) /\ p # <<>>
            <4>1. PICK q : q = <<PendingToken(x.s)>> /\ q \in Seq(Tokens) /\ Len(q) = 1
                <5>1. PICK y \in Tokens : y = PendingToken(x.s)
                    BY <3>3
                <5>2. <<y>> \in Seq(Tokens) /\ Len(<<y>>) = 1
                    OBVIOUS
                <5> QED
                    BY <5>1, <5>2
            <4>2. q \o guesses \in Seq(Tokens) /\ Len(q \o guesses) = 1 + Len(guesses)
                BY <4>1, ConcatProperties
            <4>3. Len(guesses) \in Nat
                OBVIOUS
            <4>4. p \in Seq(Tokens) /\ Len(p) # 0
                BY <3>4, <4>1, <4>2, <4>3
            <4> QED
                BY <4>4
        <3>6. o \in SpecVerify(x.s, p, canFail)
            BY <2>1, <2>3, <3>4
        <3>7. Rest(o.s) /\ SameModel(x.s, o.s)
            BY <3>2, <3>5, <3>6, SpecVerifyRest
        <3> QED
            BY <3>2, <3>7 DEF SameModel
    <2>4. CASE ~(x.st = "OK" /\ x.s.logitsValid)
        <3>1. PICK r \in DecodeStep(x.s, canFail) : o = After(x, r)
            BY <2>1, <2>4
        <3>3. o.s = r.s /\ r.faults = 0 /\ x.faults = 0
            BY <2>2, <3>1, DecodeStepCounted, AfterTallied DEF Counted
        <3>4. Rest(x.s) /\ SameModel(s, x.s)
            BY <3>3, SettleRest
        <3>7. Rest(r.s) /\ SameModel(x.s, r.s)
            BY <3>1, <3>3, <3>4, DecodeStepRest
        <3> QED
            BY <3>3, <3>4, <3>7 DEF SameModel
    <2> QED
        BY <2>3, <2>4
<1> QED
    BY <1>1, <1>2

-----------------------------------------------------------------------------
(* Reset, truncate and checkpoints. *)

\* What a reset leaves.
LEMMA ResetFields ==
    ASSUME NEW s, IsSession(s)
    PROVE  LET t == Reset(s) IN
           /\ IsSession(t) /\ SameModel(s, t) /\ t.rows = s.rows /\ t.kvLen = s.prefixLength /\ t.rec = <<>>
           /\ t.prefixLength = s.prefixLength /\ t.deferred = FALSE /\ t.logitsValid = FALSE /\ ~t.txn.active
           /\ t.ckptLens = <<>> /\ t.ckptBase = 0 /\ t.ckptBuf = s.ckptBuf
           /\ t.cancel = s.cancel /\ t.pending = NoPending
<1> DEFINE c == Commit(s)
           d == DropLogits(c)
<1>1. /\ IsSession(c) /\ SameModel(s, c) /\ SameCkpts(s, c) /\ SameText(s, c) /\ c.prefixLength = s.prefixLength /\ ~c.txn.active
      /\ c.cancel = s.cancel
    BY CommitFields
<1> HIDE DEF c
<1>2. /\ IsSession(d) /\ SameModel(c, d) /\ SameCkpts(c, d) /\ SameText(c, d) /\ d.prefixLength = c.prefixLength
      /\ d.txn = c.txn /\ d.logitsValid = FALSE /\ d.cancel = c.cancel
    BY <1>1, DropLogitsFields
<1>3. d.pending = NoPending
    BY <1>1 DEF DropLogits, IsSession
<1> HIDE DEF d
<1>4. PICK k, m : k = s.prefixLength /\ m = NoMtp
    OBVIOUS
<1> DEFINE t == [d EXCEPT !.kvLen = k, !.deferred = FALSE, !.ckptLens = <<>>, !.ckptBase = 0, !.rec = <<>>, !.mtp = m]
<1>5. Reset(s) = t
    BY <1>4 DEF Reset, d, c
<1>6. /\ IsSession(t) /\ SameModel(d, t) /\ t.rows = d.rows /\ t.kvLen = k /\ t.rec = <<>>
      /\ t.prefixLength = d.prefixLength /\ t.deferred = FALSE /\ t.logitsValid = d.logitsValid /\ t.txn = d.txn
      /\ t.ckptLens = <<>> /\ t.ckptBase = 0 /\ t.ckptBuf = d.ckptBuf
      /\ t.cancel = d.cancel /\ t.pending = d.pending
    BY <1>2 DEF IsSession, SameModel
<1> HIDE DEF t
<1>7. SameModel(s, t) /\ t.rows = s.rows /\ t.ckptBuf = s.ckptBuf
    BY <1>1, <1>2, <1>6 DEF SameModel, SameText, SameCkpts
<1> QED
    BY <1>1, <1>2, <1>3, <1>4, <1>5, <1>6, <1>7

\* A reset keeps the pinned prefix and nothing else.
LEMMA ResetRest ==
    ASSUME NEW s, Core(s)
    PROVE  LET t == Reset(s) IN
           Rest(t) /\ SameModel(s, t) /\ ~t.deferred /\ t.kvLen = s.prefixLength /\ t.prefixLength = s.prefixLength
<1> DEFINE t == Reset(s)
<1>1. /\ IsSession(t) /\ SameModel(s, t) /\ t.rows = s.rows /\ t.kvLen = s.prefixLength /\ t.rec = <<>>
      /\ t.prefixLength = s.prefixLength /\ t.deferred = FALSE /\ t.logitsValid = FALSE /\ ~t.txn.active
      /\ t.ckptLens = <<>> /\ t.ckptBase = 0 /\ t.ckptBuf = s.ckptBuf
    BY ResetFields DEF Core, Typed
<1> HIDE DEF t
<1>2. Typed(t)
    <2>1. /\ s.rows \in Seq(Tokens) /\ s.maxLen \in MaxLens /\ s.kvLen \in Nat /\ s.kvLen <= Len(s.rows)
          /\ s.kvLen <= s.maxLen /\ s.prefixLength \in 0 .. s.kvLen
        BY DEF Core, Typed
    <2>2. s.maxLen \in Nat
        <3>1. PICK m \in Models : s.maxLen = m.maxLen
            BY <2>1 DEF MaxLens
        <3> QED
            BY <3>1, SessionConstants
    <2>3. s.prefixLength \in Nat /\ s.prefixLength <= Len(s.rows) /\ s.prefixLength <= s.maxLen
        BY <2>1, <2>2
    <2> QED
        BY <1>1, <2>1, <2>3 DEF Typed, SameModel
<1>3. Absorbed(t)
    <2>1. ASSUME s.recurrent
          PROVE  t.rec = Content(t) /\ t.prefixLength = 0
        <3>1. s.prefixLength = 0
            BY <2>1 DEF Core, Absorbed
        <3>2. SubSeq(s.rows, 1, 0) = <<>>
            <4>1. s.rows \in Seq(Tokens) /\ 0 \in 0 .. Len(s.rows)
                BY DEF Core, Typed
            <4>2. SubSeq(s.rows, 1, 0) \in Seq(Tokens) /\ Len(SubSeq(s.rows, 1, 0)) = 0
                BY <4>1, CutText
            <4> QED
                BY <4>2, EmptySeq
        <3> QED
            BY <1>1, <3>1, <3>2 DEF Content
    <2> QED
        BY <1>1, <2>1 DEF Absorbed, SameModel
<1>4. Checkpoints(t)
    <2>1. s.ckptBuf = [i \in 0 .. Slots - 1 |-> s.ckptBuf[i]]
        BY DEF Core, Checkpoints
    <2>2. <<>> \in Seq(Nat) /\ Len(<<>>) = 0
        OBVIOUS
    <2> QED
        BY <1>1, <2>1, <2>2, SessionConstants DEF Checkpoints
<1> QED
    BY <1>1, <1>2, <1>3, <1>4 DEF t, Rest, Core, Current

\* The text cut to n, with the checkpoints that are not longer.
LEMMA CutBackCore ==
    ASSUME NEW s, Core(s), NEW n \in Nat, n <= s.kvLen, s.prefixLength <= n, NEW j \in 0 .. Len(s.ckptLens),
           j > 0 => s.ckptLens[j] <= n,
           NEW t, IsSession(t), SameModel(s, t), t.rows = s.rows, t.kvLen = n, t.prefixLength = s.prefixLength,
           t.ckptLens = SubSeq(s.ckptLens, 1, j), t.ckptBase = s.ckptBase, t.ckptBuf = s.ckptBuf,
           s.recurrent => t.rec = SubSeq(s.rows, 1, n)
    PROVE  Core(t)
<1>1. Typed(t)
    <2>1. /\ s.rows \in Seq(Tokens) /\ s.maxLen \in MaxLens /\ s.kvLen \in Nat /\ s.kvLen <= Len(s.rows)
          /\ s.kvLen <= s.maxLen /\ s.prefixLength \in 0 .. s.kvLen
        BY DEF Core, Typed
    <2>2. s.maxLen \in Nat
        <3>1. PICK m \in Models : s.maxLen = m.maxLen
            BY <2>1 DEF MaxLens
        <3> QED
            BY <3>1, SessionConstants
    <2>3. n <= Len(s.rows) /\ n <= s.maxLen /\ s.prefixLength \in 0 .. n
        BY <2>1, <2>2
    <2> QED
        BY <2>1, <2>3 DEF Typed, SameModel
<1>2. Absorbed(t)
    BY DEF Core, Absorbed, SameModel, Content
<1>3. PICK u : u = s.ckptLens
    OBVIOUS
<1>4. u \in Seq(Nat) /\ Len(u) <= Slots /\ Len(u) \in Nat
    BY <1>3 DEF Core, Checkpoints
<1>5. t.ckptLens \in Seq(Nat) /\ Len(t.ckptLens) = j /\ \A i \in 1 .. j : t.ckptLens[i] = u[i]
    BY <1>3, <1>4, CutText
<1>6. \A i \in 1 .. Len(u) : u[i] \in Nat
    BY <1>4, ElementOfSeq
<1>7. \A i, l \in 1 .. Len(u) : i <= l => u[i] <= u[l]
    BY <1>3 DEF Core, Checkpoints
<1>8. \A i \in 1 .. j : u[i] <= n
    <2>1. TAKE i \in 1 .. j
    <2>2. i \in 1 .. Len(u) /\ j \in 1 .. Len(u) /\ i <= j
        BY <1>3, <1>4
    <2>3. u[i] <= u[j] /\ u[j] <= n /\ u[i] \in Nat /\ u[j] \in Nat
        BY <1>3, <1>6, <1>7, <2>2
    <2> QED
        BY <2>3
<1>9. \A i : CkptSlot(t, i) = CkptSlot(s, i)
    BY DEF CkptSlot
<1>10. \A i \in 1 .. j : t.recurrent => t.ckptBuf[CkptSlot(t, i)] = SubSeq(t.rows, 1, t.ckptLens[i])
    <2>1. TAKE i \in 1 .. j
    <2>2. i \in 1 .. Len(u)
        BY <1>3, <1>4
    <2>3. s.recurrent => s.ckptBuf[CkptSlot(s, i)] = SubSeq(s.rows, 1, u[i])
        BY <1>3, <2>2 DEF Core, Checkpoints
    <2> QED
        BY <1>5, <1>9, <2>3 DEF SameModel
<1>11. \A i, l \in 1 .. j : i <= l => t.ckptLens[i] <= t.ckptLens[l]
    <2>1. TAKE i, l \in 1 .. j
    <2>2. i \in 1 .. Len(u) /\ l \in 1 .. Len(u)
        BY <1>3, <1>4
    <2> QED
        BY <1>5, <1>7, <2>2
<1>12. Checkpoints(t)
    <2>1. /\ s.ckptBuf = [i \in 0 .. Slots - 1 |-> s.ckptBuf[i]] /\ s.ckptBase \in 0 .. Slots - 1
          /\ Len(t.ckptLens) <= Slots
        BY <1>3, <1>4, <1>5, SessionConstants DEF Core, Checkpoints
    <2>2. \A i \in 1 .. j : t.ckptLens[i] <= t.kvLen
        BY <1>5, <1>8
    <2> QED
        BY <1>5, <1>10, <1>11, <2>1, <2>2 DEF Checkpoints
<1> QED
    BY <1>1, <1>2, <1>12 DEF Core

\* Slot numbers wrap around once.
LEMMA Wrapped ==
    ASSUME NEW x \in Nat, x < 2 * Slots
    PROVE  (x % Slots) = IF x < Slots THEN x ELSE x - Slots
<1>1. PICK S \in Nat \ {0} : S = Slots
    BY SessionConstants
<1>2. CASE x < S
    <2>1. (x % S) = x
        BY <1>2, Z3
    <2> QED
        BY <1>1, <1>2, <2>1
<1>3. CASE x >= S
    <2>1. PICK y \in Nat : y = x - S /\ y < S
        BY <1>1, <1>3
    <2>2. x = y + S
        BY <2>1
    <2>3. (x % S) = y
        BY <2>1, <2>2
    <2> QED
        BY <1>1, <1>3, <2>1, <2>3
<1> QED
    BY <1>1, <1>2, <1>3

\* Dropping the oldest checkpoint leaves the others in their slots.
LEMMA EvictedCore ==
    ASSUME NEW s, Core(s)
    PROVE  LET t == Evicted(s) IN
           /\ Core(t) /\ SameModel(s, t) /\ SameText(s, t) /\ SameLogits(s, t) /\ t.txn = s.txn
           /\ t.deferred = s.deferred /\ t.prefixLength = s.prefixLength /\ Len(t.ckptLens) < Slots
<1>0. PICK u : u = s.ckptLens
    OBVIOUS
<1>1. PICK n \in Nat, b \in Nat, S \in Nat \ {0} : u = s.ckptLens /\ n = Len(u) /\ b = s.ckptBase /\ S = Slots
    <2>1. s.ckptLens \in Seq(Nat) /\ s.ckptBase \in 0 .. Slots - 1 /\ Slots \in Nat \ {0}
        BY SessionConstants DEF Core, Checkpoints
    <2>2. Len(u) \in Nat /\ s.ckptBase \in Nat
        BY <1>0, <2>1
    <2> QED
        BY <1>0, <2>1, <2>2
<1>2. u \in Seq(Nat) /\ n <= S /\ b \in 0 .. S - 1
    BY <1>1 DEF Core, Checkpoints
<1>3. CASE n # S
    <2>1. Evicted(s) = s
        BY <1>1, <1>3 DEF Evicted
    <2> QED
        BY <1>1, <1>2, <1>3, <2>1 DEF SameModel, SameText, SameLogits
<1>4. CASE n = S
    <2>1. PICK w, c : w = Tail(u) /\ c = ((b + 1) % Slots)
        OBVIOUS
    <2> DEFINE t == [s EXCEPT !.ckptLens = w, !.ckptBase = c]
    <2>2. Evicted(s) = t
        BY <1>1, <1>4, <2>1 DEF Evicted, Core, Typed, IsSession
    <2>3. /\ IsSession(t) /\ SameModel(s, t) /\ SameText(s, t) /\ SameLogits(s, t) /\ t.txn = s.txn
          /\ t.deferred = s.deferred /\ t.prefixLength = s.prefixLength /\ t.ckptLens = w /\ t.ckptBase = c
          /\ t.ckptBuf = s.ckptBuf
        BY DEF Core, Typed, IsSession, SameModel, SameText, SameLogits
    <2> HIDE DEF t
    <2>4. w \in Seq(Nat) /\ Len(w) = n - 1 /\ \A i \in 1 .. n - 1 : w[i] = u[i + 1]
        <3>1. u # <<>>
            BY <1>1, <1>4
        <3> QED
            BY <1>1, <1>2, <2>1, <3>1, HeadTailProperties
    <2>5. c = IF b + 1 < S THEN b + 1 ELSE b + 1 - S
        <3>1. b + 1 \in Nat /\ b + 1 < 2 * S
            BY <1>2
        <3> QED
            BY SMTT(30), <1>1, <2>1, <3>1, Wrapped
    <2>6. c \in 0 .. S - 1
        BY <1>2, <2>5
    <2>7. \A i \in 1 .. n - 1 : CkptSlot(t, i) = CkptSlot(s, i + 1)
        <3>1. TAKE i \in 1 .. n - 1
        <3>2. PICK p \in Nat, q \in Nat : p = c + i - 1 /\ q = b + (i + 1) - 1
            BY <1>2, <2>6
        <3>3. p < 2 * Slots /\ q < 2 * Slots
            BY <1>1, <1>2, <2>6, <3>2
        <3>4. /\ (p % Slots) = IF p < Slots THEN p ELSE p - Slots
              /\ (q % Slots) = IF q < Slots THEN q ELSE q - Slots
            BY <3>3, Wrapped
        <3>5. (p % Slots) = (q % Slots)
            <4>1. (IF p < S THEN p ELSE p - S) = (IF q < S THEN q ELSE q - S)
                BY <1>2, <1>4, <2>5, <3>2
            <4> QED
                BY <1>1, <3>4, <4>1
        <3> QED
            BY <1>1, <2>3, <3>2, <3>5 DEF CkptSlot
    <2>8. \A i \in 1 .. n - 1 :
             /\ w[i] <= s.kvLen
             /\ s.recurrent => s.ckptBuf[CkptSlot(t, i)] = SubSeq(s.rows, 1, w[i])
        <3>1. TAKE i \in 1 .. n - 1
        <3>2. i + 1 \in 1 .. Len(s.ckptLens)
            BY <1>1
        <3>3. /\ s.ckptLens[i + 1] <= s.kvLen
              /\ s.recurrent => s.ckptBuf[CkptSlot(s, i + 1)] = SubSeq(s.rows, 1, s.ckptLens[i + 1])
            BY <3>2 DEF Core, Checkpoints
        <3> QED
            BY <1>1, <2>4, <2>7, <3>3
    <2>9. \A i, j \in 1 .. n - 1 : i <= j => w[i] <= w[j]
        <3>1. TAKE i, j \in 1 .. n - 1
        <3>2. i + 1 \in 1 .. Len(s.ckptLens) /\ j + 1 \in 1 .. Len(s.ckptLens) /\ (i <= j => i + 1 <= j + 1)
            BY <1>1
        <3>3. i <= j => s.ckptLens[i + 1] <= s.ckptLens[j + 1]
            BY <3>2 DEF Core, Checkpoints
        <3> QED
            BY <1>1, <2>4, <3>3
    <2>10. Typed(t)
        BY <2>3 DEF Core, Typed, SameModel, SameText
    <2>11. Content(t) = Content(s)
        BY <2>3 DEF Content, SameText
    <2>12. Absorbed(t)
        BY <2>3, <2>11 DEF Core, Absorbed, SameModel, SameText
    <2>13. s.ckptBuf = [i \in 0 .. Slots - 1 |-> s.ckptBuf[i]]
        BY DEF Core, Checkpoints
    <2>14. Checkpoints(t)
        <3>1. /\ t.ckptLens \in Seq(Nat) /\ Len(t.ckptLens) = n - 1 /\ n - 1 <= Slots /\ t.ckptBase \in 0 .. Slots - 1
              /\ t.ckptBuf = [i \in 0 .. Slots - 1 |-> t.ckptBuf[i]]
            BY <1>1, <1>2, <2>3, <2>4, <2>6, <2>13
        <3>2. t.kvLen = s.kvLen /\ t.rows = s.rows /\ t.recurrent = s.recurrent
            BY <2>3 DEF SameText, SameModel
        <3> QED
            BY <2>3, <2>8, <2>9, <3>1, <3>2 DEF Checkpoints
    <2>15. Len(t.ckptLens) < Slots
        BY <1>1, <1>4, <2>3, <2>4
    <2> QED
        BY <2>2, <2>3, <2>10, <2>12, <2>14, <2>15 DEF Core
<1> QED
    BY <1>3, <1>4

\* t is e with a checkpoint of r in slot.
IsCheckpointed(e, r, slot, t) ==
    /\ slot = CkptSlot(e, Len(e.ckptLens) + 1)
    /\ t.ckptBase = e.ckptBase /\ t.ckptBuf = [e.ckptBuf EXCEPT ![slot] = r]
    /\ t.ckptLens = Append(e.ckptLens, e.kvLen)

\* The new checkpoint takes a slot no other one holds.
LEMMA CheckpointedCore ==
    ASSUME NEW e, Core(e), Len(e.ckptLens) < Slots, NEW r, e.recurrent => r = Content(e),
           NEW slot, NEW t, IsCheckpointed(e, r, slot, t),
           IsSession(t), SameModel(e, t), SameText(e, t), t.prefixLength = e.prefixLength
    PROVE  Core(t)
<1>0. /\ slot = CkptSlot(e, Len(e.ckptLens) + 1)
      /\ t.ckptBase = e.ckptBase /\ t.ckptBuf = [e.ckptBuf EXCEPT ![slot] = r]
      /\ t.ckptLens = Append(e.ckptLens, e.kvLen)
    BY DEF IsCheckpointed
<1>1. PICK u, g : u = e.ckptLens /\ g = e.ckptBuf
    OBVIOUS
<1>2. /\ u \in Seq(Nat) /\ g = [i \in 0 .. Slots - 1 |-> g[i]] /\ e.ckptBase \in 0 .. Slots - 1
      /\ Slots \in Nat \ {0} /\ e.kvLen \in Nat
    BY <1>1, SessionConstants DEF Core, Checkpoints, Typed
<1>3. PICK n \in Nat, b \in Nat, S \in Nat \ {0}, k \in Nat : n = Len(u) /\ b = e.ckptBase /\ S = Slots /\ k = e.kvLen
    <2>1. Len(u) \in Nat /\ e.ckptBase \in Nat
        BY <1>2
    <2> QED
        BY <1>2, <2>1
<1>4. n < S /\ b \in 0 .. S - 1
    BY <1>1, <1>2, <1>3
<1>5. PICK w : w = Append(u, k)
    OBVIOUS
<1>6. /\ w \in Seq(Nat) /\ Len(w) = n + 1 /\ \A i \in 1 .. n : w[i] = u[i]
      /\ w[n + 1] = k
    BY <1>2, <1>3, <1>5, AppendProperties
<1>7. \A i \in 1 .. n : u[i] \in Nat /\ u[i] <= k
    <2>1. \A i \in 1 .. n : u[i] \in Nat
        BY <1>2, <1>3, ElementOfSeq
    <2>2. \A i \in 1 .. n : u[i] <= k
        BY <1>1, <1>3 DEF Core, Checkpoints
    <2> QED
        BY <2>1, <2>2
<1>8. \A i \in 1 .. n + 1 : w[i] <= k
    <2>1. TAKE i \in 1 .. n + 1
    <2>2. i \in 1 .. n \/ i = n + 1
        OBVIOUS
    <2> QED
        BY <1>6, <1>7, <2>2
<1>9. \A i, j \in 1 .. n + 1 : i <= j => w[i] <= w[j]
    <2>1. TAKE i, j \in 1 .. n + 1
    <2>2. CASE j = n + 1
        BY <1>6, <1>8, <2>2
    <2>3. CASE j # n + 1 /\ i <= j
        <3>1. i \in 1 .. n /\ j \in 1 .. n
            BY <2>3
        <3>2. u[i] <= u[j]
            BY <1>1, <1>3, <2>3, <3>1 DEF Core, Checkpoints
        <3> QED
            BY <1>6, <3>1, <3>2
    <2> QED
        BY <2>2, <2>3
\* The slots of the checkpoints, by position.
<1>10. \A j \in 1 .. n + 1 : CkptSlot(e, j) = IF b + j - 1 < S THEN b + j - 1 ELSE b + j - 1 - S
    <2>1. TAKE j \in 1 .. n + 1
    <2>2. PICK p \in Nat : p = b + j - 1
        BY <1>4
    <2>3. p < 2 * Slots
        BY <1>3, <1>4, <2>2
    <2>4. (p % Slots) = IF p < Slots THEN p ELSE p - Slots
        BY <2>3, Wrapped
    <2> QED
        BY <1>3, <2>2, <2>4 DEF CkptSlot
<1>11. slot = CkptSlot(e, n + 1)
    BY <1>0, <1>1, <1>3
<1>12. slot \in 0 .. S - 1
    <2>1. n + 1 \in 1 .. n + 1
        OBVIOUS
    <2> QED
        BY <1>4, <1>10, <1>11, <2>1
<1>13. \A j \in 1 .. n : CkptSlot(e, j) # slot /\ CkptSlot(e, j) \in 0 .. S - 1
    <2>1. TAKE j \in 1 .. n
    <2>2. n + 1 \in 1 .. n + 1 /\ j \in 1 .. n + 1
        OBVIOUS
    <2>3. PICK p, q : p = CkptSlot(e, j) /\ q = slot
        OBVIOUS
    <2>4. /\ p = IF b + j - 1 < S THEN b + j - 1 ELSE b + j - 1 - S
          /\ q = IF b + (n + 1) - 1 < S THEN b + (n + 1) - 1 ELSE b + (n + 1) - 1 - S
        BY <1>10, <1>11, <2>2, <2>3
    <2>5. p # q /\ p \in 0 .. S - 1
        BY <1>4, <2>4
    <2> QED
        BY <2>3, <2>5
<1>14. PICK h : h = t.ckptBuf
    OBVIOUS
<1>15. /\ h = [i \in 0 .. Slots - 1 |-> h[i]]
       /\ h[slot] = r
       /\ \A j \in 1 .. n : h[CkptSlot(e, j)] = g[CkptSlot(e, j)]
    <2>1. h = [g EXCEPT ![slot] = r]
        BY <1>0, <1>1, <1>14
    <2>2. DOMAIN g = 0 .. Slots - 1 /\ slot \in 0 .. Slots - 1
        BY <1>2, <1>3, <1>12
    <2>3. h[slot] = r
        BY <2>1, <2>2
    <2>4. ASSUME NEW j \in 1 .. n
          PROVE  h[CkptSlot(e, j)] = g[CkptSlot(e, j)]
        <3>1. PICK p \in 0 .. Slots - 1 : p = CkptSlot(e, j) /\ p # slot
            BY <1>3, <1>13
        <3> QED
            BY <2>1, <2>2, <3>1
    <2>5. h = [i \in 0 .. Slots - 1 |-> h[i]]
        BY <2>1, <2>2
    <2> QED
        BY <2>3, <2>4, <2>5
<1>16. \A i : CkptSlot(t, i) = CkptSlot(e, i)
    BY <1>0 DEF CkptSlot
<1>17. t.ckptLens = w /\ t.kvLen = k /\ t.rows = e.rows /\ t.recurrent = e.recurrent
    BY <1>0, <1>1, <1>3, <1>5 DEF SameText, SameModel
<1>18. ASSUME NEW j \in 1 .. n + 1, t.recurrent
       PROVE  t.ckptBuf[CkptSlot(t, j)] = SubSeq(t.rows, 1, t.ckptLens[j])
    <2>1. CASE j = n + 1
        <3>1. r = SubSeq(e.rows, 1, e.kvLen)
            BY <1>17, <1>18 DEF Content
        <3> QED
            BY <1>3, <1>6, <1>11, <1>14, <1>15, <1>16, <1>17, <2>1, <3>1
    <2>2. CASE j # n + 1
        <3>1. j \in 1 .. n
            BY <2>2
        <3>2. g[CkptSlot(e, j)] = SubSeq(e.rows, 1, u[j])
            BY <1>1, <1>3, <1>17, <1>18, <3>1 DEF Core, Checkpoints
        <3>3. t.ckptBuf[CkptSlot(t, j)] = g[CkptSlot(e, j)]
            BY <1>14, <1>15, <1>16, <3>1
        <3>4. t.ckptLens[j] = u[j]
            BY <1>6, <1>17, <3>1
        <3> QED
            BY <1>17, <3>2, <3>3, <3>4
    <2> QED
        BY <2>1, <2>2
<1>19. Typed(t)
    BY DEF Core, Typed, SameModel, SameText
<1>20. Absorbed(t)
    BY DEF Core, Absorbed, SameModel, SameText, Content
<1>21. Checkpoints(t)
    <2>1. t.ckptLens \in Seq(Nat) /\ Len(t.ckptLens) = n + 1 /\ n + 1 <= Slots
        BY <1>3, <1>4, <1>6, <1>17
    <2>2. t.ckptBase \in 0 .. Slots - 1
        BY <1>0, <1>2
    <2>3. t.ckptBuf = [i \in 0 .. Slots - 1 |-> t.ckptBuf[i]]
        BY <1>14, <1>15
    <2> QED
        BY <1>8, <1>9, <1>17, <1>18, <2>1, <2>2, <2>3 DEF Checkpoints
<1> QED
    BY <1>19, <1>20, <1>21 DEF Core

\* transformer_checkpoint leaves a state at rest.
LEMMA CheckpointRest ==
    ASSUME NEW s, Rest(s), NEW canFail, NEW o \in Checkpoint(s, canFail), o.faults = 0
    PROVE  Rest(o.s) /\ SameModel(s, o.s)
<1>1. PICK x \in Settle(s, canFail) : IF x.st = "OK" THEN o \in CheckpointSettled(x.s, canFail) ELSE o = x
    BY DEF Checkpoint, Then
<1>2. x.faults = 0
    BY <1>1, SettleCounted DEF Counted, Tallied
<1>3. Rest(x.s) /\ SameModel(s, x.s)
    BY <1>2, SettleRest
<1>4. CASE x.st # "OK"
    BY <1>1, <1>3, <1>4
<1>5. CASE x.st = "OK"
    <2>1. PICK y : y = x.s
        OBVIOUS
    <2> DEFINE e == Evicted(y)
               c == Commit(e)
               slot == CkptSlot(e, Len(e.ckptLens) + 1)
    <2>2. PICK g, w : g = [e.ckptBuf EXCEPT ![slot] = y.rec] /\ w = Append(e.ckptLens, y.kvLen)
        OBVIOUS
    <2> DEFINE t == [c EXCEPT !.ckptBuf = g, !.ckptLens = w]
    <2>3. Core(y) /\ Current(y) /\ ~y.txn.active /\ (y.deferred => y.logitsValid)
        BY <1>3, <2>1 DEF Rest
    <2>4. /\ Core(e) /\ SameModel(y, e) /\ SameText(y, e) /\ SameLogits(y, e)
          /\ e.deferred = y.deferred /\ e.prefixLength = y.prefixLength /\ Len(e.ckptLens) < Slots
        BY <2>3, EvictedCore
    <2>5. o \in Refused(y, "UNSUPPORTED") \/ o = Ok(t)
        <3>1. \/ o \in Refused(y, "UNSUPPORTED")
              \/ o = Ok([c EXCEPT !.ckptBuf[slot] = y.rec, !.ckptLens = Append(@, y.kvLen)])
              \/ \E z : o = Failed(z)
            BY <1>1, <1>5, <2>1 DEF CheckpointSettled
        <3>2. IsSession(c) /\ c.ckptBuf = e.ckptBuf /\ c.ckptLens = e.ckptLens
            BY <2>4, CommitFields DEF Core, Typed, SameCkpts
        <3>3. [c EXCEPT !.ckptBuf[slot] = y.rec, !.ckptLens = Append(@, y.kvLen)] = t
            <4> HIDE DEF c, e, slot
            <4> QED
                BY <2>2, <3>2 DEF IsSession
        <3> QED
            BY <3>1, <3>3, FailedCounted
    <2>6. CASE o \in Refused(y, "UNSUPPORTED")
        BY <1>3, <2>1, <2>6, RefusedCounted
    <2>7. CASE o = Ok(t)
        <3> HIDE DEF e
        <3>1. /\ IsSession(c) /\ SameModel(e, c) /\ SameCkpts(e, c) /\ SameText(e, c) /\ SameLogits(e, c)
              /\ c.prefixLength = e.prefixLength /\ c.deferred = e.deferred /\ ~c.txn.active
            BY <2>4, CommitFields DEF Core, Typed
        <3> HIDE DEF c, slot
        <3>2. /\ IsSession(t) /\ SameModel(c, t) /\ SameText(c, t) /\ SameLogits(c, t)
              /\ t.prefixLength = c.prefixLength /\ t.deferred = c.deferred /\ t.txn = c.txn
              /\ t.ckptBase = c.ckptBase /\ t.ckptBuf = g /\ t.ckptLens = w
            BY <3>1 DEF IsSession, SameModel, SameText, SameLogits
        <3> HIDE DEF t
        <3>3. /\ SameModel(e, t) /\ SameText(e, t) /\ SameLogits(e, t) /\ t.ckptBase = e.ckptBase
            BY <3>1, <3>2 DEF SameModel, SameText, SameLogits, SameCkpts
        <3>4. e.recurrent => y.rec = Content(e)
            BY <2>3, <2>4 DEF Core, Absorbed, SameModel, SameText, Content
        <3>5. w = Append(e.ckptLens, e.kvLen)
            BY <2>2, <2>4 DEF SameText
        <3>6. t.ckptBuf = [e.ckptBuf EXCEPT ![slot] = y.rec]
            BY <2>2, <3>2
        <3>7. Core(t)
            <4>1. IsCheckpointed(e, y.rec, slot, t)
                BY <3>2, <3>3, <3>5, <3>6 DEF IsCheckpointed, slot
            <4>2. IsSession(t) /\ t.prefixLength = e.prefixLength
                BY <3>1, <3>2
            <4>3. Core(e) /\ Len(e.ckptLens) < Slots
                BY <2>4
            <4> QED
                BY <3>3, <3>4, <4>1, <4>2, <4>3, CheckpointedCore
        <3>8. Current(t)
            BY <2>3, <2>4, <3>3 DEF Current, SameText, SameLogits, Content
        <3>9. t.deferred => t.logitsValid
            BY <2>3, <2>4, <3>1, <3>2, <3>3 DEF SameLogits
        <3>10. SameModel(s, t)
            BY <1>3, <2>1, <2>4, <3>3 DEF SameModel
        <3> QED
            BY <2>7, <3>1, <3>2, <3>7, <3>8, <3>9, <3>10, OkCounted DEF Rest
    <2> QED
        BY <2>5, <2>6, <2>7
<1> QED
    BY <1>4, <1>5

\* t is s with the checkpoints that are not longer than n.
IsPruned(s, n, t) ==
    \E j \in 0 .. Len(s.ckptLens) :
        /\ j > 0 => s.ckptLens[j] <= n
        /\ IsSession(t) /\ SameModel(s, t) /\ SameText(s, t) /\ t.prefixLength = s.prefixLength
        /\ t.txn = s.txn /\ t.ckptLens = SubSeq(s.ckptLens, 1, j)
        /\ t.ckptBase = s.ckptBase /\ t.ckptBuf = s.ckptBuf

\* Pruning keeps the checkpoints up to the newest that fits.
LEMMA PrunedFields ==
    ASSUME NEW s, IsSession(s), s.ckptLens \in Seq(Nat), NEW n \in Nat
    PROVE  IsPruned(s, n, Pruned(s, n))
<1>1. PICK u : u = s.ckptLens
    OBVIOUS
<1>2. PICK L \in Nat : L = Len(u)
    BY <1>1
<1> DEFINE keep == {m \in 0 .. L : m = 0 \/ u[m] <= n}
           gap == {L - m : m \in keep}
<1>3. 0 \in keep
    OBVIOUS
<1>4. PICK d \in gap : \A k \in gap : d <= k
    <2>1. gap \in SUBSET Nat /\ gap # {}
        BY <1>3
    <2> HIDE DEF gap
    <2> QED
        BY <2>1, LeastNumber
<1>5. PICK m \in keep : d = L - m
    OBVIOUS
<1>6. \A i \in keep : i <= m
    <2>1. TAKE i \in keep
    <2>2. L - m <= L - i
        BY <1>4, <1>5
    <2> QED
        BY <2>2
<1>7. PICK j \in keep : j = CHOOSE x \in keep : \A i \in keep : i <= x
    <2> HIDE DEF keep
    <2> QED
        BY <1>6
<1>8. Pruned(s, n) = [s EXCEPT !.ckptLens = SubSeq(@, 1, j)]
    BY <1>1, <1>2, <1>7 DEF Pruned
<1>9. PICK w : w = SubSeq(s.ckptLens, 1, j)
    OBVIOUS
<1> DEFINE t == [s EXCEPT !.ckptLens = w]
<1>10. Pruned(s, n) = t
    BY <1>8, <1>9 DEF IsSession
<1>11. /\ IsSession(t) /\ SameModel(s, t) /\ SameText(s, t) /\ t.prefixLength = s.prefixLength
       /\ t.txn = s.txn /\ t.ckptLens = w
       /\ t.ckptBase = s.ckptBase /\ t.ckptBuf = s.ckptBuf
    BY DEF IsSession, SameModel, SameText
<1> HIDE DEF t
<1>12. j \in 0 .. Len(s.ckptLens) /\ (j > 0 => s.ckptLens[j] <= n)
    <2>1. j \in 0 .. L /\ (j = 0 \/ u[j] <= n)
        OBVIOUS
    <2>2. j > 0 => j # 0
        BY <2>1
    <2> QED
        BY <1>1, <1>2, <2>1, <2>2
<1> QED
    BY <1>9, <1>10, <1>11, <1>12 DEF IsPruned

\* A state cut to n whose logits are dropped and whose debt is gone.
LEMMA DroppedRest ==
    ASSUME NEW s, NEW r, Core(r), ~r.txn.active, SameModel(s, r)
    PROVE  LET t == [DropLogits(r) EXCEPT !.deferred = FALSE] IN Rest(t) /\ SameModel(s, t)
<1> DEFINE d == DropLogits(r)
<1>1. /\ Core(d) /\ ~d.logitsValid /\ Current(d) /\ SameModel(r, d) /\ d.txn = r.txn
    BY DropLogitsCore
<1> HIDE DEF d
<1>2. PICK f \in BOOLEAN : f = FALSE
    OBVIOUS
<1> DEFINE t == [d EXCEPT !.deferred = f]
<1>3. /\ Core(t) /\ Current(t) /\ SameModel(d, t) /\ t.txn = d.txn /\ t.deferred = f
    BY <1>1, PaidCore
<1> HIDE DEF t
<1>4. SameModel(s, t)
    BY <1>1, <1>3 DEF SameModel
<1>5. Rest(t)
    BY <1>1, <1>2, <1>3 DEF Rest
<1>6. t = [DropLogits(r) EXCEPT !.deferred = FALSE]
    BY <1>2 DEF t, d
<1> QED
    BY <1>4, <1>5, <1>6

\* The outcome of a truncation in which nothing fails.
TruncateSettledDone(s, n, o) == Rest(o.s) /\ SameModel(s, o.s)

\* A truncation behind the settle: by reset, from a checkpoint, or by length alone.
LEMMA TruncateSettledRest ==
    ASSUME NEW s, Rest(s), NEW n \in Nat, NEW canFail,
           NEW o \in TruncateSettled(s, n, canFail), o.faults = 0
    PROVE  TruncateSettledDone(s, n, o)
<1>1. Core(s) /\ ~s.txn.active
    BY DEF Rest
<1>2. \/ \E st : st # "OK" /\ o \in Refused(s, st)
      \/ o = Ok(s)
      \/ n = 0 /\ o = Ok(Reset(s))
      \/ /\ n <= s.kvLen /\ ~(n < s.prefixLength) /\ CkptAt(s, n) # {}
         /\ o = Ok([DropLogits(CheckpointRestore(s, CHOOSE i \in CkptAt(s, n) : TRUE)) EXCEPT !.deferred = FALSE])
      \/ /\ n <= s.kvLen /\ ~(n < s.prefixLength) /\ ~s.recurrent
         /\ o = Ok([DropLogits(Cut(Pruned(Commit(s), n), n)) EXCEPT !.deferred = FALSE])
    <2>1. s.kvLen \in Nat /\ (~(n > s.kvLen) => n <= s.kvLen)
        BY <1>1 DEF Core, Typed
    <2>2. \A z : o # Failed(z)
        BY FailedCounted
    <2> QED
        BY <2>1, <2>2 DEF TruncateSettled
<1>3. CASE \E st : st # "OK" /\ o \in Refused(s, st)
    BY <1>3, RefusedCounted DEF TruncateSettledDone, SameModel
<1>4. CASE o = Ok(s)
    BY <1>4, OkCounted DEF TruncateSettledDone, SameModel
<1>5. CASE o = Ok(Reset(s))
    BY <1>1, <1>5, OkCounted, ResetRest DEF TruncateSettledDone
<1>6. /\ s.rows \in Seq(Tokens) /\ s.kvLen \in Nat /\ s.kvLen <= Len(s.rows) /\ s.prefixLength \in 0 .. s.kvLen
      /\ s.ckptLens \in Seq(Nat) /\ IsSession(s)
    BY <1>1 DEF Core, Typed, Checkpoints
<1> DEFINE c == Commit(s)
<1>7. /\ IsSession(c) /\ SameModel(s, c) /\ SameCkpts(s, c) /\ SameText(s, c)
      /\ c.prefixLength = s.prefixLength /\ ~c.txn.active
    BY <1>6, CommitFields
<1>8. CASE /\ n <= s.kvLen /\ ~(n < s.prefixLength) /\ CkptAt(s, n) # {}
           /\ o = Ok([DropLogits(CheckpointRestore(s, CHOOSE i \in CkptAt(s, n) : TRUE)) EXCEPT !.deferred = FALSE])
    <2>1. PICK j \in CkptAt(s, n) : j = CHOOSE i \in CkptAt(s, n) : TRUE
        BY <1>8
    <2>2. j \in 1 .. Len(s.ckptLens) /\ s.ckptLens[j] = n
        BY <1>6 DEF CkptAt
    <2>3. PICK r, w : r = (IF s.recurrent THEN s.ckptBuf[CkptSlot(s, j)] ELSE s.rec) /\ w = SubSeq(s.ckptLens, 1, j)
        OBVIOUS
    <2> DEFINE t == [c EXCEPT !.rec = r, !.kvLen = n, !.ckptLens = w]
    <2>4. CheckpointRestore(s, j) = t
        <3> HIDE DEF c
        <3>1. c.rec = s.rec /\ c.ckptLens = s.ckptLens
            BY <1>7 DEF SameText, SameCkpts
        <3>2. [c EXCEPT !.rec = IF s.recurrent THEN s.ckptBuf[CkptSlot(s, j)] ELSE @,
                        !.kvLen = s.ckptLens[j], !.ckptLens = SubSeq(@, 1, j)] = t
            BY <1>7, <2>2, <2>3, <3>1 DEF IsSession
        <3> QED
            BY <3>2 DEF CheckpointRestore, c
    <2> HIDE DEF c
    <2>5. /\ IsSession(t) /\ SameModel(c, t) /\ t.rows = c.rows /\ t.rec = r /\ t.kvLen = n /\ t.ckptLens = w
          /\ t.prefixLength = c.prefixLength /\ t.txn = c.txn /\ t.ckptBase = c.ckptBase /\ t.ckptBuf = c.ckptBuf
        BY <1>7 DEF IsSession, SameModel
    <2> HIDE DEF t
    <2>6. /\ SameModel(s, t) /\ t.rows = s.rows /\ t.prefixLength = s.prefixLength
          /\ t.ckptLens = SubSeq(s.ckptLens, 1, j) /\ t.ckptBase = s.ckptBase /\ t.ckptBuf = s.ckptBuf
        BY <1>7, <2>3, <2>5 DEF SameModel, SameText, SameCkpts
    <2>7. s.recurrent => t.rec = SubSeq(s.rows, 1, n)
        BY <1>1, <2>2, <2>3, <2>5 DEF Core, Checkpoints
    <2>8. j \in 0 .. Len(s.ckptLens) /\ (j > 0 => s.ckptLens[j] <= n) /\ s.prefixLength <= n
        BY <1>6, <1>8, <2>2
    <2>9. Core(t)
        BY <1>1, <1>8, <2>5, <2>6, <2>7, <2>8, CutBackCore
    <2>10. ~t.txn.active
        BY <1>7, <2>5
    <2>11. o.s = [DropLogits(t) EXCEPT !.deferred = FALSE]
        BY <1>8, <2>1, <2>4, OkCounted
    <2> QED
        BY <2>6, <2>9, <2>10, <2>11, DroppedRest DEF TruncateSettledDone
<1>9. CASE /\ n <= s.kvLen /\ ~(n < s.prefixLength) /\ ~s.recurrent
           /\ o = Ok([DropLogits(Cut(Pruned(Commit(s), n), n)) EXCEPT !.deferred = FALSE])
    <2> DEFINE p == Pruned(c, n)
               t == Cut(p, n)
    <2>1. c.ckptLens = s.ckptLens
        BY <1>7 DEF SameCkpts
    <2>2. PICK j \in 0 .. Len(s.ckptLens) :
              /\ j > 0 => s.ckptLens[j] <= n
              /\ IsSession(p) /\ SameModel(c, p) /\ SameText(c, p) /\ p.prefixLength = c.prefixLength
              /\ p.txn = c.txn /\ p.ckptLens = SubSeq(s.ckptLens, 1, j)
              /\ p.ckptBase = c.ckptBase /\ p.ckptBuf = c.ckptBuf
        <3> HIDE DEF c
        <3>1. IsPruned(c, n, p)
            BY <1>6, <1>7, <2>1, PrunedFields
        <3> QED
            BY <2>1, <3>1 DEF IsPruned
    <2> HIDE DEF p
    <2>3. /\ IsSession(t) /\ SameModel(p, t) /\ SameCkpts(p, t) /\ t.rows = p.rows /\ t.kvLen = n
          /\ t.prefixLength = p.prefixLength /\ t.txn = p.txn
        BY <2>2, CutFields
    <2> HIDE DEF t, c
    <2>4. /\ SameModel(s, t) /\ t.rows = s.rows /\ t.prefixLength = s.prefixLength
          /\ t.ckptLens = SubSeq(s.ckptLens, 1, j) /\ t.ckptBase = s.ckptBase /\ t.ckptBuf = s.ckptBuf
        BY <1>7, <2>2, <2>3 DEF SameModel, SameText, SameCkpts
    <2>5. s.prefixLength <= n
        BY <1>6, <1>9
    <2>6. Core(t)
        BY <1>1, <1>9, <2>2, <2>3, <2>4, <2>5, CutBackCore
    <2>7. o.s = [DropLogits(t) EXCEPT !.deferred = FALSE]
        BY <1>9, OkCounted DEF t, p, c
    <2>8. ~t.txn.active
        BY <1>7, <2>2, <2>3
    <2> QED
        <3>1. LET y == [DropLogits(t) EXCEPT !.deferred = FALSE] IN Rest(y) /\ SameModel(s, y)
            BY <2>4, <2>6, <2>8, DroppedRest
        <3> QED
            BY <2>7, <3>1 DEF TruncateSettledDone
<1> QED
    BY <1>2, <1>3, <1>4, <1>5, <1>8, <1>9

\* geist_session_truncate leaves a state at rest.
LEMMA TruncateRest ==
    ASSUME NEW s, Rest(s), NEW n \in Nat, NEW canFail, NEW o \in Truncate(s, n, canFail), o.faults = 0
    PROVE  Rest(o.s) /\ SameModel(s, o.s)
<1>1. PICK x \in Settle(s, canFail) : IF x.st = "OK" THEN o \in TruncateSettled(x.s, n, canFail) ELSE o = x
    BY DEF Truncate, Then
<1>2. x.faults = 0
    BY <1>1, SettleCounted DEF Counted, Tallied
<1>3. Rest(x.s) /\ SameModel(s, x.s)
    BY <1>2, SettleRest
<1>4. CASE x.st # "OK"
    BY <1>1, <1>3, <1>4
<1>5. CASE x.st = "OK"
    <2>1. TruncateSettledDone(x.s, n, o)
        BY <1>1, <1>3, <1>5, TruncateSettledRest
    <2> QED
        BY <1>3, <2>1 DEF TruncateSettledDone, SameModel
<1> QED
    BY <1>4, <1>5

\* A snapshot of a session like s: text, pending logits and recurrence agree.
GoodImage(img, s) ==
    /\ img.rows \in Seq(Tokens) /\ Len(img.rows) <= s.maxLen
    /\ img.prefixLength \in 0 .. Len(img.rows)
    /\ s.recurrent => img.rec = img.rows /\ img.prefixLength = 0
    /\ img.logitsValid => img.pending.on = img.rows /\ img.pending.rec = img.rec
    /\ img.deferred => img.logitsValid

\* A snapshot at rest is good.
LEMMA ImageGood ==
    ASSUME NEW s, Rest(s)
    PROVE  GoodImage(Image(s), s)
<1>1. /\ Content(s) \in Seq(Tokens) /\ Len(Content(s)) = s.kvLen
      /\ s.kvLen <= s.maxLen /\ s.prefixLength \in 0 .. s.kvLen
    BY ContentTyped DEF Rest, Core, Typed
<1> DEFINE i == Image(s)
<1>2. /\ i.rows = Content(s) /\ i.prefixLength = s.prefixLength /\ i.rec = s.rec
      /\ i.logitsValid = s.logitsValid /\ i.pending = s.pending /\ i.deferred = s.deferred
    BY DEF Image
<1> HIDE DEF i
<1>3. s.recurrent => s.rec = Content(s) /\ s.prefixLength = 0
    BY DEF Rest, Core, Absorbed
<1>4. /\ s.logitsValid => s.pending.on = Content(s) /\ s.pending.rec = s.rec
      /\ s.deferred => s.logitsValid
    BY DEF Rest, Current
<1> QED
    BY <1>1, <1>2, <1>3, <1>4 DEF GoodImage, i

\* Another session of the same model may restore it.
LEMMA GoodImageSame ==
    ASSUME NEW s, NEW t, SameModel(s, t), NEW img, GoodImage(img, s)
    PROVE  GoodImage(img, t)
BY DEF GoodImage, SameModel

\* A restored session is what the image was taken of.
LEMMA RestoreRest ==
    ASSUME NEW s, Core(s), NEW img, GoodImage(img, s), NEW canFail,
           NEW o \in Restore(s, img, canFail), o.faults = 0
    PROVE  Rest(o.s) /\ SameModel(s, o.s)
<1> DEFINE z == Reset(s)
<1>1. /\ IsSession(z) /\ SameModel(s, z) /\ z.rows = s.rows /\ z.kvLen = s.prefixLength /\ z.rec = <<>>
      /\ z.prefixLength = s.prefixLength /\ z.deferred = FALSE /\ z.logitsValid = FALSE /\ ~z.txn.active
      /\ z.ckptLens = <<>> /\ z.ckptBase = 0 /\ z.ckptBuf = s.ckptBuf
    BY ResetFields DEF Core, Typed
<1>2. PICK w : w = img.rows \o SubSeq(s.rows, Len(img.rows) + 1, Len(s.rows))
    OBVIOUS
<1>3. PICK n, p, q, l, g, d : /\ n = Len(img.rows) /\ p = img.prefixLength /\ q = img.rec
                              /\ l = img.logitsValid /\ g = img.pending /\ d = img.deferred
    OBVIOUS
<1> DEFINE r == [z EXCEPT !.prefixLength = 0, !.kvLen = 0]
           t == [r EXCEPT !.rows = w, !.kvLen = n, !.prefixLength = p, !.rec = q,
                          !.logitsValid = l, !.pending = g, !.deferred = d]
<1>4. o = Ok([r EXCEPT !.rows = img.rows \o SubSeq(@, Len(img.rows) + 1, Len(@)),
                  !.kvLen = Len(img.rows), !.prefixLength = img.prefixLength, !.rec = img.rec,
                  !.logitsValid = img.logitsValid, !.pending = img.pending,
                  !.deferred = img.deferred])
    BY FailedCounted DEF Restore
<1> HIDE DEF z
<1>5. /\ IsSession(r) /\ SameModel(z, r) /\ r.rows = z.rows /\ r.txn = z.txn /\ SameCkpts(z, r)
    BY <1>1 DEF IsSession, SameModel, SameCkpts
<1> HIDE DEF r
<1>6. o = Ok(t)
    BY <1>1, <1>2, <1>3, <1>4, <1>5 DEF IsSession
<1>7. /\ IsSession(t) /\ SameModel(r, t) /\ SameCkpts(r, t) /\ t.rows = w /\ t.kvLen = n /\ t.prefixLength = p
      /\ t.rec = q /\ t.logitsValid = l /\ t.pending = g /\ t.deferred = d /\ t.txn = r.txn
    BY <1>5 DEF IsSession, SameModel, SameCkpts
<1> HIDE DEF t
<1>8. SameModel(s, t) /\ t.ckptLens = <<>> /\ t.ckptBase = 0 /\ t.ckptBuf = s.ckptBuf /\ ~t.txn.active
    BY <1>1, <1>5, <1>7 DEF SameModel, SameCkpts
<1>9. /\ img.rows \in Seq(Tokens) /\ n \in Nat /\ n <= s.maxLen /\ p \in 0 .. n
      /\ s.rows \in Seq(Tokens) /\ 0 \in 0 .. Len(s.rows)
    BY <1>3 DEF GoodImage, Core, Typed
<1>10. w \in Seq(Tokens) /\ Len(w) >= n /\ SubSeq(w, 1, n) = img.rows
    <2>1. SubSeq(s.rows, 1, 0) = <<>>
        <3>1. SubSeq(s.rows, 1, 0) \in Seq(Tokens) /\ Len(SubSeq(s.rows, 1, 0)) = 0
            BY <1>9, CutText
        <3> QED
            BY <3>1, EmptySeq
    <2>2. <<>> \o img.rows = img.rows
        BY <1>9, ConcatEmptySeq
    <2>3. 0 + Len(img.rows) + 1 = Len(img.rows) + 1 /\ 0 + Len(img.rows) = n
        BY <1>3, <1>9
    <2>4. Splice(s.rows, 0, img.rows) = w
        BY <1>2, <2>1, <2>2, <2>3 DEF Splice
    <2>5. IsSplice(Tokens, s.rows, 0, img.rows, w)
        BY <1>9, <2>4, Spliced
    <2> QED
        BY <1>3, <2>1, <2>2, <2>3, <2>5 DEF IsSplice
<1>11. Content(t) = img.rows
    BY <1>7, <1>10 DEF Content
<1>12. Typed(t)
    <2>1. s.maxLen \in MaxLens
        BY DEF Core, Typed
    <2> QED
        BY <1>7, <1>8, <1>9, <1>10, <2>1 DEF Typed, SameModel
<1>13. Absorbed(t)
    BY <1>3, <1>7, <1>8, <1>11 DEF Absorbed, GoodImage, SameModel
<1>14. Checkpoints(t)
    <2>1. s.ckptBuf = [i \in 0 .. Slots - 1 |-> s.ckptBuf[i]]
        BY DEF Core, Checkpoints
    <2>2. <<>> \in Seq(Nat) /\ Len(<<>>) = 0
        OBVIOUS
    <2> QED
        BY <1>8, <2>1, <2>2, SessionConstants DEF Checkpoints
<1>15. Current(t) /\ (t.deferred => t.logitsValid)
    BY <1>3, <1>7, <1>11 DEF Current, GoodImage
<1>16. Rest(t)
    BY <1>8, <1>12, <1>13, <1>14, <1>15 DEF Rest, Core
<1> QED
    BY <1>6, <1>8, <1>16, OkCounted

\* A new session is at rest.
LEMMA NewSessionRest ==
    ASSUME NEW m \in Models
    PROVE  Rest(NewSession(m))
<1> DEFINE s == NewSession(m)
<1>1. /\ s.recurrent = m.recurrent /\ s.keepsRows = m.keepsRows /\ s.maxLen = m.maxLen /\ s.usesMtp = m.mtp
      /\ s.rows = <<>> /\ s.kvLen = 0 /\ s.prefixLength = 0 /\ s.rec = <<>> /\ s.mtp = NoMtp
      /\ s.logitsValid = FALSE /\ s.pending = NoPending /\ s.deferred = FALSE /\ s.txn = NoTxn
      /\ s.rowsOff = FALSE /\ s.ckptLens = <<>> /\ s.ckptBase = 0
      /\ s.ckptBuf = [i \in 0 .. Slots - 1 |-> <<>>] /\ s.cancel = FALSE
    BY DEF NewSession
<1>2. IsSession(s)
    <2>1. PICK b, p, x, y : b = [i \in 0 .. Slots - 1 |-> <<>>] /\ p = NoPending /\ x = NoTxn /\ y = NoMtp
        OBVIOUS
    <2> QED
        BY <2>1 DEF NewSession, IsSession
<1>3. ~s.txn.active
    BY <1>1 DEF NoTxn
<1> HIDE DEF s
<1>4. <<>> \in Seq(Tokens) /\ <<>> \in Seq(Nat) /\ Len(<<>>) = 0
    OBVIOUS
<1>5. s.maxLen \in MaxLens /\ s.maxLen \in Nat
    BY <1>1, SessionConstants DEF MaxLens
<1>6. Typed(s)
    BY <1>1, <1>2, <1>4, <1>5 DEF Typed
<1>7. Content(s) = <<>>
    BY <1>1, <1>4, CutText, EmptySeq DEF Content
<1>8. Absorbed(s)
    BY <1>1, <1>7 DEF Absorbed
<1>9. Checkpoints(s)
    BY <1>1, <1>4, SessionConstants DEF Checkpoints
<1>10. Current(s) /\ (s.deferred => s.logitsValid)
    BY <1>1 DEF Current
<1> QED
    BY <1>3, <1>6, <1>8, <1>9, <1>10 DEF Rest, Core, s
-----------------------------------------------------------------------------
(* Beginnings of texts. *)

\* Contract!Begins, for sequences that are not the state's.
StartOf(s, t) == Len(s) <= Len(t) /\ s = SubSeq(t, 1, Len(s))

\* A text that agrees with a longer one begins it.
LEMMA StartPointwise ==
    ASSUME NEW S, NEW s \in Seq(S), NEW t \in Seq(S), Len(s) <= Len(t),
           \A i \in 1 .. Len(s) : s[i] = t[i]
    PROVE  StartOf(s, t)
<1>1. PICK n \in Nat, m \in Nat : n = Len(s) /\ m = Len(t)
    OBVIOUS
<1>2. n \in 0 .. Len(t)
    BY <1>1
<1>3. SubSeq(t, 1, n) \in Seq(S) /\ Len(SubSeq(t, 1, n)) = n /\ \A i \in 1 .. n : SubSeq(t, 1, n)[i] = t[i]
    BY <1>2, CutText
<1>4. s = SubSeq(t, 1, n)
    <2>1. \A i \in 1 .. Len(s) : s[i] = SubSeq(t, 1, n)[i]
        BY <1>1, <1>3
    <2> QED
        BY <1>1, <1>3, <2>1, SeqEqual
<1> QED
    BY <1>1, <1>4 DEF StartOf

\* What a beginning agrees with.
LEMMA StartAgrees ==
    ASSUME NEW S, NEW s \in Seq(S), NEW t \in Seq(S), StartOf(s, t)
    PROVE  Len(s) <= Len(t) /\ \A i \in 1 .. Len(s) : s[i] = t[i]
<1>1. PICK n \in Nat : n = Len(s)
    OBVIOUS
<1>2. n \in 0 .. Len(t) /\ s = SubSeq(t, 1, n)
    BY <1>1 DEF StartOf
<1>3. \A i \in 1 .. n : SubSeq(t, 1, n)[i] = t[i]
    BY <1>2, CutText
<1> QED
    BY <1>1, <1>2, <1>3

\* A text begins itself.
LEMMA StartSelf ==
    ASSUME NEW S, NEW s \in Seq(S)
    PROVE  StartOf(s, s)
BY StartPointwise

\* What is appended leaves the beginning.
LEMMA StartAppended ==
    ASSUME NEW S, NEW s \in Seq(S), NEW t \in Seq(S)
    PROVE  StartOf(s, s \o t)
<1>1. PICK n \in Nat, m \in Nat : n = Len(s) /\ m = Len(t)
    OBVIOUS
<1>2. /\ s \o t \in Seq(S) /\ Len(s \o t) = Len(s) + Len(t)
      /\ \A i \in 1 .. Len(s) + Len(t) : (s \o t)[i] = IF i <= Len(s) THEN s[i] ELSE t[i - Len(s)]
    BY ConcatProperties
<1>3. Len(s) <= Len(s \o t)
    BY <1>1, <1>2
<1>4. \A i \in 1 .. Len(s) : s[i] = (s \o t)[i]
    <2>1. TAKE i \in 1 .. Len(s)
    <2>2. i \in 1 .. Len(s) + Len(t) /\ i <= Len(s)
        BY <1>1
    <2> QED
        BY <1>2, <2>2
<1> QED
    BY <1>2, <1>3, <1>4, StartPointwise

\* A beginning of a beginning.
LEMMA StartTrans ==
    ASSUME NEW S, NEW s \in Seq(S), NEW t \in Seq(S), NEW u \in Seq(S), StartOf(s, t), StartOf(t, u)
    PROVE  StartOf(s, u)
<1>1. PICK n \in Nat, m \in Nat, k \in Nat : n = Len(s) /\ m = Len(t) /\ k = Len(u)
    OBVIOUS
<1>2. n <= m /\ \A i \in 1 .. n : s[i] = t[i]
    BY <1>1, StartAgrees
<1>3. m <= k /\ \A i \in 1 .. m : t[i] = u[i]
    BY <1>1, StartAgrees
<1>4. n <= k
    BY <1>2, <1>3
<1>5. \A i \in 1 .. n : s[i] = u[i]
    BY <1>2, <1>3
<1> QED
    BY <1>1, <1>4, <1>5, StartPointwise

\* Two beginnings of one text, by their lengths.
LEMMA StartCut ==
    ASSUME NEW S, NEW s \in Seq(S), NEW n \in 0 .. Len(s), NEW m \in 0 .. n
    PROVE  StartOf(SubSeq(s, 1, m), SubSeq(s, 1, n))
<1>1. m \in 0 .. Len(s)
    OBVIOUS
<1>2. /\ SubSeq(s, 1, n) \in Seq(S) /\ Len(SubSeq(s, 1, n)) = n
      /\ SubSeq(s, 1, m) \in Seq(S) /\ Len(SubSeq(s, 1, m)) = m
      /\ \A i \in 1 .. n : SubSeq(s, 1, n)[i] = s[i]
      /\ \A i \in 1 .. m : SubSeq(s, 1, m)[i] = s[i]
    BY <1>1, CutText
<1>3. PICK u, v : u = SubSeq(s, 1, m) /\ v = SubSeq(s, 1, n)
    OBVIOUS
<1>4. u \in Seq(S) /\ v \in Seq(S) /\ Len(u) = m /\ Len(v) = n /\ m <= n /\ \A i \in 1 .. m : u[i] = v[i]
    BY <1>2, <1>3
<1>5. StartOf(u, v)
    BY <1>4, StartPointwise
<1> QED
    BY <1>3, <1>5

\* A prefix of a prefix.
LEMMA CutOfCut ==
    ASSUME NEW S, NEW s \in Seq(S), NEW n \in 0 .. Len(s), NEW m \in 0 .. n
    PROVE  SubSeq(SubSeq(s, 1, n), 1, m) = SubSeq(s, 1, m)
<1>1. SubSeq(s, 1, n) \in Seq(S) /\ Len(SubSeq(s, 1, n)) = n /\ \A i \in 1 .. n : SubSeq(s, 1, n)[i] = s[i]
    BY CutText
<1>2. m \in 0 .. Len(SubSeq(s, 1, n)) /\ m <= Len(s) /\ \A i \in 1 .. m : SubSeq(s, 1, n)[i] = s[i]
    BY <1>1
<1> QED
    BY <1>1, <1>2, PrefixesAgree

\* Appending nothing, and appending twice.
LEMMA ConcatNothing ==
    ASSUME NEW S, NEW s \in Seq(S)
    PROVE  s \o <<>> = s
BY ConcatEmptySeq

-----------------------------------------------------------------------------
(* Sessions that grow. *)

\* What a deferred forward will feed is a token.
Owes(s) == PendingToken(s) \in Tokens /\ s.logitsValid \in BOOLEAN

\* Only a session that cannot be rewound opens a transaction: a roll-back that
\* fails leaves it open.
OnlyRecurrent(s) == s.txn.active => s.recurrent

\* Between two calls, whatever has failed before.
Held(s) == Typed(s) /\ OnlyRecurrent(s) /\ Owes(s) /\ (s.deferred => s.logitsValid)

\* The pinned beginning.
Pin(s) == SubSeq(s.rows, 1, s.prefixLength)

\* t is s with ids appended to its text.
Grows(s, t, ids) ==
    /\ Typed(t) /\ SameModel(s, t)
    /\ Content(t) = Content(s) \o ids /\ t.kvLen = s.kvLen + Len(ids)
    /\ \A i \in 1 .. s.kvLen : t.rows[i] = s.rows[i]
    /\ t.prefixLength = s.prefixLength /\ t.ckptLens = s.ckptLens

\* The numbers of a typed session.
LEMMA TypedNumbers ==
    ASSUME NEW s, Typed(s)
    PROVE  \E k, p, L, M \in Nat : /\ k = s.kvLen /\ p = s.prefixLength /\ L = Len(s.rows) /\ M = s.maxLen
                                   /\ p <= k /\ k <= L /\ k <= M
<1>1. PICK m \in Models : s.maxLen = m.maxLen
    BY DEF Typed, MaxLens
<1>2. s.maxLen \in Nat
    BY <1>1, SessionConstants
<1>3. Len(s.rows) \in Nat /\ s.kvLen \in Nat /\ s.prefixLength \in Nat
    BY DEF Typed
<1> QED
    BY <1>2, <1>3 DEF Typed

\* A session with the same rows and length grows by nothing.
LEMMA GrowsSame ==
    ASSUME NEW s, Typed(s), NEW t, IsSession(t), SameModel(s, t), t.rows = s.rows, t.kvLen = s.kvLen,
           t.prefixLength = s.prefixLength, t.ckptLens = s.ckptLens
    PROVE  Grows(s, t, <<>>)
<1>1. Typed(t)
    BY DEF Typed, SameModel
<1>2. Content(t) = Content(s)
    BY DEF Content
<1>3. Content(s) \in Seq(Tokens)
    BY ContentTyped
<1>4. Content(s) = Content(s) \o <<>>
    BY <1>3, ConcatNothing
<1>5. s.kvLen = s.kvLen + Len(<<>>)
    BY DEF Typed
<1> QED
    BY <1>1, <1>2, <1>4, <1>5 DEF Grows

\* Growth adds up.
LEMMA GrowsTrans ==
    ASSUME NEW s, Typed(s), NEW a \in Seq(Tokens), NEW b \in Seq(Tokens), NEW t, NEW u,
           Grows(s, t, a), Grows(t, u, b)
    PROVE  Grows(s, u, a \o b)
<1>1. Content(s) \in Seq(Tokens)
    BY ContentTyped
<1>2. Content(u) = Content(s) \o (a \o b)
    BY SMTT(30), <1>1, ConcatAssociative DEF Grows
<1>3. PICK k, n, m \in Nat : k = s.kvLen /\ n = Len(a) /\ m = Len(b)
    BY DEF Typed
<1>4. t.kvLen = k + n /\ u.kvLen = k + n + m /\ Len(a \o b) = n + m
    <2>1. Len(a \o b) = Len(a) + Len(b)
        BY ConcatProperties
    <2> QED
        BY <1>3, <2>1 DEF Grows
<1>5. u.kvLen = s.kvLen + Len(a \o b)
    BY SMTT(30), <1>3, <1>4
<1>6. \A i \in 1 .. s.kvLen : u.rows[i] = s.rows[i]
    <2>1. TAKE i \in 1 .. s.kvLen
    <2>2. i \in 1 .. t.kvLen
        BY <1>3, <1>4
    <2> QED
        BY <2>1, <2>2 DEF Grows
<1>7. SameModel(s, u)
    BY DEF Grows, SameModel
<1> QED
    BY <1>2, <1>5, <1>6, <1>7 DEF Grows

\* Growth by nothing, before or after.
LEMMA GrowsThenSame ==
    ASSUME NEW s, Typed(s), NEW a \in Seq(Tokens), NEW t, NEW u, Grows(s, t, a), Grows(t, u, <<>>)
    PROVE  Grows(s, u, a)
<1>1. a \o <<>> = a /\ <<>> \in Seq(Tokens)
    BY ConcatNothing
<1> QED
    BY <1>1, GrowsTrans

\* And the other way round.
LEMMA SameThenGrows ==
    ASSUME NEW s, Typed(s), NEW a \in Seq(Tokens), NEW t, NEW u, Grows(s, t, <<>>), Grows(t, u, a)
    PROVE  Grows(s, u, a)
<1>1. <<>> \o a = a /\ <<>> \in Seq(Tokens)
    BY ConcatEmptySeq
<1> QED
    BY <1>1, GrowsTrans

\* A forward and its advance.
LEMMA AdvancedGrows ==
    ASSUME NEW s, Typed(s), NEW ids \in Seq(Tokens), RoomFor(s, Len(ids))
    PROVE  LET t == Advanced(s, ids) IN
           /\ Grows(s, t, ids) /\ SameLogits(s, t) /\ SameCkpts(s, t)
           /\ t.cancel = s.cancel /\ t.txn = s.txn /\ t.deferred = s.deferred
           /\ \A a \in 0 .. Len(ids) : SubSeq(t.rows, 1, s.kvLen + a) = Content(s) \o SubSeq(ids, 1, a)
<1> DEFINE t == Advanced(s, ids)
<1>1. /\ IsSession(s) /\ s.rows \in Seq(Tokens) /\ s.kvLen \in 0 .. Len(s.rows) /\ s.kvLen \in Nat
      /\ s.kvLen + Len(ids) <= s.maxLen /\ Len(ids) \in Nat
    BY DEF Typed, RoomFor
<1>2. /\ IsSession(t) /\ SameModel(s, t) /\ SameLogits(s, t) /\ SameCkpts(s, t)
      /\ t.rows = SubSeq(s.rows, 1, s.kvLen) \o ids \o SubSeq(s.rows, s.kvLen + Len(ids) + 1, Len(s.rows))
      /\ t.kvLen = s.kvLen + Len(ids)
      /\ t.prefixLength = s.prefixLength /\ t.cancel = s.cancel /\ t.txn = s.txn /\ t.deferred = s.deferred
    BY <1>1, AdvancedFields
<1> HIDE DEF t
<1>3. /\ t.rows \in Seq(Tokens) /\ Len(t.rows) >= s.kvLen + Len(ids) /\ Len(t.rows) \in Nat
      /\ \A i \in 1 .. s.kvLen : t.rows[i] = s.rows[i]
      /\ \A a \in 0 .. Len(ids) : SubSeq(t.rows, 1, s.kvLen + a) = Content(s) \o SubSeq(ids, 1, a)
      /\ SubSeq(t.rows, 1, s.kvLen + Len(ids)) = Content(s) \o ids
    <2>1. t.rows = Splice(s.rows, s.kvLen, ids) /\ Content(s) = SubSeq(s.rows, 1, s.kvLen)
        BY <1>2 DEF Content, Splice
    <2>2. IsSplice(Tokens, s.rows, s.kvLen, ids, Splice(s.rows, s.kvLen, ids))
        BY <1>1, Spliced
    <2> QED
        BY <2>1, <2>2 DEF IsSplice
<1>4. Content(t) = Content(s) \o ids
    BY <1>2, <1>3 DEF Content
<1>5. Typed(t)
    <2>1. PICK k, p, M \in Nat : k = s.kvLen /\ p = s.prefixLength /\ M = s.maxLen /\ p <= k
        BY TypedNumbers
    <2>2. PICK n, L \in Nat : n = Len(ids) /\ L = Len(t.rows)
        BY <1>1, <1>3
    <2>3a. k + n <= M /\ L >= k + n
        BY <1>1, <1>3, <2>1, <2>2
    <2>3. k + n <= M /\ k + n <= L /\ k + n \in Nat /\ p \in 0 .. k + n
        BY <2>1, <2>3a
    <2>4. s.maxLen \in MaxLens
        BY DEF Typed
    <2> QED
        BY <1>2, <1>3, <2>1, <2>2, <2>3, <2>4 DEF Typed, SameModel
<1> QED
    BY <1>2, <1>3, <1>4, <1>5 DEF t, Grows, SameCkpts

\* A forward that fails leaves the text as it was: its rows are leftovers.
LEMMA BrokenGrows ==
    ASSUME NEW s, Typed(s), NEW ids \in Seq(Tokens), NEW b \in Broken(s, ids)
    PROVE  /\ Grows(s, b, <<>>) /\ SameLogits(s, b)
           /\ b.cancel = s.cancel /\ b.txn = s.txn /\ b.deferred = s.deferred /\ b.ckptBuf = s.ckptBuf
<1>1. PICK R, q, m : /\ R = SubSeq(s.rows, 1, s.kvLen) \o ids \o SubSeq(s.rows, s.kvLen + Len(ids) + 1, Len(s.rows))
                     /\ q = IF s.recurrent THEN s.rec \o ids ELSE s.rec
                     /\ m = MtpSync(s, ids)
    OBVIOUS
<1>2. PICK f : f = [s EXCEPT !.rows = R, !.rec = q, !.mtp = m]
    OBVIOUS
<1>3. IsSession(s)
    BY DEF Typed
<1>4. Forwarded(s, ids) = f
    BY <1>1, <1>2, <1>3 DEF Forwarded, IsSession
<1>5. \E r, x : b = [s EXCEPT !.rows = R, !.rec = r, !.mtp = x]
    <2>1. CASE b = f
        BY <1>2, <2>1
    <2>2. CASE b = [f EXCEPT !.mtp = s.mtp]
        <3>1. b = [s EXCEPT !.rows = R, !.rec = q, !.mtp = s.mtp]
            BY <1>2, <1>3, <2>2 DEF IsSession
        <3> QED
            BY <3>1
    <2>3. CASE b = [f EXCEPT !.mtp.carry = s.mtp.carry]
        <3>1. PICK y : y = [f.mtp EXCEPT !.carry = s.mtp.carry]
            OBVIOUS
        <3>2. b = [f EXCEPT !.mtp = y]
            BY <1>2, <1>3, <2>3, <3>1 DEF IsSession
        <3>3. b = [s EXCEPT !.rows = R, !.rec = q, !.mtp = y]
            BY <1>2, <1>3, <3>2 DEF IsSession
        <3> QED
            BY <3>3
    <2>4. CASE b = [f EXCEPT !.mtp = s.mtp, !.rec = s.rec]
        <3>1. b = [s EXCEPT !.rows = R, !.rec = s.rec, !.mtp = s.mtp]
            BY <1>2, <1>3, <2>4 DEF IsSession
        <3> QED
            BY <3>1
    <2> QED
        BY <1>4, <2>1, <2>2, <2>3, <2>4 DEF Broken
<1>6. PICK r, x : b = [s EXCEPT !.rows = R, !.rec = r, !.mtp = x]
    BY <1>5
<1>7. /\ IsSession(b) /\ SameModel(s, b) /\ SameLogits(s, b) /\ b.rows = R /\ b.kvLen = s.kvLen
      /\ b.prefixLength = s.prefixLength /\ b.ckptLens = s.ckptLens
      /\ b.cancel = s.cancel /\ b.txn = s.txn /\ b.deferred = s.deferred /\ b.ckptBuf = s.ckptBuf
    BY <1>3, <1>6 DEF IsSession, SameModel, SameLogits
<1>8. /\ R \in Seq(Tokens) /\ Len(R) >= s.kvLen
      /\ \A i \in 1 .. s.kvLen : R[i] = s.rows[i]
      /\ SubSeq(R, 1, s.kvLen) = Content(s)
    <2>1. PICK k, L, n \in Nat : k = s.kvLen /\ L = Len(s.rows) /\ n = Len(ids) /\ k <= L
        BY DEF Typed
    <2>2. R = Splice(s.rows, k, ids)
        BY <1>1, <2>1 DEF Splice
    <2>3. s.rows \in Seq(Tokens) /\ k \in 0 .. Len(s.rows)
        BY <2>1 DEF Typed
    <2>4. IsSplice(Tokens, s.rows, k, ids, R)
        BY <2>2, <2>3, Spliced
    <2>5. R \in Seq(Tokens) /\ Len(R) >= k + n /\ Len(R) \in Nat /\ \A i \in 1 .. k : R[i] = s.rows[i]
        BY <2>1, <2>4 DEF IsSplice
    <2>6. Len(R) >= k
        BY <2>5
    <2>7. SubSeq(s.rows, 1, k) = SubSeq(R, 1, k)
        BY <2>1, <2>3, <2>5, <2>6, PrefixesAgree
    <2> QED
        BY <2>1, <2>5, <2>6, <2>7 DEF Content
<1>9. Typed(b)
    BY <1>7, <1>8 DEF Typed, SameModel
<1>10. Content(b) = Content(s) \o <<>>
    <2>1. Content(s) \in Seq(Tokens)
        BY ContentTyped
    <2>2. Content(s) \o <<>> = Content(s)
        BY <2>1, ConcatNothing
    <2> QED
        BY <1>7, <1>8, <2>2 DEF Content
<1>11. s.kvLen = s.kvLen + Len(<<>>)
    BY DEF Typed
<1> QED
    BY <1>7, <1>8, <1>9, <1>10, <1>11 DEF Grows

\* The text as the caller sees it is a sequence of tokens.
LEMMA TextTyped ==
    ASSUME NEW s, Typed(s), Owes(s)
    PROVE  /\ Text(s) \in Seq(Tokens) /\ StartOf(Content(s), Text(s))
           /\ Text(s) = IF s.deferred THEN Content(s) \o <<PendingToken(s)>> ELSE Content(s)
<1>1. Content(s) \in Seq(Tokens)
    BY ContentTyped
<1>2. PICK x \in Tokens : x = PendingToken(s)
    BY DEF Owes
<1>3. PICK p : p = <<x>> /\ p \in Seq(Tokens)
    <2>1. <<x>> \in Seq(Tokens)
        OBVIOUS
    <2> QED
        BY <2>1
<1>4. CASE s.deferred
    <2>1. Text(s) = Content(s) \o p
        BY <1>2, <1>3, <1>4 DEF Text
    <2>2. Content(s) \o p \in Seq(Tokens) /\ StartOf(Content(s), Content(s) \o p)
        BY <1>1, <1>3, ConcatProperties, StartAppended
    <2> QED
        BY <1>2, <1>3, <1>4, <2>1, <2>2
<1>5. CASE ~s.deferred
    <2>1. Text(s) = Content(s)
        BY <1>1, <1>5, ConcatNothing DEF Text
    <2> QED
        BY <1>1, <1>5, <2>1, StartSelf
<1> QED
    BY <1>4, <1>5

\* What a session has in common with what the caller saw of it before.
SameView(s, t) ==
    /\ Text(t) = Text(s) /\ Pin(t) = Pin(s) /\ SameModel(s, t)
    /\ t.logitsValid = s.logitsValid /\ t.ckptLens = s.ckptLens /\ t.prefixLength = s.prefixLength

\* Growth is behind the pin.
LEMMA GrowsPin ==
    ASSUME NEW s, Typed(s), NEW t, NEW ids, Grows(s, t, ids)
    PROVE  Pin(t) = Pin(s)
<1>1. PICK k, p, L \in Nat : /\ k = s.kvLen /\ p = s.prefixLength /\ L = Len(s.rows)
                             /\ p <= k /\ k <= L
    BY TypedNumbers
<1>2. Typed(t) /\ t.rows \in Seq(Tokens) /\ s.rows \in Seq(Tokens)
    BY DEF Grows, Typed
<1>3. p <= Len(t.rows)
    <2>1. PICK q, e, l \in Nat : q = t.kvLen /\ e = t.prefixLength /\ l = Len(t.rows) /\ e <= q /\ q <= l
        BY <1>2, TypedNumbers
    <2>2. e = p
        BY <1>1, <2>1 DEF Grows
    <2> QED
        BY <2>1, <2>2
<1>4. \A i \in 1 .. p : s.rows[i] = t.rows[i]
    <2>1. \A i \in 1 .. k : t.rows[i] = s.rows[i]
        BY <1>1 DEF Grows
    <2> QED
        BY <1>1, <2>1
<1>5. p \in 0 .. Len(s.rows)
    BY <1>1
<1>6. SubSeq(s.rows, 1, p) = SubSeq(t.rows, 1, p)
    BY <1>2, <1>3, <1>4, <1>5, PrefixesAgree
<1> QED
    BY <1>1, <1>6 DEF Pin, Grows

\* Growth by nothing that keeps the logits and the debt is not seen.
LEMMA GrowsUnseen ==
    ASSUME NEW s, Typed(s), NEW t, Grows(s, t, <<>>), SameLogits(s, t), t.deferred = s.deferred
    PROVE  SameView(s, t) /\ PendingToken(t) = PendingToken(s) /\ Content(t) = Content(s)
<1>1. Content(s) \in Seq(Tokens)
    BY ContentTyped
<1>2. Content(t) = Content(s)
    BY <1>1, ConcatNothing DEF Grows
<1>3. PendingToken(t) = PendingToken(s)
    BY DEF PendingToken, SameLogits
<1>4. Text(t) = Text(s)
    BY <1>2, <1>3 DEF Text
<1>5. Pin(t) = Pin(s)
    BY GrowsPin
<1> QED
    BY <1>2, <1>3, <1>4, <1>5 DEF SameView, SameLogits, Grows

\* Growth of a session that owes nothing is growth of its text.
LEMMA GrowsText ==
    ASSUME NEW s, Typed(s), NEW ids \in Seq(Tokens), NEW t, Grows(s, t, ids), ~s.deferred, ~t.deferred
    PROVE  /\ Text(s) = Content(s) /\ Text(t) = Text(s) \o ids /\ StartOf(Text(s), Text(t))
           /\ Text(s) \in Seq(Tokens) /\ Text(t) \in Seq(Tokens)
<1>1. Content(s) \in Seq(Tokens) /\ Content(t) \in Seq(Tokens)
    BY ContentTyped DEF Grows
<1>2. Text(s) = Content(s) /\ Text(t) = Content(t)
    BY <1>1, ConcatNothing DEF Text
<1>3. StartOf(Content(s), Content(s) \o ids)
    BY <1>1, StartAppended
<1> QED
    BY <1>1, <1>2, <1>3 DEF Grows

\* New logits predict a token; dropped ones owe the first.
LEMMA FinalizedGrows ==
    ASSUME NEW s, Typed(s)
    PROVE  LET t == Finalized(s) IN
           /\ Grows(s, t, <<>>) /\ t.logitsValid /\ Owes(t) /\ PendingToken(t) = Predict(Content(s))
           /\ t.cancel = s.cancel /\ t.txn = s.txn /\ t.deferred = s.deferred
<1> DEFINE t == Finalized(s)
<1>1. /\ IsSession(t) /\ SameModel(s, t) /\ SameCkpts(s, t) /\ SameText(s, t)
      /\ t.prefixLength = s.prefixLength /\ t.deferred = s.deferred /\ t.cancel = s.cancel
      /\ t.txn = s.txn /\ t.logitsValid = TRUE /\ t.pending.on = Content(s)
    BY FinalizedFields DEF Typed
<1> HIDE DEF t
<1>2. Grows(s, t, <<>>)
    BY <1>1, GrowsSame DEF SameText, SameCkpts
<1>3. PendingToken(t) = Predict(Content(s)) /\ Predict(Content(s)) \in Tokens
    BY <1>1, ContentTyped DEF PendingToken
<1> QED
    BY <1>1, <1>2, <1>3 DEF t, Owes

\* The first token of all.
LEMMA DropLogitsGrows ==
    ASSUME NEW s, Typed(s)
    PROVE  LET t == DropLogits(s) IN
           /\ Grows(s, t, <<>>) /\ ~t.logitsValid /\ Owes(t)
           /\ t.cancel = s.cancel /\ t.txn = s.txn /\ t.deferred = s.deferred
<1> DEFINE t == DropLogits(s)
<1>1. /\ IsSession(t) /\ SameModel(s, t) /\ SameCkpts(s, t) /\ SameText(s, t)
      /\ t.prefixLength = s.prefixLength /\ t.deferred = s.deferred /\ t.cancel = s.cancel
      /\ t.txn = s.txn /\ t.logitsValid = FALSE
    BY DropLogitsFields DEF Typed
<1>2. t.pending = NoPending
    BY DEF DropLogits, Typed, IsSession
<1> HIDE DEF t
<1>3. Grows(s, t, <<>>)
    BY <1>1, GrowsSame DEF SameText, SameCkpts
<1>4. Predict(<<>>) \in Tokens
    <2>1. s.maxLen \in MaxLens /\ s.maxLen \in Nat
        BY TypedNumbers DEF Typed
    <2>2. <<>> \in Seq(Tokens) /\ Len(<<>>) <= s.maxLen
        BY <2>1
    <2> QED
        BY <2>1, <2>2, PredictTyped
<1>5. PendingToken(t) \in Tokens
    <2>1. NoPending.on = <<>>
        BY DEF NoPending
    <2> QED
        BY <1>2, <1>4, <2>1 DEF PendingToken
<1> QED
    BY <1>1, <1>3, <1>5 DEF t, Owes

\* Only the transaction goes.
LEMMA CommitGrows ==
    ASSUME NEW s, Typed(s)
    PROVE  LET t == Commit(s) IN
           /\ Grows(s, t, <<>>) /\ SameLogits(s, t) /\ (Owes(s) => Owes(t)) /\ OnlyRecurrent(t)
           /\ t.cancel = s.cancel /\ t.deferred = s.deferred /\ t.rows = s.rows /\ t.kvLen = s.kvLen
<1> DEFINE t == Commit(s)
<1>1. /\ IsSession(t) /\ SameModel(s, t) /\ SameCkpts(s, t) /\ SameText(s, t) /\ SameLogits(s, t)
      /\ t.prefixLength = s.prefixLength /\ t.deferred = s.deferred /\ t.cancel = s.cancel
      /\ OnlyRecurrent(t)
    BY CommitFields DEF Typed, OnlyRecurrent, SameModel, Grows
<1> HIDE DEF t
<1>2. Grows(s, t, <<>>)
    BY <1>1, GrowsSame DEF SameText, SameCkpts
<1> QED
    BY <1>1, <1>2 DEF t, Owes, PendingToken, SameLogits, SameText

-----------------------------------------------------------------------------
(* One forward, and the settle. *)

\* transformer_decode_step: one token more, or the state it had.
LEMMA RunStepGrows ==
    ASSUME NEW s, Typed(s), Owes(s), NEW tok \in Tokens, NEW canFail, NEW o \in RunStep(s, tok, canFail)
    PROVE  /\ Typed(o.s) /\ Owes(o.s) /\ OnlyRecurrent(o.s)
           /\ o.s.deferred = s.deferred /\ o.s.cancel = s.cancel
           /\ o.st \in {"OK", "TOO_MANY_TOKENS", "BACKEND"}
           /\ o.st = "OK" => Grows(s, o.s, <<tok>>) /\ o.s.logitsValid
           /\ o.st # "OK" => Grows(s, o.s, <<>>) /\ SameLogits(s, o.s)
<1> DEFINE c == Commit(s)
           f == Advanced(c, <<tok>>)
<1>1. /\ Grows(s, c, <<>>) /\ SameLogits(s, c) /\ Owes(c) /\ OnlyRecurrent(c) /\ Typed(c)
      /\ c.cancel = s.cancel /\ c.deferred = s.deferred /\ c.kvLen = s.kvLen /\ SameModel(s, c)
    BY CommitGrows DEF Grows
<1>2. <<tok>> \in Seq(Tokens) /\ Len(<<tok>>) = 1
    OBVIOUS
<1>3. f = [Forwarded(c, <<tok>>) EXCEPT !.kvLen = @ + 1]
    BY <1>2 DEF Advanced
<1>4. CASE ~RoomFor(s, 1)
    <2>1. o \in Refused(c, "TOO_MANY_TOKENS")
        BY <1>4 DEF RunStep
    <2> HIDE DEF c
    <2>2. o.s = c /\ o.st = "TOO_MANY_TOKENS"
        BY <2>1, RefusedCounted
    <2> QED
        BY <1>1, <2>2
<1>5. CASE RoomFor(s, 1) /\ o = Ok(Finalized(f))
    <2>1. RoomFor(c, Len(<<tok>>))
        BY <1>1, <1>2, <1>5 DEF RoomFor, SameModel
    <2> HIDE DEF c
    <2>2. PICK p : p = <<tok>>
        OBVIOUS
    <2>3. f = Advanced(c, p) /\ p \in Seq(Tokens) /\ RoomFor(c, Len(p))
        BY <1>2, <2>1, <2>2
    <2> HIDE DEF f
    <2>4. Grows(c, f, p) /\ Typed(f) /\ f.cancel = c.cancel /\ f.txn = c.txn /\ f.deferred = c.deferred
        BY <1>1, <2>3, AdvancedGrows DEF Grows
    <2>5. PICK t : t = Finalized(f)
        OBVIOUS
    <2>6. Grows(f, t, <<>>) /\ t.logitsValid /\ Owes(t) /\ t.cancel = f.cancel /\ t.txn = f.txn /\ t.deferred = f.deferred
        BY <2>4, <2>5, FinalizedGrows
    <2>7. Grows(s, f, p)
        BY <1>1, <2>3, <2>4, SameThenGrows
    <2>8. Grows(s, t, p)
        BY <2>3, <2>6, <2>7, GrowsThenSame
    <2>9. o.s = t /\ o.st = "OK"
        BY <1>5, <2>5, OkCounted
    <2>10. Typed(t)
        BY <2>8 DEF Grows
    <2> QED
        BY <1>1, <2>2, <2>4, <2>6, <2>8, <2>9, <2>10 DEF OnlyRecurrent, SameModel, Grows
<1>6. CASE \E b \in Broken(c, <<tok>>) : o = Failed(b)
    <2>1. PICK b \in Broken(c, <<tok>>) : o = Failed(b)
        BY <1>6
    <2> HIDE DEF c
    <2>2. Grows(c, b, <<>>) /\ SameLogits(c, b) /\ b.cancel = c.cancel /\ b.txn = c.txn /\ b.deferred = c.deferred
        BY <1>1, <1>2, BrokenGrows
    <2>3. Grows(s, b, <<>>)
        <3>1. <<>> \in Seq(Tokens)
            OBVIOUS
        <3> QED
            BY <1>1, <2>2, <3>1, GrowsThenSame
    <2>4. o.s = b /\ o.st = "BACKEND"
        BY <2>1, FailedCounted
    <2>5. Typed(b) /\ Owes(b) /\ SameLogits(s, b)
        BY <1>1, <2>2, <2>3 DEF Grows, Owes, PendingToken, SameLogits
    <2> QED
        BY <1>1, <2>2, <2>3, <2>4, <2>5 DEF OnlyRecurrent, SameModel, Grows
<1>7. RoomFor(s, 1) => o = Ok(Finalized(f)) \/ \E b \in Broken(c, <<tok>>) : o = Failed(b)
    BY <1>3 DEF RunStep
<1> QED
    BY <1>4, <1>5, <1>6, <1>7

\* What a call settled, succeeded or not: nothing the caller sees.
SettledAs(s, o) ==
    /\ Held(o.s) /\ SameView(s, o.s) /\ o.s.cancel = s.cancel
    /\ o.st \in {"OK", "TOO_MANY_TOKENS", "BACKEND"}
    /\ o.st = "OK" => ~o.s.deferred

\* Settling is not seen: the owed token was text before it was fed.
LEMMA SettleUnseen ==
    ASSUME NEW s, Held(s), NEW canFail, NEW o \in Settle(s, canFail)
    PROVE  SettledAs(s, o)
<1>1. Typed(s) /\ Owes(s) /\ OnlyRecurrent(s) /\ (s.deferred => s.logitsValid)
    BY DEF Held
<1>2. CASE ~s.deferred
    <2>1. o = Ok(s)
        BY <1>2 DEF Settle
    <2>2. o.s = s /\ o.st = "OK"
        BY <2>1, OkCounted
    <2>3. SameView(s, s)
        BY DEF SameView, SameModel
    <2> QED
        BY <1>2, <2>2, <2>3 DEF SettledAs
<1>3. CASE s.deferred
    <2>1. PICK x \in RunStep(s, PendingToken(s), canFail) :
              IF x.st = "OK" THEN o = Ok([x.s EXCEPT !.deferred = FALSE]) ELSE o = x
        BY <1>3 DEF Settle, Then
    <2>2. PICK p \in Tokens : p = PendingToken(s)
        BY <1>1 DEF Owes
    <2>3. /\ Typed(x.s) /\ Owes(x.s) /\ OnlyRecurrent(x.s) /\ x.s.deferred = s.deferred /\ x.s.cancel = s.cancel
          /\ x.st \in {"OK", "TOO_MANY_TOKENS", "BACKEND"}
          /\ x.st = "OK" => Grows(s, x.s, <<p>>) /\ x.s.logitsValid
          /\ x.st # "OK" => Grows(s, x.s, <<>>) /\ SameLogits(s, x.s)
        BY <1>1, <2>1, <2>2, RunStepGrows
    <2>4. CASE x.st # "OK"
        <3>1. o = x
            BY <2>1, <2>4
        <3>2. SameView(s, x.s)
            BY <1>1, <2>3, <2>4, GrowsUnseen
        <3>3. Held(x.s)
            BY <1>1, <2>3, <2>4 DEF Held, SameLogits
        <3> QED
            BY <2>3, <2>4, <3>1, <3>2, <3>3 DEF SettledAs
    <2>5. CASE x.st = "OK"
        <3> DEFINE t == [x.s EXCEPT !.deferred = FALSE]
        <3>1. o = Ok(t)
            BY <2>1, <2>5
        <3>2. /\ IsSession(t) /\ SameModel(x.s, t) /\ t.rows = x.s.rows /\ t.kvLen = x.s.kvLen
              /\ t.prefixLength = x.s.prefixLength /\ t.ckptLens = x.s.ckptLens /\ SameLogits(x.s, t)
              /\ t.cancel = x.s.cancel /\ t.txn = x.s.txn /\ ~t.deferred
            BY <2>3 DEF Typed, IsSession, SameModel, SameLogits
        <3> HIDE DEF t
        <3>3. Grows(x.s, t, <<>>)
            BY <2>3, <3>2, GrowsSame
        <3>4. PICK q : q = <<p>> /\ q \in Seq(Tokens)
            <4>1. <<p>> \in Seq(Tokens)
                OBVIOUS
            <4> QED
                BY <4>1
        <3>5. Grows(s, t, q)
            BY <1>1, <2>3, <2>5, <3>3, <3>4, GrowsThenSame
        <3>6. Text(s) = Content(s) \o q
            BY <1>1, <1>3, <2>2, <3>4, TextTyped
        <3>7. Text(t) = Content(s) \o q
            <4>1. Typed(t) /\ Owes(t)
                BY <2>3, <3>2, <3>5 DEF Grows, Owes, PendingToken, SameLogits
            <4>2. Text(t) = Content(t)
                BY <3>2, <4>1, TextTyped
            <4> QED
                BY <3>5, <4>2 DEF Grows
        <3>8. Pin(t) = Pin(s)
            BY <1>1, <3>5, GrowsPin
        <3>9. SameView(s, t)
            BY <1>1, <1>3, <2>3, <2>5, <3>2, <3>5, <3>6, <3>7, <3>8 DEF SameView, SameLogits, Grows
        <3>10. Held(t)
            BY <2>3, <3>2, <3>5 DEF Held, Grows, Owes, PendingToken, SameLogits, OnlyRecurrent, SameModel
        <3>11. o.s = t /\ o.st = "OK"
            BY <3>1, OkCounted
        <3> QED
            BY <2>3, <3>2, <3>9, <3>10, <3>11 DEF SettledAs
    <2> QED
        BY <2>4, <2>5
<1> QED
    BY <1>2, <1>3

-----------------------------------------------------------------------------
(* What a call promises. *)

Refusals == {"UNSUPPORTED", "INVALID_ARG", "INVALID_STATE"}

\* A request to cancel goes away with the call that reports it.
Cancels(s, o) == /\ o.st = "CANCELLED" => s.cancel /\ ~o.s.cancel
                 /\ o.st # "CANCELLED" => o.s.cancel = s.cancel

\* Nothing of the text is lost.
Starts(s, o) == StartOf(Text(s), Text(o.s)) /\ o.s.prefixLength = s.prefixLength

\* Whatever has failed, now or before.
Promise(s, o) ==
    /\ Held(o.s) /\ SameModel(s, o.s) /\ Cancels(s, o)
    /\ o.st \in Refusals => SameView(s, o.s)
    /\ o.faults # 0 => Starts(s, o)

\* The steps of a Conversation.
SaidBy(o) == IF o.st = "OK" THEN o.toks ELSE <<>>
Extends(s, o) == SaidBy(o) = <<>> /\ StartOf(Text(s), Text(o.s)) /\ Pin(o.s) = Pin(s)
Emits(s, o) ==
    /\ s.logitsValid /\ o.s.logitsValid /\ SaidBy(o) # <<>>
    /\ Text(o.s) = Text(s) \o SaidBy(o) /\ Pin(o.s) = Pin(s)
    /\ \A i \in 1 .. Len(SaidBy(o)) : SaidBy(o)[i] = Predict(Text(s) \o SubSeq(SaidBy(o), 1, i - 1))
Rewinds(s, o) ==
    /\ SaidBy(o) = <<>> /\ ~o.s.logitsValid /\ Pin(o.s) = Pin(s)
    /\ StartOf(Text(o.s), Text(s)) /\ StartOf(Pin(s), Text(o.s))
Speaks(s, o) == Extends(s, o) \/ Emits(s, o) \/ Rewinds(s, o)

\* A call after one that is not seen.
LEMMA UnseenThenPromise ==
    ASSUME NEW s, NEW t, SameView(s, t), t.cancel = s.cancel, NEW o, Promise(t, o)
    PROVE  Promise(s, o) /\ (Starts(t, o) => Starts(s, o))
BY DEF Promise, Starts, SameView, SameModel, Cancels

\* And the steps of the conversation.
LEMMA UnseenThenSpeaks ==
    ASSUME NEW s, NEW t, SameView(s, t), NEW o, Speaks(t, o)
    PROVE  Speaks(s, o)
<1>1. Text(t) = Text(s) /\ Pin(t) = Pin(s) /\ t.logitsValid = s.logitsValid
    BY DEF SameView
<1>2. Extends(t, o) => Extends(s, o)
    BY <1>1 DEF Extends
<1>3. Emits(t, o) => Emits(s, o)
    BY <1>1 DEF Emits
<1>4. Rewinds(t, o) => Rewinds(s, o)
    BY <1>1 DEF Rewinds
<1> QED
    BY <1>2, <1>3, <1>4 DEF Speaks

\* A call that is not seen.
LEMMA UnseenPromise ==
    ASSUME NEW s, Typed(s), Owes(s), NEW o, Held(o.s), SameView(s, o.s), o.s.cancel = s.cancel, o.st # "CANCELLED",
           SaidBy(o) = <<>>
    PROVE  Promise(s, o) /\ Speaks(s, o) /\ Starts(s, o)
<1>1. StartOf(Text(s), Text(s))
    BY TextTyped, StartSelf
<1>2. StartOf(Text(s), Text(o.s))
    BY <1>1 DEF SameView
<1> QED
    BY <1>2 DEF Promise, Starts, Cancels, SameView, Speaks, Extends

\* A refusal says nothing.
LEMMA RefusedSays ==
    ASSUME NEW s, NEW st, st # "OK", NEW o \in Refused(s, st)
    PROVE  o.s = s /\ o.st = st /\ o.faults = 0 /\ SaidBy(o) = <<>>
BY RefusedCounted DEF SaidBy

\* Nothing is said by a success without tokens, nor by a failure.
LEMMA OkSays ==
    ASSUME NEW s
    PROVE  /\ Ok(s).s = s /\ Ok(s).st = "OK" /\ Ok(s).faults = 0 /\ SaidBy(Ok(s)) = <<>>
           /\ Failed(s).s = s /\ Failed(s).st = "BACKEND" /\ Failed(s).faults = 1 /\ SaidBy(Failed(s)) = <<>>
BY OkCounted, FailedCounted DEF SaidBy

\* decode_step on a settled session: the model's next token, owed and said.
LEMMA DecodeSettledSpeaks ==
    ASSUME NEW s, Held(s), ~s.deferred, NEW o \in DecodeSettled(s)
    PROVE  Promise(s, o) /\ Starts(s, o) /\ (Current(s) => Speaks(s, o))
<1> DEFINE c == Commit(s)
           d == [c EXCEPT !.deferred = TRUE]
<1>1. Typed(s) /\ Owes(s) /\ OnlyRecurrent(s)
    BY DEF Held
<1>2. /\ Grows(s, c, <<>>) /\ SameLogits(s, c) /\ Owes(c) /\ OnlyRecurrent(c)
      /\ c.cancel = s.cancel /\ c.deferred = s.deferred
    BY <1>1, CommitGrows
<1>3. CASE ~s.logitsValid
    <2>1. o \in Refused(s, "INVALID_STATE")
        BY <1>3 DEF DecodeSettled
    <2>2. o.s = s /\ o.st = "INVALID_STATE" /\ SaidBy(o) = <<>>
        BY <2>1, RefusedSays
    <2>3. SameView(s, o.s)
        BY <2>2 DEF SameView, SameModel
    <2> QED
        BY <1>1, <2>2, <2>3, UnseenPromise
<1>4. CASE s.logitsValid /\ ~RoomFor(s, 1)
    <2>1. o \in Refused(c, "TOO_MANY_TOKENS")
        BY <1>4 DEF DecodeSettled
    <2> HIDE DEF c
    <2>2. o.s = c /\ o.st = "TOO_MANY_TOKENS" /\ SaidBy(o) = <<>>
        BY <2>1, RefusedSays
    <2>3. SameView(s, c)
        BY <1>1, <1>2, GrowsUnseen
    <2>4. Held(c)
        BY <1>2, <1>4 DEF Held, Grows, SameLogits
    <2> QED
        BY <1>1, <1>2, <2>2, <2>3, <2>4, UnseenPromise
<1>5. CASE s.logitsValid /\ RoomFor(s, 1)
    <2>1. PICK p \in Tokens : p = PendingToken(s)
        BY <1>1 DEF Owes
    <2>2. PICK q : q = <<p>> /\ q \in Seq(Tokens) /\ Len(q) = 1 /\ q[1] = p
        <3>1. <<p>> \in Seq(Tokens) /\ Len(<<p>>) = 1 /\ <<p>>[1] = p
            OBVIOUS
        <3> QED
            BY <3>1
    <2>3. o = Out(d, "OK", q, 0)
        BY <1>5, <2>1, <2>2 DEF DecodeSettled
    <2> HIDE DEF c
    <2>4. /\ IsSession(d) /\ SameModel(c, d) /\ d.rows = c.rows /\ d.kvLen = c.kvLen
          /\ d.prefixLength = c.prefixLength /\ d.ckptLens = c.ckptLens /\ SameLogits(c, d)
          /\ d.cancel = c.cancel /\ d.txn = c.txn /\ d.deferred
        BY <1>2 DEF Grows, Typed, IsSession, SameModel, SameLogits
    <2> HIDE DEF d
    <2>5. o.s = d /\ o.st = "OK" /\ o.toks = q /\ o.faults = 0
        BY <2>3, OutCounted
    <2>6. Grows(c, d, <<>>)
        BY <1>2, <2>4, GrowsSame DEF Grows
    <2>7. Grows(s, d, <<>>) /\ SameLogits(s, d)
        <3>1. <<>> \in Seq(Tokens)
            OBVIOUS
        <3> QED
            BY <1>1, <1>2, <2>4, <2>6, <3>1, GrowsThenSame DEF SameLogits
    <2>8. Typed(d) /\ Owes(d) /\ PendingToken(d) = p
        BY <1>1, <2>1, <2>7 DEF Grows, Owes, PendingToken, SameLogits
    <2>9. Content(s) \in Seq(Tokens) /\ Content(d) = Content(s)
        <3>1. Content(s) \in Seq(Tokens)
            BY <1>1, ContentTyped
        <3>2. Content(s) \o <<>> = Content(s)
            BY <3>1, ConcatNothing
        <3> QED
            BY <2>7, <3>1, <3>2 DEF Grows
    <2>10. Text(s) = Content(s) /\ Text(d) = Text(s) \o q
        <3>1. Text(s) = Content(s)
            BY <1>1, TextTyped
        <3>2. Text(d) = Content(d) \o q
            BY <2>2, <2>4, <2>8, TextTyped
        <3> QED
            BY <2>9, <3>1, <3>2
    <2>11. Pin(d) = Pin(s)
        BY <1>1, <2>7, GrowsPin
    <2>12. Promise(s, o) /\ Starts(s, o)
        <3>1. Text(s) \in Seq(Tokens)
            BY <2>9, <2>10
        <3>2. StartOf(Text(s), Text(d))
            BY <2>2, <2>10, <3>1, StartAppended
        <3>3. Promise(s, o)
            BY <1>2, <1>5, <2>4, <2>5, <2>7, <2>8 DEF Promise, Held, Cancels, Refusals, Grows, SameLogits, OnlyRecurrent, SameModel
        <3> QED
            BY <2>5, <2>7, <3>2, <3>3 DEF Starts, Grows
    <2>13. ASSUME Current(s)
           PROVE  Emits(s, o)
        <3>1. SaidBy(o) = q
            BY <2>5 DEF SaidBy
        <3>2. q[1] = Predict(Content(s))
            BY <1>5, <2>1, <2>2, <2>13 DEF Current, PendingToken
        <3>3. ASSUME NEW i \in 1 .. Len(q)
              PROVE  q[i] = Predict(Text(s) \o SubSeq(q, 1, i - 1))
            <4>1. i = 1 /\ i - 1 = 0
                BY <2>2
            <4>2. SubSeq(q, 1, 0) = <<>>
                <5>1. 0 \in 0 .. Len(q)
                    BY <2>2
                <5>2. SubSeq(q, 1, 0) \in Seq(Tokens) /\ Len(SubSeq(q, 1, 0)) = 0
                    BY <2>2, <5>1, CutText
                <5> QED
                    BY <5>2, EmptySeq
            <4>3. Text(s) \o <<>> = Content(s)
                BY <2>9, <2>10, ConcatNothing
            <4> QED
                BY <3>2, <4>1, <4>2, <4>3
        <3>4. q # <<>>
            BY <2>2
        <3>5. s.logitsValid /\ d.logitsValid
            BY <1>5, <2>7 DEF SameLogits
        <3> QED
            BY <2>5, <2>10, <2>11, <3>1, <3>3, <3>4, <3>5 DEF Emits
    <2> QED
        BY <2>12, <2>13 DEF Speaks
<1> QED
    BY <1>3, <1>4, <1>5

\* geist_session_decode_step.
LEMMA DecodeStepSpeaks ==
    ASSUME NEW s, Held(s), NEW canFail, NEW o \in DecodeStep(s, canFail)
    PROVE  Promise(s, o) /\ Starts(s, o) /\ (Rest(s) /\ o.faults = 0 => Speaks(s, o))
<1>1. CASE s.cancel
    <2> DEFINE t == [s EXCEPT !.cancel = FALSE]
    <2>1. o \in Refused(t, "CANCELLED")
        BY <1>1 DEF DecodeStep, Cancelled
    <2>2. /\ IsSession(t) /\ SameModel(s, t) /\ t.rows = s.rows /\ t.kvLen = s.kvLen
          /\ t.prefixLength = s.prefixLength /\ t.ckptLens = s.ckptLens /\ SameLogits(s, t)
          /\ t.cancel = FALSE /\ t.txn = s.txn /\ t.deferred = s.deferred
        BY DEF Held, Typed, IsSession, SameModel, SameLogits
    <2> HIDE DEF t
    <2>3. o.s = t /\ o.st = "CANCELLED" /\ o.faults = 0 /\ SaidBy(o) = <<>>
        BY <2>1, RefusedSays
    <2>4. Typed(s) /\ Owes(s)
        BY DEF Held
    <2>5. Grows(s, t, <<>>)
        BY <2>2, <2>4, GrowsSame
    <2>6. SameView(s, t) /\ PendingToken(t) = PendingToken(s)
        BY <2>2, <2>4, <2>5, GrowsUnseen
    <2>7. Held(t)
        BY <2>2, <2>4, <2>5, <2>6 DEF Held, Grows, Owes, SameLogits, OnlyRecurrent, SameModel
    <2>8. StartOf(Text(s), Text(t))
        <3>1. StartOf(Text(s), Text(s))
            BY <2>4, TextTyped, StartSelf
        <3> QED
            BY <2>6, <3>1 DEF SameView
    <2> QED
        BY <1>1, <2>2, <2>3, <2>6, <2>7, <2>8 DEF Promise, Starts, Cancels, Refusals, SameView, Speaks, Extends
<1>2. CASE ~s.cancel
    <2>1. PICK x \in Settle(s, canFail) : IF x.st = "OK" THEN o \in DecodeSettled(x.s) ELSE o = x
        BY <1>2 DEF DecodeStep, Then
    <2>2. SettledAs(s, x)
        BY SettleUnseen
    <2>3. CASE x.st # "OK"
        BY <2>1, <2>2, <2>3, UnseenPromise DEF SettledAs, Held, SaidBy
    <2>4. CASE x.st = "OK"
        <3>1. Promise(x.s, o) /\ Starts(x.s, o) /\ (Current(x.s) => Speaks(x.s, o))
            BY <2>1, <2>2, <2>4, DecodeSettledSpeaks DEF SettledAs
        <3>2. Promise(s, o) /\ Starts(s, o)
            BY <2>2, <3>1, UnseenThenPromise DEF SettledAs
        <3>3. ASSUME Rest(s) /\ o.faults = 0
              PROVE  Speaks(s, o)
            <4>1. x.faults = 0
                BY <2>4, SettleCounted DEF Counted, Tallied
            <4>2. Current(x.s)
                BY <3>3, <4>1, SettleRest DEF Rest
            <4> QED
                BY <2>2, <3>1, <4>2, UnseenThenSpeaks DEF SettledAs
        <3> QED
            BY <3>2, <3>3
    <2> QED
        BY <2>3, <2>4
<1> QED
    BY <1>1, <1>2

-----------------------------------------------------------------------------
(* A prefill. *)

\* What one sub-batch did with its ids.
Fed(s, ids, o) ==
    /\ Typed(o.s) /\ Owes(o.s) /\ OnlyRecurrent(o.s) /\ o.s.deferred = s.deferred
    /\ Cancels(s, o) /\ SaidBy(o) = <<>>
    /\ o.st \in {"OK", "CANCELLED", "BACKEND", "TOO_MANY_TOKENS"}
    /\ o.st = "OK" => Grows(s, o.s, ids)
    /\ o.st # "OK" => Grows(s, o.s, <<>>) \/ Grows(s, o.s, ids)
    /\ o.st = "CANCELLED" => Grows(s, o.s, <<>>) /\ ~o.s.logitsValid

\* A sub-batch appends its ids, or is cancelled, or fails with or without them.
LEMMA PrefillChunkFed ==
    ASSUME NEW s, Typed(s), Owes(s), OnlyRecurrent(s), NEW ids \in Seq(Tokens), RoomFor(s, Len(ids)),
           NEW last \in BOOLEAN, NEW canFail, NEW o \in PrefillChunk(s, ids, last, canFail)
    PROVE  Fed(s, ids, o) /\ (o.st = "OK" /\ last => o.s.logitsValid)
<1> DEFINE u == [s EXCEPT !.logitsValid = FALSE]
           t == [u EXCEPT !.cancel = FALSE]
           f == Advanced(s, ids)
<1>1. CASE s.cancel
    <2>1. o \in Refused(t, "CANCELLED")
        BY <1>1 DEF PrefillChunk, Cancelled
    <2>2. /\ IsSession(t) /\ SameModel(s, t) /\ t.rows = s.rows /\ t.kvLen = s.kvLen
          /\ t.prefixLength = s.prefixLength /\ t.ckptLens = s.ckptLens /\ t.pending = s.pending
          /\ t.cancel = FALSE /\ t.txn = s.txn /\ t.deferred = s.deferred /\ t.logitsValid = FALSE
        BY DEF Typed, IsSession, SameModel
    <2> HIDE DEF t
    <2>3. o.s = t /\ o.st = "CANCELLED" /\ SaidBy(o) = <<>>
        BY <2>1, RefusedSays
    <2>4. Grows(s, t, <<>>)
        BY <2>2, GrowsSame
    <2>5. Owes(t) /\ Typed(t)
        BY <2>2, <2>4 DEF Grows, Owes, PendingToken
    <2> QED
        BY <1>1, <2>2, <2>3, <2>4, <2>5 DEF Fed, Cancels, OnlyRecurrent, SameModel, Grows
<1>2. CASE ~s.cancel
    <2>1. f = [Forwarded(s, ids) EXCEPT !.kvLen = @ + Len(ids)]
        BY DEF Advanced
    <2>2. \/ o = Ok(IF last THEN Finalized(f) ELSE f)
          \/ \E b \in Broken(s, ids) : o = Failed(b)
          \/ o = Failed(f)
        BY <1>2, <2>1 DEF PrefillChunk
    <2> HIDE DEF f
    <2>3. Grows(s, f, ids) /\ SameLogits(s, f) /\ f.cancel = s.cancel /\ f.txn = s.txn /\ f.deferred = s.deferred
        BY AdvancedGrows DEF f
    <2>4. Typed(f) /\ Owes(f)
        BY <2>3 DEF Grows, Owes, PendingToken, SameLogits
    <2>5. CASE o = Ok(IF last THEN Finalized(f) ELSE f)
        <3>1. PICK t1 : t1 = Finalized(f)
            OBVIOUS
        <3>2. Grows(f, t1, <<>>) /\ t1.logitsValid /\ Owes(t1) /\ t1.cancel = f.cancel /\ t1.txn = f.txn /\ t1.deferred = f.deferred
            BY <2>4, <3>1, FinalizedGrows
        <3>3. Grows(s, t1, ids) /\ Typed(t1)
            <4>1. Grows(s, t1, ids)
                BY <2>3, <3>2, GrowsThenSame
            <4> QED
                BY <4>1 DEF Grows
        <3>4. CASE last
            <4>1. o = Ok(t1)
                BY <2>5, <3>1, <3>4
            <4>2. o.s = t1 /\ o.st = "OK" /\ SaidBy(o) = <<>>
                BY <4>1, OkSays
            <4> QED
                BY <2>3, <3>2, <3>3, <4>2 DEF Fed, Cancels, OnlyRecurrent, SameModel, Grows
        <3>5. CASE ~last
            <4>1. o = Ok(f)
                BY <2>5, <3>5
            <4>2. o.s = f /\ o.st = "OK" /\ SaidBy(o) = <<>>
                BY <4>1, OkSays
            <4> QED
                BY <2>3, <2>4, <3>5, <4>2 DEF Fed, Cancels, OnlyRecurrent, SameModel, Grows
        <3> QED
            BY <3>4, <3>5
    <2>6. CASE \E b \in Broken(s, ids) : o = Failed(b)
        <3>1. PICK b \in Broken(s, ids) : o = Failed(b)
            BY <2>6
        <3>2. Grows(s, b, <<>>) /\ SameLogits(s, b) /\ b.cancel = s.cancel /\ b.txn = s.txn /\ b.deferred = s.deferred
            BY BrokenGrows
        <3>3. o.s = b /\ o.st = "BACKEND" /\ SaidBy(o) = <<>>
            BY <3>1, OkSays
        <3>4. Typed(b) /\ Owes(b)
            BY <3>2 DEF Grows, Owes, PendingToken, SameLogits
        <3> QED
            BY <3>2, <3>3, <3>4 DEF Fed, Cancels, OnlyRecurrent, SameModel, Grows
    <2>7. CASE o = Failed(f)
        <3>1. o.s = f /\ o.st = "BACKEND" /\ SaidBy(o) = <<>>
            BY <2>7, OkSays
        <3> QED
            BY <2>3, <2>4, <3>1 DEF Fed, Cancels, OnlyRecurrent, SameModel, Grows
    <2> QED
        BY <2>2, <2>5, <2>6, <2>7
<1> QED
    BY <1>1, <1>2

\* A prefill of one sub-batch closes the transaction first.
LEMMA PrefillOnceFed ==
    ASSUME NEW s, Typed(s), Owes(s), NEW ids \in Seq(Tokens), NEW canFail, NEW o \in PrefillOnce(s, ids, canFail)
    PROVE  Fed(s, ids, o) /\ (o.st = "OK" => o.s.logitsValid)
<1> DEFINE c == Commit(s)
<1>1. /\ Grows(s, c, <<>>) /\ SameLogits(s, c) /\ Owes(c) /\ OnlyRecurrent(c)
      /\ c.cancel = s.cancel /\ c.deferred = s.deferred /\ c.kvLen = s.kvLen /\ SameModel(s, c) /\ Typed(c)
    BY CommitGrows DEF Grows
<1>2. CASE ~RoomFor(s, Len(ids))
    <2>1. o \in Refused(c, "TOO_MANY_TOKENS")
        BY <1>2 DEF PrefillOnce
    <2> HIDE DEF c
    <2>2. o.s = c /\ o.st = "TOO_MANY_TOKENS" /\ SaidBy(o) = <<>>
        BY <2>1, RefusedSays
    <2> QED
        BY <1>1, <2>2 DEF Fed, Cancels
<1>3. CASE RoomFor(s, Len(ids))
    <2>1. PICK y \in BOOLEAN : y = TRUE
        OBVIOUS
    <2>2. o \in PrefillChunk(c, ids, y, canFail)
        BY <1>3, <2>1 DEF PrefillOnce
    <2>3. RoomFor(c, Len(ids))
        BY <1>1, <1>3 DEF RoomFor, SameModel
    <2> HIDE DEF c
    <2>4. Fed(c, ids, o) /\ (o.st = "OK" /\ y => o.s.logitsValid)
        BY <1>1, <2>2, <2>3, PrefillChunkFed
    <2>5. Grows(c, o.s, ids) => Grows(s, o.s, ids)
        BY <1>1, SameThenGrows
    <2>6. Grows(c, o.s, <<>>) => Grows(s, o.s, <<>>)
        <3>1. <<>> \in Seq(Tokens)
            OBVIOUS
        <3> QED
            BY <1>1, <3>1, SameThenGrows
    <2>7. Cancels(c, o) => Cancels(s, o)
        BY <1>1 DEF Cancels
    <2> QED
        BY <1>1, <2>1, <2>4, <2>5, <2>6, <2>7 DEF Fed
<1> QED
    BY <1>2, <1>3

-----------------------------------------------------------------------------
(* A verify and its rollback. *)

\* v is s with ids, in a transaction that remembers where they begin.
VerifiedAs(s, ids, v) ==
    /\ Grows(s, v, ids) /\ Owes(v) /\ v.deferred = s.deferred /\ v.cancel = s.cancel
    /\ \A a \in 0 .. Len(ids) : SubSeq(v.rows, 1, s.kvLen + a) = Content(s) \o SubSeq(ids, 1, a)
    /\ v.txn.active => v.recurrent /\ v.txn.base = s.kvLen /\ v.txn.ids = ids

\* What a verify leaves: all of its ids or, when it fails, maybe none.
VerifySaid(s, ids, o) ==
    /\ o.st \in {"OK", "INVALID_ARG", "TOO_MANY_TOKENS", "BACKEND"}
    /\ o.st \in {"INVALID_ARG", "TOO_MANY_TOKENS"} => o.s = s
    /\ o.st = "OK" => /\ VerifiedAs(s, ids, o.s) /\ o.s.logitsValid
                      /\ o.toks = [i \in 1 .. Len(ids) |-> Predict(Content(s) \o SubSeq(ids, 1, i))]
    /\ o.st = "BACKEND" => /\ Grows(s, o.s, <<>>) \/ Grows(s, o.s, ids)
                           /\ Owes(o.s) /\ OnlyRecurrent(o.s) /\ o.s.deferred = s.deferred /\ o.s.cancel = s.cancel
    /\ o.st # "OK" => SaidBy(o) = <<>>

\* The saved state comes back with the length it had.
LEMMA TxnRestoreGrows ==
    ASSUME NEW s, Typed(s), NEW v, Typed(v), v.txn.active, v.txn.base = s.kvLen,
           SameModel(s, v), v.prefixLength = s.prefixLength, v.ckptLens = s.ckptLens,
           \A i \in 1 .. s.kvLen : v.rows[i] = s.rows[i], s.kvLen <= v.kvLen
    PROVE  LET t == TxnRestore(v) IN
           Grows(s, t, <<>>) /\ SameLogits(v, t) /\ t.cancel = v.cancel /\ t.deferred = v.deferred
<1> DEFINE t == TxnRestore(v)
<1>1. /\ IsSession(t) /\ SameModel(v, t) /\ SameLogits(v, t) /\ t.rows = v.rows /\ t.kvLen = s.kvLen
      /\ t.prefixLength = v.prefixLength /\ t.ckptLens = v.ckptLens
      /\ t.cancel = v.cancel /\ t.deferred = v.deferred
    BY DEF TxnRestore, Typed, IsSession, SameModel, SameLogits
<1> HIDE DEF t
<1>2. PICK k, p, L, M \in Nat : /\ k = s.kvLen /\ p = s.prefixLength /\ L = Len(s.rows) /\ M = s.maxLen
                                /\ p <= k /\ k <= L /\ k <= M
    BY TypedNumbers
<1>3. PICK q, l \in Nat : q = v.kvLen /\ l = Len(v.rows) /\ q <= l
    BY TypedNumbers
<1>4. v.rows \in Seq(Tokens) /\ s.rows \in Seq(Tokens) /\ s.maxLen \in MaxLens
    BY DEF Typed
<1>5. k <= l
    BY <1>2, <1>3
<1>6. Typed(t)
    <2>1. p \in 0 .. k
        BY <1>2
    <2>2. t.maxLen = s.maxLen /\ t.kvLen = k /\ t.prefixLength = p /\ Len(t.rows) = l /\ t.rows \in Seq(Tokens)
        BY <1>1, <1>2, <1>3, <1>4 DEF SameModel
    <2> QED
        BY <1>1, <1>2, <1>3, <1>4, <1>5, <2>1, <2>2 DEF Typed
<1>7. Content(t) = Content(s)
    <2>1. k \in 0 .. Len(s.rows) /\ k <= Len(v.rows) /\ \A i \in 1 .. k : s.rows[i] = v.rows[i]
        BY <1>2, <1>3, <1>5
    <2>2. SubSeq(s.rows, 1, k) = SubSeq(v.rows, 1, k)
        BY <1>4, <2>1, PrefixesAgree
    <2> QED
        BY <1>1, <1>2, <2>2 DEF Content
<1>8. Content(t) = Content(s) \o <<>>
    <2>1. Content(s) \in Seq(Tokens)
        BY ContentTyped
    <2>2. Content(s) \o <<>> = Content(s)
        BY <2>1, ConcatNothing
    <2> QED
        BY <1>7, <2>2
<1>9. t.kvLen = s.kvLen + Len(<<>>)
    BY <1>1, <1>2
<1>10. SameModel(s, t) /\ \A i \in 1 .. s.kvLen : t.rows[i] = s.rows[i]
    BY <1>1 DEF SameModel
<1> QED
    BY <1>1, <1>6, <1>8, <1>9, <1>10 DEF t, Grows

\* e is s with maybe its ids, and may be copied back to s.
InTxn(s, ids, e) ==
    /\ Grows(s, e, <<>>) \/ Grows(s, e, ids)
    /\ Owes(e)
    /\ e.txn.active => e.recurrent /\ e.txn.base = s.kvLen

\* What the copy back of e leaves, whatever becomes of it.
CopiedBack(s, ids, e, t) ==
    /\ Grows(s, t, <<>>) \/ Grows(s, t, ids)
    /\ Owes(t) /\ OnlyRecurrent(t) /\ t.deferred = e.deferred /\ t.cancel = e.cancel


\* The copy back of a failed or rejected verify: with the text it began with or,
\* when it fails itself, with the text there was.
LEMMA TxnRestoresGrow ==
    ASSUME NEW s, Typed(s), NEW ids \in Seq(Tokens), NEW e, InTxn(s, ids, e), NEW canFail,
           NEW o \in TxnRestores(e, canFail)
    PROVE  CopiedBack(s, ids, e, o.s)
<1>0. /\ Grows(s, e, <<>>) \/ Grows(s, e, ids)
      /\ Owes(e) /\ (e.txn.active => e.recurrent /\ e.txn.base = s.kvLen)
    BY DEF InTxn
<1>1. PICK r : r = o.s
    OBVIOUS
<1>2. /\ Typed(e) /\ SameModel(s, e) /\ e.prefixLength = s.prefixLength /\ e.ckptLens = s.ckptLens
      /\ \A i \in 1 .. s.kvLen : e.rows[i] = s.rows[i]
    BY <1>0 DEF Grows
<1>3. /\ o.faults = 0 => o.st = "OK" /\ r = TxnRestore(e)
      /\ o.faults # 0 => o.st = "BACKEND" /\ e.txn.active /\ (r = e \/ r = HalfBack(e))
    BY <1>1, TxnRestoresSplit
<1>4. CASE o.faults = 0 /\ ~e.txn.active
    <2>1. r = e
        BY <1>3, <1>4 DEF TxnRestore
    <2> QED
        BY <1>0, <1>1, <1>4, <2>1 DEF OnlyRecurrent, CopiedBack
<1>5. CASE o.faults = 0 /\ e.txn.active
    <2>1. s.kvLen <= e.kvLen
        <3>1. PICK k, l \in Nat : k = s.kvLen /\ l = Len(ids)
            BY DEF Typed
        <3>2. e.kvLen = k + 0 \/ e.kvLen = k + l
            BY <1>0, <3>1 DEF Grows
        <3> QED
            BY <3>1, <3>2
    <2>2. Grows(s, r, <<>>) /\ SameLogits(e, r) /\ r.cancel = e.cancel /\ r.deferred = e.deferred
        BY <1>0, <1>2, <1>3, <1>5, <2>1, TxnRestoreGrows
    <2>3. OnlyRecurrent(r)
        BY <1>0, <1>2, <1>5, <2>2 DEF OnlyRecurrent, Grows, SameModel
    <2> QED
        BY <1>0, <1>1, <1>5, <2>2, <2>3 DEF Owes, PendingToken, SameLogits, CopiedBack
<1>6. CASE o.faults # 0 /\ r = e
    BY <1>0, <1>1, <1>6 DEF OnlyRecurrent, CopiedBack
<1>7. CASE o.faults # 0 /\ r = HalfBack(e)
    <2>1. PICK y : y = e.txn.rec
        OBVIOUS
    <2>2. r = [e EXCEPT !.rec = y]
        BY <1>7, <2>1 DEF HalfBack
    <2>3. /\ IsSession(r) /\ SameModel(e, r) /\ SameLogits(e, r) /\ r.rows = e.rows /\ r.kvLen = e.kvLen
          /\ r.prefixLength = e.prefixLength /\ r.ckptLens = e.ckptLens
          /\ r.cancel = e.cancel /\ r.deferred = e.deferred /\ r.txn = e.txn
        BY <1>2, <2>2 DEF Typed, IsSession, SameModel, SameLogits
    <2>4. Grows(e, r, <<>>)
        BY <1>2, <2>3, GrowsSame
    <2>5. <<>> \in Seq(Tokens)
        OBVIOUS
    <2>6. Grows(s, r, <<>>) \/ Grows(s, r, ids)
        BY <1>0, <2>4, <2>5, GrowsThenSame
    <2> QED
        BY <1>0, <1>1, <1>7, <2>3, <2>6 DEF OnlyRecurrent, Owes, PendingToken, SameLogits, SameModel, CopiedBack
<1> QED
    BY <1>3, <1>4, <1>5, <1>6, <1>7

\* verify_forward.
LEMMA VerifyForwardSaid ==
    ASSUME NEW s, Typed(s), Owes(s), OnlyRecurrent(s), NEW ids \in Seq(Tokens), NEW canFail,
           NEW o \in VerifyForward(s, ids, canFail)
    PROVE  VerifySaid(s, ids, o)
<1> DEFINE b == TxnBegin(s, ids)
           f == Advanced(b, ids)
           d == DropLogits(f)
           n == Finalized(d)
<1>0. /\ IsSession(b) /\ SameModel(s, b) /\ SameCkpts(s, b) /\ SameText(s, b) /\ SameLogits(s, b)
      /\ b.prefixLength = s.prefixLength /\ b.deferred = s.deferred /\ b.cancel = s.cancel
      /\ b.txn.active => b.recurrent /\ b.txn.base = s.kvLen /\ b.txn.ids = ids
    <2>1. /\ IsSession(b) /\ SameModel(s, b) /\ SameCkpts(s, b) /\ SameText(s, b) /\ SameLogits(s, b)
          /\ b.prefixLength = s.prefixLength /\ b.deferred = s.deferred /\ b.cancel = s.cancel
          /\ b.txn.active => s.recurrent /\ b.txn.base = s.kvLen /\ b.txn.ids = ids
        BY TxnBeginFields DEF Typed, OnlyRecurrent
    <2> QED
        BY <2>1 DEF SameModel
<1>1. \/ /\ o \in Refused(s, "INVALID_ARG") \cup Refused(s, "TOO_MANY_TOKENS")
      \/ /\ RoomFor(s, Len(ids))
         /\ \/ /\ o = Out([n EXCEPT !.rowsOff = @ \/ RowsMissing(d)], "OK",
                          [i \in 1 .. Len(ids) |-> Predict(Content(s) \o SubSeq(ids, 1, i))], 0)
            \/ \E e \in Broken(b, ids) \cup {d} : \E r \in TxnRestores(e, TRUE) :
                  o = Failed(Commit(r.s)) \/ o = Failed(r.s)
    BY DEF VerifyForward, Advanced
<1>2. CASE o \in Refused(s, "INVALID_ARG") \cup Refused(s, "TOO_MANY_TOKENS")
    <2>1. o.s = s /\ o.st \in {"INVALID_ARG", "TOO_MANY_TOKENS"} /\ SaidBy(o) = <<>>
        BY <1>2, RefusedSays
    <2> QED
        BY <2>1 DEF VerifySaid
<1> HIDE DEF b
<1>3. Grows(s, b, <<>>) /\ Typed(b) /\ b.kvLen = s.kvLen
    <2>1. Grows(s, b, <<>>)
        BY <1>0, GrowsSame DEF SameText, SameCkpts
    <2> QED
        BY <1>0, <2>1 DEF Grows, SameText
<1>4. Content(b) = Content(s)
    BY <1>0 DEF Content, SameText
<1>5. ASSUME RoomFor(s, Len(ids))
      PROVE  /\ Grows(s, d, ids) /\ Owes(d) /\ d.deferred = s.deferred /\ d.cancel = s.cancel /\ d.txn = b.txn
             /\ \A a \in 0 .. Len(ids) : SubSeq(d.rows, 1, s.kvLen + a) = Content(s) \o SubSeq(ids, 1, a)
    <2>1. RoomFor(b, Len(ids))
        BY <1>0, <1>3, <1>5 DEF RoomFor, SameModel
    <2>2. /\ Grows(b, f, ids) /\ f.cancel = b.cancel /\ f.txn = b.txn /\ f.deferred = b.deferred
          /\ \A a \in 0 .. Len(ids) : SubSeq(f.rows, 1, b.kvLen + a) = Content(b) \o SubSeq(ids, 1, a)
        BY <1>3, <2>1, AdvancedGrows
    <2> HIDE DEF f
    <2>3. Typed(f)
        BY <2>2 DEF Grows
    <2>4. Grows(f, d, <<>>) /\ Owes(d) /\ d.cancel = f.cancel /\ d.txn = f.txn /\ d.deferred = f.deferred
        BY <2>3, DropLogitsGrows
    <2>5. d.rows = f.rows
        BY <2>3, DropLogitsFields DEF Typed, SameText
    <2> HIDE DEF d
    <2>6. Grows(s, f, ids)
        BY <1>3, <2>2, SameThenGrows
    <2>7. Grows(s, d, ids)
        BY <2>4, <2>6, GrowsThenSame
    <2> QED
        BY <1>0, <1>3, <1>4, <2>2, <2>4, <2>5, <2>7
<1> HIDE DEF d
<1>6. CASE RoomFor(s, Len(ids)) /\ o = Out([n EXCEPT !.rowsOff = @ \/ RowsMissing(d)], "OK",
                          [i \in 1 .. Len(ids) |-> Predict(Content(s) \o SubSeq(ids, 1, i))], 0)
    <2>1. /\ Grows(s, d, ids) /\ Owes(d) /\ d.deferred = s.deferred /\ d.cancel = s.cancel /\ d.txn = b.txn
          /\ \A a \in 0 .. Len(ids) : SubSeq(d.rows, 1, s.kvLen + a) = Content(s) \o SubSeq(ids, 1, a)
        BY <1>5, <1>6
    <2>2. Typed(d)
        BY <2>1 DEF Grows
    <2>3. Grows(d, n, <<>>) /\ n.logitsValid /\ Owes(n) /\ n.cancel = d.cancel /\ n.txn = d.txn /\ n.deferred = d.deferred
        BY <2>2, FinalizedGrows
    <2>4. n.rows = d.rows
        BY <2>2, FinalizedFields DEF Typed, SameText
    <2>5. PICK y : y = (n.rowsOff \/ RowsMissing(d))
        OBVIOUS
    <2>6. PICK z : z = [n EXCEPT !.rowsOff = y]
        OBVIOUS
    <2> HIDE DEF n
    <2>7. IsSession(n)
        BY <2>3 DEF Grows, Typed
    <2>8. z = [n EXCEPT !.rowsOff = @ \/ RowsMissing(d)]
        BY <2>5, <2>6, <2>7 DEF IsSession
    <2>9. /\ IsSession(z) /\ SameModel(n, z) /\ SameLogits(n, z) /\ z.rows = n.rows /\ z.kvLen = n.kvLen
          /\ z.prefixLength = n.prefixLength /\ z.ckptLens = n.ckptLens
          /\ z.cancel = n.cancel /\ z.deferred = n.deferred /\ z.txn = n.txn
        BY <2>6, <2>7 DEF IsSession, SameModel, SameLogits
    <2>10. Grows(n, z, <<>>)
        BY <2>3, <2>9, GrowsSame DEF Grows
    <2>11. Grows(s, n, ids)
        BY <2>1, <2>3, GrowsThenSame
    <2>12. Grows(s, z, ids)
        BY <2>10, <2>11, GrowsThenSame
    <2>13. Owes(z) /\ z.logitsValid
        BY <2>3, <2>9 DEF Owes, PendingToken, SameLogits
    <2>14. VerifiedAs(s, ids, z)
        <3>1. z.recurrent = b.recurrent
            BY <1>0, <2>12 DEF Grows, SameModel
        <3> QED
            BY <1>0, <2>1, <2>3, <2>4, <2>9, <2>12, <2>13, <3>1 DEF VerifiedAs
    <2>15. o.s = z /\ o.st = "OK" /\ o.toks = [i \in 1 .. Len(ids) |-> Predict(Content(s) \o SubSeq(ids, 1, i))]
        BY <1>6, <2>8, OutCounted
    <2> QED
        BY <2>13, <2>14, <2>15 DEF VerifySaid
<1>7. CASE RoomFor(s, Len(ids)) /\ \E e \in Broken(b, ids) \cup {d} : \E r \in TxnRestores(e, TRUE) :
                  o = Failed(Commit(r.s)) \/ o = Failed(r.s)
    <2>1. PICK e \in Broken(b, ids) \cup {d} : \E r \in TxnRestores(e, TRUE) :
                  o = Failed(Commit(r.s)) \/ o = Failed(r.s)
        BY <1>7
    <2>2. /\ Grows(s, e, <<>>) \/ Grows(s, e, ids)
          /\ Owes(e) /\ e.deferred = s.deferred /\ e.cancel = s.cancel /\ e.txn = b.txn
        <3>1. CASE e = d
            BY <1>5, <1>7, <3>1
        <3>2. CASE e \in Broken(b, ids)
            <4>1. Grows(b, e, <<>>) /\ SameLogits(b, e) /\ e.cancel = b.cancel /\ e.txn = b.txn /\ e.deferred = b.deferred
                BY <1>3, <3>2, BrokenGrows
            <4>2. <<>> \in Seq(Tokens)
                OBVIOUS
            <4>3. Grows(s, e, <<>>)
                BY <1>3, <4>1, <4>2, GrowsThenSame
            <4> QED
                BY <1>0, <4>1, <4>3 DEF Owes, PendingToken, SameLogits
        <3> QED
            BY <2>1, <3>1, <3>2
    <2>3. PICK r \in TxnRestores(e, TRUE) : o = Failed(Commit(r.s)) \/ o = Failed(r.s)
        BY <2>1
    <2>4. e.txn.active => e.recurrent /\ e.txn.base = s.kvLen
        BY <1>0, <2>2 DEF Grows, SameModel
    <2>5. /\ Grows(s, r.s, <<>>) \/ Grows(s, r.s, ids)
          /\ Owes(r.s) /\ OnlyRecurrent(r.s) /\ r.s.deferred = e.deferred /\ r.s.cancel = e.cancel
        <3>1. InTxn(s, ids, e)
            BY <2>2, <2>4 DEF InTxn
        <3>2. CopiedBack(s, ids, e, r.s)
            BY <3>1, TxnRestoresGrow
        <3> QED
            BY <3>2 DEF CopiedBack
    <2>6. CASE o = Failed(r.s)
        <3>1. o.s = r.s /\ o.st = "BACKEND" /\ SaidBy(o) = <<>>
            BY <2>6, OkSays
        <3> QED
            BY <2>2, <2>5, <3>1 DEF VerifySaid
    <2>7. CASE o = Failed(Commit(r.s))
        <3>1. Typed(r.s)
            BY <2>5 DEF Grows
        <3>2. PICK c : c = Commit(r.s)
            OBVIOUS
        <3>3. /\ Grows(r.s, c, <<>>) /\ Owes(c) /\ OnlyRecurrent(c) /\ c.cancel = r.s.cancel /\ c.deferred = r.s.deferred
            BY <2>5, <3>1, <3>2, CommitGrows
        <3>4. <<>> \in Seq(Tokens)
            OBVIOUS
        <3>5. Grows(s, c, <<>>) \/ Grows(s, c, ids)
            BY <2>5, <3>3, <3>4, GrowsThenSame
        <3>6. o.s = c /\ o.st = "BACKEND" /\ SaidBy(o) = <<>>
            BY <2>7, <3>2, OkSays
        <3> QED
            BY <2>2, <2>5, <3>3, <3>5, <3>6 DEF VerifySaid
    <2> QED
        BY <2>3, <2>6, <2>7
<1> QED
    BY <1>1, <1>2, <1>6, <1>7

\* The beginning of a text that ends with w.
LEMMA ConcatCut ==
    ASSUME NEW S, NEW t \in Seq(S), NEW s \in Seq(S), NEW w \in Seq(S),
           Len(s) + Len(w) <= Len(t), SubSeq(t, 1, Len(s) + Len(w)) = s \o w, NEW a \in 0 .. Len(w)
    PROVE  SubSeq(t, 1, Len(s) + a) = s \o SubSeq(w, 1, a)
<1>0. PICK k, m \in Nat : k = Len(s) /\ m = Len(w)
    OBVIOUS
<1>1. PICK L \in Nat : L = Len(t) /\ k + m <= L /\ a \in 0 .. m /\ SubSeq(t, 1, k + m) = s \o w
    BY <1>0
<1>2. k + m \in 0 .. Len(t) /\ k + a \in 0 .. Len(t) /\ a \in 0 .. Len(w) /\ k + a \in Nat
    BY <1>0, <1>1
<1>3. PICK p, q : p = SubSeq(w, 1, a) /\ q = SubSeq(t, 1, k + a)
    OBVIOUS
<1>4. p \in Seq(S) /\ Len(p) = a /\ \A i \in 1 .. a : p[i] = w[i]
    BY <1>2, <1>3, CutText
<1>5. q \in Seq(S) /\ Len(q) = k + a /\ \A i \in 1 .. k + a : q[i] = t[i]
    BY <1>2, <1>3, CutText
<1>6. \A i \in 1 .. k + m : (s \o w)[i] = t[i]
    BY <1>1, <1>2, CutText
<1>7. /\ s \o p \in Seq(S) /\ Len(s \o p) = k + a
      /\ \A i \in 1 .. k + a : (s \o p)[i] = IF i <= k THEN s[i] ELSE p[i - k]
    <2>1. /\ s \o p \in Seq(S) /\ Len(s \o p) = Len(s) + Len(p)
          /\ \A i \in 1 .. Len(s) + Len(p) : (s \o p)[i] = IF i <= Len(s) THEN s[i] ELSE p[i - Len(s)]
        <3>1. p \in Seq(S)
            BY <1>4
        <3> QED
            BY <3>1, ConcatProperties
    <2> QED
        BY <1>0, <1>4, <2>1
<1>8. \A i \in 1 .. k + m : (s \o w)[i] = IF i <= k THEN s[i] ELSE w[i - k]
    <2>1. \A i \in 1 .. Len(s) + Len(w) : (s \o w)[i] = IF i <= Len(s) THEN s[i] ELSE w[i - Len(s)]
        BY ConcatProperties
    <2> QED
        BY <1>0, <2>1
<1>9. \A i \in 1 .. Len(q) : q[i] = (s \o p)[i]
    <2>1. TAKE i \in 1 .. Len(q)
    <2>2. i \in 1 .. k + a /\ i \in 1 .. k + m
        BY <1>1, <1>5
    <2>3. ~(i <= k) => i - k \in 1 .. a
        BY <2>2
    <2> QED
        BY <1>4, <1>5, <1>6, <1>7, <1>8, <2>2, <2>3
<1>10. q = s \o p
    BY <1>5, <1>7, <1>9, SeqEqual
<1> QED
    BY <1>0, <1>3, <1>10

\* A session cut back to a of the ids it grew by.
LEMMA GrownCut ==
    ASSUME NEW s, Typed(s), NEW ids \in Seq(Tokens), NEW v, Grows(s, v, ids), NEW a \in 0 .. Len(ids),
           NEW t, IsSession(t), SameModel(v, t), t.rows = v.rows, t.kvLen = s.kvLen + a,
           t.prefixLength = v.prefixLength, t.ckptLens = v.ckptLens
    PROVE  Grows(s, t, SubSeq(ids, 1, a))
<1>1. /\ Typed(v) /\ SameModel(s, v) /\ v.kvLen = s.kvLen + Len(ids)
      /\ \A i \in 1 .. s.kvLen : v.rows[i] = s.rows[i]
      /\ v.prefixLength = s.prefixLength /\ v.ckptLens = s.ckptLens
    BY DEF Grows
<1>2. PICK k, p \in Nat : k = s.kvLen /\ p = s.prefixLength /\ p <= k
    BY TypedNumbers
<1>3. PICK q, l, M \in Nat : q = v.kvLen /\ l = Len(v.rows) /\ M = v.maxLen /\ q <= l /\ q <= M
    BY <1>1, TypedNumbers
<1>4. PICK n \in Nat : n = Len(ids)
    OBVIOUS
<1>4a. q = k + n /\ a \in 0 .. n
    BY <1>1, <1>2, <1>3, <1>4
<1>5. k + a \in Nat /\ k + a <= l /\ k + a <= M /\ p \in 0 .. k + a
    <2>1. PICK A \in Nat : A = a /\ A <= n
        BY <1>4a
    <2>1a. q = k + n /\ q <= l /\ q <= M /\ p <= k /\ A <= n
        BY <1>2, <1>3, <1>4a, <2>1
    <2>2. k + A <= l /\ k + A <= M /\ p <= k + A
        BY <2>1a
    <2> QED
        BY <2>1, <2>2
<1>6. v.rows \in Seq(Tokens) /\ v.maxLen \in MaxLens
    BY <1>1 DEF Typed
<1>7. t.kvLen = k + a /\ t.prefixLength = p /\ t.maxLen = M /\ Len(t.rows) = l /\ t.rows \in Seq(Tokens) /\ t.maxLen \in MaxLens
    BY <1>1, <1>2, <1>3, <1>6 DEF SameModel
<1>8. Typed(t)
    BY <1>5, <1>7 DEF Typed
<1>9. Content(t) = Content(s) \o SubSeq(ids, 1, a)
    <2>1. Content(s) \in Seq(Tokens) /\ Len(Content(s)) = k
        BY <1>2, ContentTyped
    <2>2. SubSeq(v.rows, 1, q) = Content(s) \o ids
        BY <1>3 DEF Content, Grows
    <2>3. SubSeq(v.rows, 1, k + a) = Content(s) \o SubSeq(ids, 1, a)
        <3>1. PICK t1, s1 \in Seq(Tokens) : t1 = v.rows /\ s1 = Content(s)
            BY <1>6, <2>1
        <3>2. /\ Len(s1) = k /\ Len(ids) = n /\ Len(s1) + Len(ids) <= Len(t1)
              /\ SubSeq(t1, 1, Len(s1) + Len(ids)) = s1 \o ids
            BY <1>3, <1>4, <1>4a, <2>1, <2>2, <3>1
        <3>3. SubSeq(t1, 1, Len(s1) + a) = s1 \o SubSeq(ids, 1, a)
            BY <3>2, ConcatCut
        <3> QED
            BY <3>1, <3>2, <3>3
    <2> QED
        BY <1>1, <1>2, <1>7, <2>3 DEF Content
<1>10. Len(SubSeq(ids, 1, a)) = a
    BY CutText
<1>11. SameModel(s, t)
    BY <1>1 DEF SameModel
<1> QED
    BY <1>1, <1>8, <1>9, <1>10, <1>11 DEF Grows

\* A verified session cut back to a of its ids.
LEMMA CutGrows ==
    ASSUME NEW s, Typed(s), NEW ids \in Seq(Tokens), NEW v, VerifiedAs(s, ids, v), NEW a \in 0 .. Len(ids),
           NEW t, IsSession(t), SameModel(v, t), t.rows = v.rows, t.kvLen = s.kvLen + a,
           t.prefixLength = v.prefixLength, t.ckptLens = v.ckptLens
    PROVE  Grows(s, t, SubSeq(ids, 1, a))
BY GrownCut DEF VerifiedAs

\* What is left of the ids after a rollback to a of them: when it fails, maybe all
\* of them, or more.
RolledTo(s, ids, a, o) ==
    /\ Owes(o.s) /\ OnlyRecurrent(o.s) /\ o.s.deferred = s.deferred
    /\ Cancels(s, o) /\ SaidBy(o) = <<>>
    /\ o.st \in {"OK", "CANCELLED", "BACKEND", "TOO_MANY_TOKENS"}
    /\ o.st = "OK" => Grows(s, o.s, SubSeq(ids, 1, a))
    /\ o.st # "OK" => \E g \in Seq(Tokens) : Grows(s, o.s, g)

\* A cut without a replay.
LEMMA CutRolled ==
    ASSUME NEW s, Typed(s), NEW ids \in Seq(Tokens), NEW v, VerifiedAs(s, ids, v), NEW a \in 0 .. Len(ids),
           NEW w, IsSession(w), SameModel(v, w), w.rows = v.rows, w.prefixLength = v.prefixLength,
           w.ckptLens = v.ckptLens, w.cancel = v.cancel, w.deferred = v.deferred, OnlyRecurrent(w),
           NEW n, n = s.kvLen + a, NEW o, o = Ok(DropLogits(Cut(w, n)))
    PROVE  RolledTo(s, ids, a, o)
<1> DEFINE c == Cut(w, n)
           d == DropLogits(c)
<1>1. /\ IsSession(c) /\ SameModel(w, c) /\ SameCkpts(w, c) /\ c.rows = w.rows /\ c.kvLen = n
      /\ c.prefixLength = w.prefixLength /\ c.deferred = w.deferred /\ c.cancel = w.cancel /\ c.txn = w.txn
    BY CutFields
<1> HIDE DEF c
<1>2. SameModel(v, c) /\ c.rows = v.rows /\ c.ckptLens = v.ckptLens
    BY <1>1 DEF SameModel, SameCkpts
<1>3. Grows(s, c, SubSeq(ids, 1, a))
    BY <1>1, <1>2, CutGrows
<1>4. Typed(c)
    BY <1>3 DEF Grows
<1>5. Grows(c, d, <<>>) /\ Owes(d) /\ d.cancel = c.cancel /\ d.txn = c.txn /\ d.deferred = c.deferred
    BY <1>4, DropLogitsGrows
<1>6. o.s = d /\ o.st = "OK" /\ SaidBy(o) = <<>>
    BY OkSays DEF c
<1> HIDE DEF d
<1>7. SubSeq(ids, 1, a) \in Seq(Tokens)
    BY CutText
<1>8. Grows(s, d, SubSeq(ids, 1, a))
    BY <1>3, <1>5, <1>7, GrowsThenSame
<1> QED
    <2>1. OnlyRecurrent(d)
        BY <1>1, <1>5 DEF OnlyRecurrent, SameModel, Grows
    <2> QED
        BY <1>1, <1>5, <1>6, <1>8, <2>1 DEF RolledTo, Cancels, VerifiedAs

\* A rollback that replays the accepted ids from the saved state.
LEMMA ReplayRolled ==
    ASSUME NEW s, Typed(s), NEW ids \in Seq(Tokens), NEW v, VerifiedAs(s, ids, v), v.txn.active,
           NEW a \in 1 .. Len(ids), NEW n, n = s.kvLen + a, NEW canFail,
           NEW q \in TxnRestores(v, canFail), NEW x, NEW o, ReplaySteps(v, n, q, canFail, x, o)
    PROVE  RolledTo(s, ids, a, o)
<1> DEFINE b == Commit(q.s)
<1>0. PICK k, l \in Nat : k = s.kvLen /\ l = Len(ids)
    BY DEF Typed
<1>1. /\ Grows(s, v, ids) /\ Owes(v) /\ v.deferred = s.deferred /\ v.cancel = s.cancel
      /\ v.recurrent /\ v.txn.base = s.kvLen /\ v.txn.ids = ids
    BY DEF VerifiedAs
<1>2. /\ x \in PrefillOnce(b, SubSeq(v.txn.ids, 1, n - v.txn.base), canFail)
      /\ o.st = x.st /\ o.toks = x.toks
      /\ x.st = "OK" => o.s = Cut(x.s, n)
      /\ x.st # "OK" => \E u \in TxnRestores([x.s EXCEPT !.txn = v.txn], canFail) : o.s = DropLogits(Commit(u.s))
    BY DEF ReplaySteps
<1>3. CopiedBack(s, ids, v, q.s)
    <2>1. InTxn(s, ids, v)
        BY <1>1 DEF InTxn
    <2> QED
        BY <2>1, TxnRestoresGrow
<1>4. PICK g \in Seq(Tokens) : (g = <<>> \/ g = ids) /\ Grows(s, q.s, g)
    <2>1. <<>> \in Seq(Tokens)
        OBVIOUS
    <2> QED
        BY <1>3, <2>1 DEF CopiedBack
<1>5. Typed(q.s) /\ Owes(q.s) /\ q.s.deferred = s.deferred /\ q.s.cancel = s.cancel
    BY <1>1, <1>3, <1>4 DEF Grows, CopiedBack
<1>6. Grows(q.s, b, <<>>) /\ Owes(b) /\ OnlyRecurrent(b) /\ b.cancel = s.cancel /\ b.deferred = s.deferred /\ Typed(b)
    <2>1. Grows(q.s, b, <<>>) /\ Owes(b) /\ OnlyRecurrent(b) /\ b.cancel = q.s.cancel /\ b.deferred = q.s.deferred
        BY <1>5, CommitGrows
    <2> QED
        BY <1>5, <2>1 DEF Grows
<1>7. PICK p \in Seq(Tokens) : p = SubSeq(ids, 1, a) /\ Len(p) = a
    <2>1. a \in 0 .. Len(ids)
        BY <1>0
    <2>2. SubSeq(ids, 1, a) \in Seq(Tokens) /\ Len(SubSeq(ids, 1, a)) = a
        BY <2>1, CutText
    <2> QED
        BY <2>2
<1>8. x \in PrefillOnce(b, p, canFail)
    <2>1. n - v.txn.base = a
        BY <1>0, <1>1
    <2> QED
        BY <1>1, <1>2, <1>7, <2>1
<1> HIDE DEF b
<1>9. Fed(b, p, x)
    BY <1>6, <1>8, PrefillOnceFed
<1>10. Grows(s, b, g)
    BY <1>4, <1>6, GrowsThenSame
<1>13. CASE x.st = "OK"
    <2>1. PICK z : z = Cut(x.s, n)
        OBVIOUS
    <2>3. o.s = z /\ o.st = "OK" /\ SaidBy(o) = SaidBy(x)
        BY <1>2, <1>13, <2>1 DEF SaidBy
    <2>4. /\ IsSession(z) /\ SameModel(x.s, z) /\ SameCkpts(x.s, z) /\ SameLogits(x.s, z) /\ z.rows = x.s.rows /\ z.kvLen = n
          /\ z.prefixLength = x.s.prefixLength /\ z.deferred = x.s.deferred /\ z.cancel = x.s.cancel /\ z.txn = x.s.txn
        BY SMTT(30), <1>9, <2>1, CutFields DEF Fed, Typed
    <2>5. Grows(b, x.s, p)
        BY <1>9, <1>13 DEF Fed
    <2>6. Grows(s, x.s, g \o p)
        BY <1>4, <1>7, <1>10, <2>5, GrowsTrans
    <2>7. PICK w \in Seq(Tokens) : w = g \o p /\ a \in 0 .. Len(w) /\ SubSeq(w, 1, a) = p
        <3>1. /\ g \o p \in Seq(Tokens) /\ Len(g \o p) = Len(g) + Len(p)
              /\ \A i \in 1 .. Len(g) + Len(p) : (g \o p)[i] = IF i <= Len(g) THEN g[i] ELSE p[i - Len(g)]
            BY <1>4, <1>7, ConcatProperties
        <3>2. PICK w \in Seq(Tokens) : w = g \o p
            BY <3>1
        <3>3. CASE g = <<>>
            <4>1. w = p /\ Len(p) = a
                BY <1>7, <3>2, <3>3, ConcatEmptySeq
            <4>2. a \in 0 .. Len(p) /\ a \in 0 .. a
                BY <1>0, <1>7
            <4>3. SubSeq(p, 1, a) \in Seq(Tokens) /\ Len(SubSeq(p, 1, a)) = a /\ \A i \in 1 .. a : SubSeq(p, 1, a)[i] = p[i]
                BY <4>2, CutText
            <4>4. SubSeq(p, 1, a) = p
                BY <1>7, <4>3, SeqEqual
            <4> QED
                BY <3>2, <4>1, <4>2, <4>4
        <3>4. CASE g = ids
            <4>1. Len(w) = l + a /\ a \in 0 .. l
                BY <1>0, <1>7, <3>1, <3>2, <3>4
            <4>2. \A i \in 1 .. a : w[i] = ids[i]
                <5>1. TAKE i \in 1 .. a
                <5>2. i \in 1 .. Len(g) + Len(p) /\ i <= Len(g)
                    BY <1>0, <1>7, <3>4
                <5> QED
                    BY <3>1, <3>2, <3>4, <5>2
            <4>3. a \in 0 .. Len(w) /\ a <= Len(ids)
                BY <1>0, <4>1
            <4>4. SubSeq(w, 1, a) = SubSeq(ids, 1, a)
                BY <4>2, <4>3, PrefixesAgree
            <4> QED
                BY <1>7, <3>2, <4>3, <4>4
        <3> QED
            BY <1>4, <3>3, <3>4
    <2>9. Grows(s, z, p)
        <3>1. Grows(s, x.s, w)
            BY <2>6, <2>7
        <3>2. z.ckptLens = x.s.ckptLens
            BY <2>4 DEF SameCkpts
        <3>3. Grows(s, z, SubSeq(w, 1, a))
            BY <2>4, <2>7, <3>1, <3>2, GrownCut
        <3> QED
            BY <2>7, <3>3
    <2>10. Owes(z) /\ OnlyRecurrent(z)
        BY <1>9, <2>4 DEF Fed, Owes, PendingToken, SameLogits, OnlyRecurrent, SameModel
    <2>11. Cancels(s, o)
        BY <1>6, <1>9, <1>13, <2>3, <2>4 DEF Fed, Cancels
    <2> QED
        BY <1>6, <1>7, <1>9, <2>3, <2>4, <2>9, <2>10, <2>11 DEF Fed, RolledTo
<1>14. CASE x.st # "OK"
    <2>1. PICK y : y = v.txn
        OBVIOUS
    <2>2. PICK e : e = [x.s EXCEPT !.txn = y]
        OBVIOUS
    <2>3. PICK u \in TxnRestores(e, canFail) : o.s = DropLogits(Commit(u.s))
        BY <1>2, <1>14, <2>1, <2>2
    <2>4. PICK c : c = Commit(u.s)
        OBVIOUS
    <2>5. PICK z : z = DropLogits(c)
        OBVIOUS
    <2>7. o.s = z /\ o.st = x.st /\ SaidBy(o) = <<>>
        BY <1>2, <1>14, <2>3, <2>4, <2>5 DEF SaidBy
    <2>8. /\ IsSession(e) /\ SameModel(x.s, e) /\ SameLogits(x.s, e) /\ e.rows = x.s.rows /\ e.kvLen = x.s.kvLen
          /\ e.prefixLength = x.s.prefixLength /\ e.ckptLens = x.s.ckptLens
          /\ e.cancel = x.s.cancel /\ e.deferred = x.s.deferred /\ e.txn = y
        BY <1>9, <2>2 DEF Fed, Typed, IsSession, SameModel, SameLogits
    <2>9. Grows(b, x.s, <<>>) \/ Grows(b, x.s, p)
        BY <1>9, <1>14 DEF Fed
    <2>10. Typed(x.s) /\ Grows(x.s, e, <<>>)
        <3>1. Typed(x.s)
            BY <1>9 DEF Fed
        <3> QED
            BY <2>8, <3>1, GrowsSame
    <2>11. PICK w \in Seq(Tokens) : Grows(s, e, w)
        <3>1. PICK h \in Seq(Tokens) : Grows(b, x.s, h)
            <4>1. <<>> \in Seq(Tokens)
                OBVIOUS
            <4> QED
                BY <1>7, <2>9, <4>1
        <3>2. g \o h \in Seq(Tokens)
            BY <1>4, <3>1, ConcatProperties
        <3>3. Grows(s, x.s, g \o h)
            BY <1>4, <1>10, <3>1, GrowsTrans
        <3>4. Grows(s, e, g \o h)
            BY <2>10, <3>2, <3>3, GrowsThenSame
        <3> QED
            BY <3>2, <3>4
    <2>12. InTxn(s, w, e)
        <3>1. Owes(e)
            BY <1>9, <2>8 DEF Fed, Owes, PendingToken, SameLogits
        <3>2. e.recurrent = v.recurrent
            BY <1>1, <2>11 DEF Grows, SameModel
        <3> QED
            BY <1>1, <2>1, <2>8, <2>11, <3>1, <3>2 DEF InTxn
    <2>13. CopiedBack(s, w, e, u.s)
        BY <2>12, TxnRestoresGrow
    <2>14. PICK h \in Seq(Tokens) : Grows(s, u.s, h)
        <3>1. <<>> \in Seq(Tokens)
            OBVIOUS
        <3> QED
            BY <2>13, <3>1 DEF CopiedBack
    <2>16. Typed(u.s) /\ Owes(u.s) /\ u.s.cancel = e.cancel /\ u.s.deferred = e.deferred
        BY <2>13, <2>14 DEF Grows, CopiedBack
    <2>17. Grows(u.s, c, <<>>) /\ OnlyRecurrent(c) /\ c.cancel = e.cancel /\ c.deferred = e.deferred /\ Typed(c)
        <3>1. Grows(u.s, c, <<>>) /\ OnlyRecurrent(c) /\ c.cancel = u.s.cancel /\ c.deferred = u.s.deferred
            BY <2>4, <2>16, CommitGrows
        <3> QED
            BY <2>16, <3>1 DEF Grows
    <2>18. Grows(c, z, <<>>) /\ Owes(z) /\ z.cancel = c.cancel /\ z.txn = c.txn /\ z.deferred = c.deferred
        BY <2>5, <2>17, DropLogitsGrows
    <2>19. Grows(s, z, h)
        BY <2>14, <2>17, <2>18, GrowsThenSame
    <2>20. OnlyRecurrent(z)
        BY <2>17, <2>18 DEF OnlyRecurrent, Grows, SameModel
    <2>21. Cancels(s, o) /\ o.s.deferred = s.deferred
        BY <1>6, <1>9, <1>14, <2>7, <2>8, <2>17, <2>18 DEF Fed, Cancels
    <2> QED
        BY <1>9, <1>14, <2>7, <2>14, <2>18, <2>19, <2>20, <2>21 DEF Fed, RolledTo
<1> QED
    BY <1>13, <1>14

\* kv_truncate after a verify that was not wholly accepted.
LEMMA KvTruncateRolled ==
    ASSUME NEW s, Typed(s), NEW ids \in Seq(Tokens), NEW v, VerifiedAs(s, ids, v),
           NEW a \in 1 .. Len(ids) - 1, NEW canFail, NEW o \in KvTruncate(v, s.kvLen + a, canFail)
    PROVE  RolledTo(s, ids, a, o)
<1>1. PICK k \in Nat, L \in Nat : k = s.kvLen /\ L = Len(ids)
    BY DEF Typed
<1>2. PICK n \in Nat : n = s.kvLen + a
    BY <1>1
<1>3. ~(n > v.kvLen)
    BY <1>1, <1>2 DEF VerifiedAs, Grows
<1>4. a \in 0 .. Len(ids) /\ a \in 1 .. Len(ids)
    BY <1>1
<1>5. IsSession(v)
    BY DEF VerifiedAs, Grows, Typed
<1>6. CASE ~v.txn.active
    <2>1. o = Ok(DropLogits(Cut(v, n)))
        BY <1>2, <1>3, <1>6 DEF KvTruncate
    <2> QED
        BY <1>2, <1>4, <1>5, <1>6, <2>1, CutRolled DEF SameModel, OnlyRecurrent
<1>7. CASE v.txn.active
    <2>1. v.txn.base = s.kvLen /\ v.txn.ids = ids
        BY <1>7 DEF VerifiedAs
    <2>2. n - v.txn.base = a
        BY <1>1, <1>2, <2>1
    <2>3. a \in 0 .. Len(v.txn.ids) /\ a # Len(v.txn.ids) /\ a > 0
        BY <1>1, <2>1
    <2>4. CASE v.txn.rowsOk
        <3>1. PICK r, m : r = v.txn.rows[a] /\ m = MtpKept(v, n)
            OBVIOUS
        <3>2. \/ o = Ok(DropLogits(Cut(Commit([v EXCEPT !.rec = r, !.mtp = m]), n)))
              \/ o = Failed(v) \/ o = Failed([[v EXCEPT !.rec = r, !.mtp = m] EXCEPT !.mtp = v.mtp])
            BY <1>2, <1>3, <1>7, <2>1, <2>2, <2>3, <2>4, <3>1 DEF KvTruncate
        <3>3. PICK w : w = [v EXCEPT !.rec = r, !.mtp = m]
            OBVIOUS
        <3>4. /\ IsSession(w) /\ SameModel(v, w) /\ w.rows = v.rows /\ w.prefixLength = v.prefixLength
              /\ w.ckptLens = v.ckptLens /\ w.cancel = v.cancel /\ w.deferred = v.deferred
            BY <1>5, <3>3 DEF IsSession, SameModel
        <3>5. PICK c : c = Commit(w)
            OBVIOUS
        <3>6. /\ IsSession(c) /\ SameModel(w, c) /\ SameCkpts(w, c) /\ SameText(w, c)
              /\ c.prefixLength = w.prefixLength /\ c.deferred = w.deferred /\ c.cancel = w.cancel /\ OnlyRecurrent(c)
            BY <3>4, <3>5, CommitFields DEF OnlyRecurrent
        <3>7. SameModel(v, c) /\ c.rows = v.rows /\ c.prefixLength = v.prefixLength
              /\ c.ckptLens = v.ckptLens /\ c.cancel = v.cancel /\ c.deferred = v.deferred
            BY <3>4, <3>6 DEF SameModel, SameCkpts, SameText
        <3>8. CASE o = Ok(DropLogits(Cut(Commit([v EXCEPT !.rec = r, !.mtp = m]), n)))
            <4>1. o = Ok(DropLogits(Cut(c, n)))
                BY <3>3, <3>5, <3>8
            <4> QED
                BY <1>2, <1>4, <3>6, <3>7, <4>1, CutRolled
        <3>9. CASE o = Failed(v) \/ o = Failed([[v EXCEPT !.rec = r, !.mtp = m] EXCEPT !.mtp = v.mtp])
            <4>1. PICK i : i = v.mtp
                OBVIOUS
            <4>3. PICK t \in {v, [w EXCEPT !.mtp = i]} : o = Failed(t)
                BY <3>3, <3>9, <4>1
            <4>4. /\ IsSession(t) /\ SameModel(v, t) /\ SameLogits(v, t) /\ t.rows = v.rows /\ t.kvLen = v.kvLen
                  /\ t.prefixLength = v.prefixLength /\ t.ckptLens = v.ckptLens
                  /\ t.cancel = v.cancel /\ t.deferred = v.deferred /\ t.txn = v.txn
                <5>1. CASE t = v
                    BY <1>5, <5>1 DEF SameModel, SameLogits
                <5>2. CASE t = [w EXCEPT !.mtp = i]
                    <6>1. w.kvLen = v.kvLen /\ w.txn = v.txn /\ SameLogits(v, w)
                        BY <1>5, <3>3 DEF IsSession, SameLogits
                    <6> QED
                        BY <3>4, <5>2, <6>1 DEF IsSession, SameModel, SameLogits
                <5> QED
                    BY <4>3, <5>1, <5>2
            <4>5. Typed(v) /\ Grows(s, v, ids) /\ Owes(v) /\ v.deferred = s.deferred /\ v.cancel = s.cancel /\ v.recurrent
                BY <1>7 DEF VerifiedAs, Grows
            <4>6. Grows(v, t, <<>>)
                BY <4>4, <4>5, GrowsSame
            <4>7. Grows(s, t, ids)
                BY <4>5, <4>6, GrowsThenSame
            <4>8. o.s = t /\ o.st = "BACKEND" /\ SaidBy(o) = <<>>
                BY <4>3, OkSays
            <4>9. Owes(t) /\ OnlyRecurrent(t)
                BY <4>4, <4>5 DEF Owes, PendingToken, SameLogits, SameModel, OnlyRecurrent
            <4> QED
                BY <4>4, <4>5, <4>7, <4>8, <4>9 DEF RolledTo, Cancels
        <3> QED
            BY <3>2, <3>8, <3>9
    <2>5. CASE ~v.txn.rowsOk
        <3>1. o \in KvTruncate(v, n, canFail)
            BY <1>2
        <3>2. /\ n - v.txn.base \in 0 .. Len(v.txn.ids) /\ n - v.txn.base # Len(v.txn.ids)
              /\ ~(n - v.txn.base > 0 /\ v.txn.rowsOk) /\ n - v.txn.base # 0
            BY <2>2, <2>3, <2>5
        <3>3. PICK q \in TxnRestores(v, canFail) : o \in Replayed(v, n, q, canFail)
            BY <1>3, <1>7, <3>1, <3>2, ZenonT(30) DEF KvTruncate
        <3>4. Tallied(q)
            BY TxnRestoresSplit DEF Counted
        <3>5. PICK x : ReplaySteps(v, n, q, canFail, x, o)
            BY <3>3, <3>4, ReplayedSplit
        <3> QED
            BY <1>2, <1>4, <1>7, <3>5, ReplayRolled
    <2> QED
        BY <2>4, <2>5
<1> QED
    BY <1>6, <1>7

-----------------------------------------------------------------------------
(* spec_verify and verify_drafts. *)

\* What Accepted means: the drafts agree with the model up to it.
LEMMA AcceptedAgrees ==
    ASSUME NEW drafts, NEW n \in Nat, Len(drafts) = n, n > 0, NEW verified
    PROVE  \A i \in 1 .. Accepted(drafts, verified) : verified[i] = drafts[i + 1]
<1>1. Accepted(drafts, verified) \in 0 .. n - 1
    BY AcceptedRange
<1> DEFINE Good(a) == /\ \A i \in 1 .. a : verified[i] = drafts[i + 1]
                      /\ a = n - 1 \/ verified[a + 1] # drafts[a + 2]
<1>2. \E a \in 0 .. n - 1 : Good(a)
    <2> DEFINE S == {a \in 0 .. n - 1 : a = n - 1 \/ verified[a + 1] # drafts[a + 2]}
    <2>1. n - 1 \in S /\ S \in SUBSET Nat
        OBVIOUS
    <2>2. PICK a \in S : \A k \in S : a <= k
        <3>1. S # {}
            BY <2>1
        <3> HIDE DEF S
        <3> QED
            BY <2>1, <3>1, LeastNumber
    <2>3. ASSUME NEW i \in 1 .. a
          PROVE  verified[i] = drafts[i + 1]
        <3>1. i - 1 \in 0 .. n - 1 /\ i - 1 < a /\ i - 1 # n - 1
            BY <2>2, <2>3
        <3>2. i - 1 \notin S
            <4> SUFFICES ASSUME i - 1 \in S PROVE FALSE
                OBVIOUS
            <4>1. a \in 0 .. n - 1
                OBVIOUS
            <4> HIDE DEF S
            <4>2. a <= i - 1
                BY <2>2
            <4> QED
                BY <3>1, <4>1, <4>2
        <3>3. verified[i - 1 + 1] = drafts[i - 1 + 2]
            BY <3>1, <3>2
        <3> QED
            BY <3>3
    <2> QED
        BY <2>2, <2>3
<1>3. Accepted(drafts, verified) = CHOOSE a \in 0 .. n - 1 : Good(a)
    BY DEF Accepted
<1> HIDE DEF Good
<1>4. Good(Accepted(drafts, verified))
    BY <1>2, <1>3
<1> QED
    BY <1>4 DEF Good

\* What a verify says: the accepted drafts and the prediction after them.
SpokenAs(base, drafts, n, verified, a, c, said) ==
    /\ verified = [i \in 1 .. n |-> Predict(base \o SubSeq(drafts, 1, i))]
    /\ drafts[1] = Predict(base)
    /\ \A i \in 1 .. a : verified[i] = drafts[i + 1]
    /\ c = verified[a + 1] /\ said = SubSeq(drafts, 1, a + 1) \o <<c>>

\* The model's continuation of a text.
Continues(base, said) ==
    /\ said \in Seq(Tokens) /\ said # <<>>
    /\ \A i \in 1 .. Len(said) : said[i] = Predict(base \o SubSeq(said, 1, i - 1))

\* The tokens of a verify that succeeds are the model's own, each after the
\* ones before it.
LEMMA SaidIsPredicted ==
    ASSUME NEW base \in Seq(Tokens), NEW drafts \in Seq(Tokens), NEW n \in Nat, n = Len(drafts), n > 0,
           NEW a \in 0 .. n - 1, NEW c \in Tokens, NEW verified, NEW said,
           SpokenAs(base, drafts, n, verified, a, c, said)
    PROVE  Continues(base, said)
<1>0. /\ verified = [i \in 1 .. n |-> Predict(base \o SubSeq(drafts, 1, i))]
      /\ drafts[1] = Predict(base)
      /\ \A i \in 1 .. a : verified[i] = drafts[i + 1]
      /\ c = verified[a + 1] /\ said = SubSeq(drafts, 1, a + 1) \o <<c>>
    BY DEF SpokenAs
<1>1. PICK p, q : p = SubSeq(drafts, 1, a + 1) /\ q = <<c>>
    OBVIOUS
<1>2. p \in Seq(Tokens) /\ Len(p) = a + 1 /\ \A i \in 1 .. a + 1 : p[i] = drafts[i]
    BY <1>1, CutText
<1>3. q \in Seq(Tokens) /\ Len(q) = 1 /\ q[1] = c
    BY <1>1
<1>4. /\ said \in Seq(Tokens) /\ Len(said) = a + 2
      /\ \A i \in 1 .. a + 2 : said[i] = IF i <= a + 1 THEN p[i] ELSE q[i - (a + 1)]
    <2>1. /\ p \o q \in Seq(Tokens) /\ Len(p \o q) = Len(p) + Len(q)
          /\ \A i \in 1 .. Len(p) + Len(q) : (p \o q)[i] = IF i <= Len(p) THEN p[i] ELSE q[i - Len(p)]
        BY <1>2, <1>3, ConcatProperties
    <2>2. Len(p) + Len(q) = a + 2
        BY <1>2, <1>3
    <2> QED
        BY <1>0, <1>1, <1>2, <2>1, <2>2
<1>5. \A i \in 1 .. a + 1 : said[i] = drafts[i]
    BY <1>2, <1>4
<1>6. said[a + 2] = c
    BY <1>3, <1>4
<1>7. ASSUME NEW i \in 0 .. a + 1
      PROVE  SubSeq(said, 1, i) = SubSeq(drafts, 1, i)
    <2>1. i \in 0 .. Len(said) /\ i <= Len(drafts) /\ \A j \in 1 .. i : said[j] = drafts[j]
        BY <1>4, <1>5
    <2> QED
        BY <1>4, <2>1, PrefixesAgree
<1>8. ASSUME NEW i \in 1 .. a + 2
      PROVE  said[i] = Predict(base \o SubSeq(said, 1, i - 1))
    <2>1. i - 1 \in 0 .. a + 1
        OBVIOUS
    <2>2. SubSeq(said, 1, i - 1) = SubSeq(drafts, 1, i - 1)
        BY <1>7, <2>1
    <2>3. CASE i = 1
        <3>1. SubSeq(drafts, 1, 0) = <<>>
            <4>1. 0 \in 0 .. Len(drafts)
                OBVIOUS
            <4>2. SubSeq(drafts, 1, 0) \in Seq(Tokens) /\ Len(SubSeq(drafts, 1, 0)) = 0
                BY <4>1, CutText
            <4> QED
                BY <4>2, EmptySeq
        <3>2. base \o <<>> = base
            BY ConcatNothing
        <3>3. said[1] = drafts[1] /\ i - 1 = 0
            BY <1>5, <2>3
        <3> QED
            BY <1>0, <2>2, <2>3, <3>1, <3>2, <3>3
    <2>4. CASE i \in 2 .. a + 1
        <3>1. i - 1 \in 1 .. a /\ i - 1 \in 1 .. n /\ i - 1 + 1 = i /\ i \in 1 .. a + 1
            BY <2>4
        <3>2. verified[i - 1] = drafts[i]
            BY <1>0, <3>1
        <3>3. verified[i - 1] = Predict(base \o SubSeq(drafts, 1, i - 1))
            BY <1>0, <3>1
        <3>4. said[i] = drafts[i]
            BY <1>5, <3>1
        <3> QED
            BY <2>2, <3>2, <3>3, <3>4
    <2>5. CASE i = a + 2
        <3>1. i - 1 = a + 1 /\ a + 1 \in 1 .. n
            BY <2>5
        <3>2. c = Predict(base \o SubSeq(drafts, 1, a + 1))
            BY <1>0, <3>1
        <3> QED
            BY <1>6, <2>2, <2>5, <3>1, <3>2
    <2> QED
        BY <2>3, <2>4, <2>5
<1>9. said # <<>>
    BY <1>4
<1> QED
    BY <1>4, <1>8, <1>9 DEF Continues

\* A call that grows the text keeps its promises and, if it says nothing, extends it.
LEMMA GrownPromise ==
    ASSUME NEW s, Held(s), ~s.deferred, NEW o, Owes(o.s), OnlyRecurrent(o.s), ~o.s.deferred,
           Cancels(s, o), o.st \notin Refusals, NEW ids \in Seq(Tokens), Grows(s, o.s, ids)
    PROVE  Promise(s, o) /\ (SaidBy(o) = <<>> => Speaks(s, o))
<1>1. Typed(s) /\ Typed(o.s)
    BY DEF Held, Grows
<1>2. StartOf(Text(s), Text(o.s))
    BY <1>1, GrowsText
<1>3. Pin(o.s) = Pin(s)
    BY <1>1, GrowsPin
<1>4. Held(o.s)
    BY <1>1 DEF Held
<1>5. SameModel(s, o.s) /\ o.s.prefixLength = s.prefixLength
    BY DEF Grows
<1> QED
    BY <1>2, <1>3, <1>4, <1>5 DEF Promise, Starts, Speaks, Extends

\* What is kept of a verified session.
KeptAs(s, p, k) ==
    /\ Owes(k.s) /\ k.s.deferred = s.deferred /\ Cancels(s, k) /\ SaidBy(k) = <<>>
    /\ k.st \in {"OK", "CANCELLED", "BACKEND", "TOO_MANY_TOKENS"}
    /\ k.st = "OK" => Grows(s, k.s, p)
    /\ k.st # "OK" => (\E g \in Seq(Tokens) : Grows(s, k.s, g)) /\ OnlyRecurrent(k.s)

\* The kept drafts are the accepted ones.
LEMMA KeptOutsAs ==
    ASSUME NEW s, Held(s), NEW drafts \in Seq(Tokens), NEW n \in Nat, n = Len(drafts), n > 0, NEW v,
           VerifiedAs(s, drafts, v.s), NEW canFail, NEW k \in KeptOuts(s, drafts, v, canFail),
           NEW a \in 0 .. n - 1, a = Accepted(drafts, v.toks)
    PROVE  KeptAs(s, SubSeq(drafts, 1, a + 1), k)
<1>1. Typed(s)
    BY DEF Held
<1>2. CASE a = Len(drafts) - 1
    <2>1. k = Ok(v.s)
        BY <1>2 DEF KeptOuts
    <2>2. k.s = v.s /\ k.st = "OK" /\ SaidBy(k) = <<>>
        BY <2>1, OkSays
    <2>3. SubSeq(drafts, 1, a + 1) = drafts
        <3>1. n \in 0 .. Len(drafts) /\ a + 1 = n
            BY <1>2
        <3>2. SubSeq(drafts, 1, n) \in Seq(Tokens) /\ Len(SubSeq(drafts, 1, n)) = n /\ \A i \in 1 .. n : SubSeq(drafts, 1, n)[i] = drafts[i]
            BY <3>1, CutText
        <3>3. SubSeq(drafts, 1, n) = drafts
            BY <3>2, SeqEqual
        <3> QED
            BY <3>1, <3>3
    <2> QED
        BY <2>2, <2>3 DEF KeptAs, VerifiedAs, Cancels
<1>3. CASE a # Len(drafts) - 1
    <2>1. k \in KvTruncate(v.s, s.kvLen + a + 1, canFail)
        BY <1>3 DEF KeptOuts
    <2>2. PICK b \in 1 .. Len(drafts) - 1 : b = a + 1
        BY <1>3
    <2>3. s.kvLen + a + 1 = s.kvLen + b
        <3>1. PICK l \in Nat : l = s.kvLen
            BY <1>1 DEF Typed
        <3>2. l + a + 1 = l + b
            BY <2>2
        <3> QED
            BY <3>1, <3>2
    <2>4. k \in KvTruncate(v.s, s.kvLen + b, canFail)
        BY <2>1, <2>3
    <2>5. RolledTo(s, drafts, b, k)
        BY <1>1, <2>4, KvTruncateRolled
    <2> QED
        BY <2>2, <2>5 DEF RolledTo, KeptAs
<1> QED
    BY <1>2, <1>3

\* spec_verify: the accepted drafts and the model's own next token, or less.
LEMMA SpecVerifySpeaks ==
    ASSUME NEW s, Held(s), ~s.deferred, s.logitsValid, NEW drafts \in Seq(Tokens), drafts # <<>>,
           drafts[1] = PendingToken(s), NEW canFail, NEW o \in SpecVerify(s, drafts, canFail)
    PROVE  Promise(s, o) /\ (Current(s) => Speaks(s, o))
<1>1. PICK v \in VerifyForward(s, drafts, canFail) :
              /\ v.st # "OK" => o = v
              /\ v.st = "OK" => \E k \in KeptOuts(s, drafts, v, canFail) : \E x :
                                   SpecSteps(s, drafts, canFail, v, k, x, o)
    BY SpecVerifySplit
<1>2. Typed(s) /\ Owes(s) /\ OnlyRecurrent(s)
    BY DEF Held
<1>3. VerifySaid(s, drafts, v)
    BY <1>2, VerifyForwardSaid
<1>4. <<>> \in Seq(Tokens)
    OBVIOUS
<1>5. CASE v.st \in {"INVALID_ARG", "TOO_MANY_TOKENS"}
    <2>1. o.s = s /\ o.st # "CANCELLED" /\ SaidBy(o) = <<>>
        BY <1>1, <1>3, <1>5 DEF VerifySaid
    <2>2. SameView(s, o.s) /\ Held(o.s) /\ o.s.cancel = s.cancel
        BY <2>1 DEF SameView, SameModel
    <2> QED
        BY <1>2, <2>1, <2>2, UnseenPromise
<1>6. CASE v.st = "BACKEND"
    <2>1. o = v
        BY <1>1, <1>6
    <2>2. /\ Grows(s, o.s, <<>>) \/ Grows(s, o.s, drafts)
          /\ Owes(o.s) /\ OnlyRecurrent(o.s) /\ o.s.deferred = s.deferred /\ o.s.cancel = s.cancel /\ SaidBy(o) = <<>>
        BY <1>3, <1>6, <2>1 DEF VerifySaid
    <2>3. Cancels(s, o) /\ o.st \notin Refusals
        BY <1>6, <2>1, <2>2 DEF Cancels, Refusals
    <2> QED
        BY <1>4, <2>2, <2>3, GrownPromise
<1>7. CASE v.st = "OK"
    <2>1. VerifiedAs(s, drafts, v.s) /\ v.toks = [i \in 1 .. Len(drafts) |-> Predict(Content(s) \o SubSeq(drafts, 1, i))]
        BY <1>3, <1>7 DEF VerifySaid
    <2>2. PICK n \in Nat : n = Len(drafts) /\ n > 0
        <3>1. Len(drafts) \in Nat /\ (Len(drafts) = 0 => drafts = <<>>)
            BY EmptySeq
        <3> QED
            BY <3>1
    <2>3. PICK a \in 0 .. n - 1 : a = Accepted(drafts, v.toks)
        BY <2>2, AcceptedRange
    <2>4. PICK p \in Seq(Tokens) : p = SubSeq(drafts, 1, a + 1)
        <3>1. a + 1 \in 0 .. Len(drafts)
            BY <2>2
        <3>2. SubSeq(drafts, 1, a + 1) \in Seq(Tokens)
            BY <3>1, CutText
        <3> QED
            BY <3>2
    <2>5. PICK c \in Tokens : c = v.toks[a + 1]
        <3>1. PICK t : t = Content(s) \o SubSeq(drafts, 1, a + 1)
            OBVIOUS
        <3>2. a + 1 \in 1 .. Len(drafts) /\ a + 1 \in 0 .. Len(drafts)
            BY <2>2
        <3>3. v.toks[a + 1] = Predict(t)
            BY <2>1, <3>1, <3>2
        <3>4. Typed(v.s) /\ v.s.kvLen = s.kvLen + Len(drafts) /\ t = SubSeq(v.s.rows, 1, s.kvLen + (a + 1))
            BY <2>1, <3>1, <3>2 DEF VerifiedAs, Grows
        <3>5. PICK k \in Nat : k = s.kvLen
            BY <1>2 DEF Typed
        <3>6. PICK q, l, M \in Nat : q = v.s.kvLen /\ l = Len(v.s.rows) /\ M = v.s.maxLen /\ q <= l /\ q <= M
            BY <3>4, TypedNumbers
        <3>7. k + (a + 1) \in 0 .. l /\ k + (a + 1) <= M
            <4>1. q = k + n /\ a + 1 <= n
                BY <2>2, <3>4, <3>5, <3>6
            <4> QED
                BY <3>6, <4>1
        <3>8. v.s.rows \in Seq(Tokens) /\ v.s.maxLen \in MaxLens
            BY <3>4 DEF Typed
        <3>9. t \in Seq(Tokens) /\ Len(t) = k + (a + 1)
            BY <3>4, <3>5, <3>6, <3>7, <3>8, CutText
        <3>10. Predict(t) \in Tokens
            BY <3>6, <3>7, <3>8, <3>9, PredictTyped
        <3> QED
            BY <3>3, <3>10
    <2>6. PICK q \in Seq(Tokens) : q = <<c>>
        <3>1. <<c>> \in Seq(Tokens)
            OBVIOUS
        <3> QED
            BY <3>1
    <2>7. PICK k \in KeptOuts(s, drafts, v, canFail) : \E x : SpecSteps(s, drafts, canFail, v, k, x, o)
        BY <1>1, <1>7
    <2>8. PICK x : SpecSteps(s, drafts, canFail, v, k, x, o)
        BY <2>7
    <2>9. /\ IF k.st = "OK" THEN x \in PrefillOnce(k.s, q, canFail) ELSE x = k
          /\ o.s = x.s /\ o.st = x.st /\ o.toks = IF x.st = "OK" THEN p \o q ELSE x.toks
        BY <2>3, <2>4, <2>5, <2>6, <2>8 DEF SpecSteps
    <2>10. KeptAs(s, p, k)
        BY <2>1, <2>2, <2>3, <2>4, KeptOutsAs
    <2>11. CASE k.st # "OK"
        <3>1. o.s = k.s /\ o.st = k.st /\ SaidBy(o) = SaidBy(k)
            BY <2>9, <2>11 DEF SaidBy
        <3>2. PICK g \in Seq(Tokens) : Grows(s, o.s, g)
            BY <2>10, <2>11, <3>1 DEF KeptAs
        <3>3. Owes(o.s) /\ OnlyRecurrent(o.s) /\ ~o.s.deferred /\ Cancels(s, o) /\ SaidBy(o) = <<>>
            BY <2>10, <2>11, <3>1 DEF KeptAs, Cancels
        <3>4. o.st \notin Refusals
            BY <2>10, <2>11, <3>1 DEF KeptAs, Refusals
        <3> QED
            BY <3>2, <3>3, <3>4, GrownPromise
    <2>12. CASE k.st = "OK"
        <3>1. x \in PrefillOnce(k.s, q, canFail)
            BY <2>9, <2>12
        <3>2. Grows(s, k.s, p) /\ Owes(k.s) /\ k.s.deferred = s.deferred /\ k.s.cancel = s.cancel
            BY <2>10, <2>12 DEF KeptAs, Cancels
        <3>3. Typed(k.s)
            BY <3>2 DEF Grows
        <3>4. Fed(k.s, q, x) /\ (x.st = "OK" => x.s.logitsValid)
            BY <3>1, <3>2, <3>3, PrefillOnceFed
        <3>6. o.s = x.s /\ o.st = x.st
            BY <2>9
        <3>7. Cancels(s, o)
            BY <3>2, <3>4, <3>6 DEF Fed, Cancels
        <3>8. o.st \notin Refusals
            BY <3>4, <3>6 DEF Fed, Refusals
        <3>9. Owes(o.s) /\ OnlyRecurrent(o.s) /\ ~o.s.deferred
            BY <3>2, <3>4, <3>6 DEF Fed
        <3>10. Grows(k.s, x.s, <<>>) => Grows(s, o.s, p)
            BY <1>2, <3>2, <3>6, GrowsThenSame
        <3>11. Grows(k.s, x.s, q) => Grows(s, o.s, p \o q)
            BY <1>2, <3>2, <3>6, GrowsTrans
        <3>12. p \o q \in Seq(Tokens)
            BY ConcatProperties
        <3>13. CASE x.st # "OK"
            <4>1. SaidBy(o) = <<>>
                BY <2>9, <3>13 DEF SaidBy
            <4>2. Grows(s, o.s, p) \/ Grows(s, o.s, p \o q)
                BY <3>4, <3>10, <3>11, <3>13 DEF Fed
            <4> QED
                BY <3>7, <3>8, <3>9, <3>12, <4>1, <4>2, GrownPromise
        <3>14. CASE x.st = "OK"
            <4>1. SaidBy(o) = p \o q
                BY <2>9, <3>14 DEF SaidBy
            <4>2. Grows(s, o.s, p \o q) /\ o.s.logitsValid
                BY <3>4, <3>6, <3>11, <3>14 DEF Fed
            <4>3. Promise(s, o)
                BY <3>7, <3>8, <3>9, <3>12, <4>2, GrownPromise
            <4>4. Text(s) = Content(s) /\ Text(o.s) = Text(s) \o (p \o q)
                BY <1>2, <3>9, <3>12, <4>2, GrowsText
            <4>5. Pin(o.s) = Pin(s)
                BY <1>2, <4>2, GrowsPin
            <4>6. ASSUME Current(s)
                  PROVE  Speaks(s, o)
                <5>1. drafts[1] = Predict(Content(s)) /\ Content(s) \in Seq(Tokens)
                    BY <1>2, <4>6, ContentTyped DEF Current, PendingToken
                <5>2. \A i \in 1 .. a : v.toks[i] = drafts[i + 1]
                    BY ZenonT(60), <2>2, <2>3, AcceptedAgrees
                <5>3. PICK base, said, verified : base = Content(s) /\ said = p \o q /\ verified = v.toks
                    OBVIOUS
                <5>4. /\ verified = [i \in 1 .. n |-> Predict(base \o SubSeq(drafts, 1, i))]
                      /\ said = SubSeq(drafts, 1, a + 1) \o <<c>> /\ c = verified[a + 1]
                      /\ \A i \in 1 .. a : verified[i] = drafts[i + 1]
                    BY <2>1, <2>2, <2>4, <2>5, <2>6, <5>2, <5>3
                <5>5. base \in Seq(Tokens) /\ drafts[1] = Predict(base)
                    BY <5>1, <5>3
                <5>6. SpokenAs(base, drafts, n, verified, a, c, said)
                    BY <5>4, <5>5 DEF SpokenAs
                <5>7. Continues(base, said)
                    BY <2>2, <5>5, <5>6, SaidIsPredicted
                <5>8. Emits(s, o)
                    BY <4>1, <4>2, <4>4, <4>5, <5>3, <5>7 DEF Emits, Continues
                <5> QED
                    BY <5>8 DEF Speaks
            <4> QED
                BY <4>3, <4>6
        <3> QED
            BY <3>13, <3>14
    <2> QED
        BY <2>11, <2>12
<1> QED
    BY <1>3, <1>5, <1>6, <1>7 DEF VerifySaid

\* geist_session_verify_drafts.
LEMMA VerifyDraftsSpeaks ==
    ASSUME NEW s, Held(s), NEW guesses \in Seq(Tokens), NEW canFail, NEW o \in VerifyDrafts(s, guesses, canFail)
    PROVE  Promise(s, o) /\ (Rest(s) /\ o.faults = 0 => Speaks(s, o))
<1>1. CASE guesses = <<>>
    BY <1>1, DecodeStepSpeaks DEF VerifyDrafts
<1>2. CASE guesses # <<>>
    <2>1. PICK x \in Settle(s, canFail) :
             IF x.st = "OK" /\ x.s.logitsValid
             THEN o \in SpecVerify(x.s, <<PendingToken(x.s)>> \o guesses, canFail)
             ELSE \E r \in DecodeStep(x.s, canFail) : o = After(x, r)
        BY <1>2 DEF VerifyDrafts
    <2>2. Counted(x)
        BY SettleCounted
    <2>3. SettledAs(s, x)
        BY SettleUnseen
    <2>4. CASE x.st = "OK" /\ x.s.logitsValid
        <3>1. PICK y \in Tokens : y = PendingToken(x.s)
            BY <2>3 DEF SettledAs, Held, Owes
        <3>2. PICK q \in Seq(Tokens) : q = <<y>> /\ Len(q) = 1 /\ q[1] = y
            <4>1. <<y>> \in Seq(Tokens) /\ Len(<<y>>) = 1 /\ <<y>>[1] = y
                OBVIOUS
            <4> QED
                BY <4>1
        <3>3. PICK p : p = q \o guesses
            OBVIOUS
        <3>4. p \in Seq(Tokens) /\ p # <<>> /\ p[1] = y
            <4>1. PICK g \in Nat : g = Len(guesses)
                OBVIOUS
            <4>2. /\ q \o guesses \in Seq(Tokens) /\ Len(q \o guesses) = Len(q) + Len(guesses)
                  /\ \A i \in 1 .. Len(q) + Len(guesses) : (q \o guesses)[i] = IF i <= Len(q) THEN q[i] ELSE guesses[i - Len(q)]
                BY ConcatProperties
            <4>3. p \in Seq(Tokens) /\ Len(p) = 1 + g /\ \A i \in 1 .. 1 + g : p[i] = IF i <= 1 THEN q[i] ELSE guesses[i - 1]
                BY <3>2, <3>3, <4>1, <4>2
            <4>4. 1 \in 1 .. 1 + g
                BY <4>1
            <4>5. p[1] = y
                BY <3>2, <4>3, <4>4
            <4>6. Len(p) # 0
                BY <4>1, <4>3
            <4> QED
                BY <4>3, <4>5, <4>6
        <3>5. o \in SpecVerify(x.s, p, canFail)
            BY <2>1, <2>4, <3>1, <3>2, <3>3
        <3>6. Held(x.s) /\ ~x.s.deferred
            BY <2>3, <2>4 DEF SettledAs
        <3>7. Promise(x.s, o) /\ (Current(x.s) => Speaks(x.s, o))
            BY <2>4, <3>1, <3>4, <3>5, <3>6, SpecVerifySpeaks
        <3>8. Promise(s, o)
            BY <2>3, <3>7, UnseenThenPromise DEF SettledAs
        <3>9. ASSUME Rest(s) /\ o.faults = 0
              PROVE  Speaks(s, o)
            <4>1. x.faults = 0
                BY <2>2, <2>4 DEF Counted, Tallied
            <4>2. Current(x.s)
                BY <3>9, <4>1, SettleRest DEF Rest
            <4> QED
                BY <2>3, <3>7, <4>2, UnseenThenSpeaks DEF SettledAs
        <3> QED
            BY <3>8, <3>9
    <2>5. CASE ~(x.st = "OK" /\ x.s.logitsValid)
        <3>1. PICK r \in DecodeStep(x.s, canFail) : o = After(x, r)
            BY <2>1, <2>5
        <3>2. Counted(r)
            BY DecodeStepCounted
        <3>3. o.s = r.s /\ o.st = r.st /\ o.toks = r.toks /\ (o.faults = 0 => r.faults = 0 /\ x.faults = 0)
            BY <2>2, <3>1, <3>2, AfterTallied DEF Counted
        <3>6. Promise(x.s, r) /\ Starts(x.s, r) /\ (Rest(x.s) /\ r.faults = 0 => Speaks(x.s, r))
            BY <2>3, <3>1, DecodeStepSpeaks DEF SettledAs
        <3>7. Promise(s, r) /\ Starts(s, r)
            BY <2>3, <3>6, UnseenThenPromise DEF SettledAs
        <3>9. Promise(s, o)
            BY <3>3, <3>7 DEF Promise, Cancels, Starts
        <3>10. ASSUME Rest(s) /\ o.faults = 0
               PROVE  Speaks(s, o)
            <4>1. Rest(x.s)
                BY <3>3, <3>10, SettleRest
            <4>2. Speaks(x.s, r)
                BY <3>3, <3>6, <3>10, <4>1
            <4>3. Speaks(s, r)
                BY <2>3, <4>2, UnseenThenSpeaks DEF SettledAs
            <4>4. SaidBy(o) = SaidBy(r)
                BY <3>3 DEF SaidBy
            <4> QED
                BY <3>3, <4>3, <4>4 DEF Speaks, Extends, Emits, Rewinds
        <3> QED
            BY <3>9, <3>10
    <2> QED
        BY <2>4, <2>5
<1> QED
    BY <1>1, <1>2

-----------------------------------------------------------------------------
(* Checkpoints, truncate, reset and snapshots. *)

\* A call that touches neither the text, nor what is pending, nor the pin.
LEMMA SameTextPromise ==
    ASSUME NEW s, Held(s), NEW o, IsSession(o.s), SameModel(s, o.s), o.s.rows = s.rows, o.s.kvLen = s.kvLen,
           o.s.prefixLength = s.prefixLength, SameLogits(s, o.s), o.s.deferred = s.deferred,
           o.s.cancel = s.cancel, OnlyRecurrent(o.s),
           o.st \notin Refusals, o.st # "CANCELLED", SaidBy(o) = <<>>
    PROVE  Promise(s, o) /\ Speaks(s, o)
<1>1. Typed(s) /\ Owes(s)
    BY DEF Held
<1>2. Typed(o.s)
    BY <1>1 DEF Typed, SameModel
<1>3. Content(o.s) = Content(s) /\ PendingToken(o.s) = PendingToken(s) /\ Pin(o.s) = Pin(s)
    BY DEF Content, PendingToken, SameLogits, Pin
<1>4. Text(o.s) = Text(s)
    BY <1>3 DEF Text
<1>5. StartOf(Text(s), Text(s))
    BY <1>1, TextTyped, StartSelf
<1>6. StartOf(Text(s), Text(o.s))
    BY <1>4, <1>5
<1>7. Held(o.s)
    BY <1>1, <1>2, <1>3 DEF Held, Owes, SameLogits
<1> QED
    BY <1>3, <1>6, <1>7 DEF Promise, Starts, Cancels, Speaks, Extends

\* Dropping the oldest checkpoint changes nothing else.
LEMMA EvictedFields ==
    ASSUME NEW s, IsSession(s)
    PROVE  LET t == Evicted(s) IN
           /\ IsSession(t) /\ SameModel(s, t) /\ SameText(s, t) /\ SameLogits(s, t)
           /\ t.prefixLength = s.prefixLength /\ t.deferred = s.deferred /\ t.cancel = s.cancel
           /\ t.txn = s.txn
<1>1. PICK w, c : w = Tail(s.ckptLens) /\ c = (s.ckptBase + 1) % Slots
    OBVIOUS
<1>2. Evicted(s) = s \/ Evicted(s) = [s EXCEPT !.ckptLens = w, !.ckptBase = c]
    BY <1>1 DEF Evicted, IsSession
<1> QED
    BY <1>2 DEF IsSession, SameModel, SameText, SameLogits

\* transformer_checkpoint is not seen, whether it fails or not.
LEMMA CheckpointSpeaks ==
    ASSUME NEW s, Held(s), NEW canFail, NEW o \in Checkpoint(s, canFail)
    PROVE  Promise(s, o) /\ Speaks(s, o)
<1>1. PICK x \in Settle(s, canFail) : IF x.st = "OK" THEN o \in CheckpointSettled(x.s, canFail) ELSE o = x
    BY DEF Checkpoint, Then
<1>2. SettledAs(s, x)
    BY <1>1, SettleUnseen
<1>3. CASE x.st # "OK"
    BY <1>1, <1>2, <1>3, UnseenPromise DEF SettledAs, Held, SaidBy
<1>4. CASE x.st = "OK"
    <2>1. PICK y : y = x.s
        OBVIOUS
    <2>2. Held(y) /\ SameView(s, y) /\ y.cancel = s.cancel
        BY <1>2, <2>1 DEF SettledAs
    <2>3. Promise(y, o) /\ Speaks(y, o)
        <3> DEFINE e == Evicted(y)
                   c == Commit(e)
                   slot == CkptSlot(e, Len(e.ckptLens) + 1)
        <3>1. PICK g, w : g = [c.ckptBuf EXCEPT ![slot] = y.rec] /\ w = Append(c.ckptLens, y.kvLen)
            OBVIOUS
        <3> DEFINE t == [c EXCEPT !.ckptBuf = g, !.ckptLens = w]
                   u == [c EXCEPT !.ckptBuf = g]
        <3>2. /\ IsSession(e) /\ SameModel(y, e) /\ SameText(y, e) /\ SameLogits(y, e)
              /\ e.prefixLength = y.prefixLength /\ e.deferred = y.deferred /\ e.cancel = y.cancel /\ e.txn = y.txn
            BY <2>2, EvictedFields DEF Held, Typed
        <3>3. \/ o \in Refused(y, "UNSUPPORTED")
              \/ o = Ok([c EXCEPT !.ckptBuf[slot] = y.rec, !.ckptLens = Append(@, y.kvLen)])
              \/ o = Failed(e)
              \/ o = Failed([c EXCEPT !.ckptBuf[slot] = y.rec])
            BY <1>1, <1>4, <2>1 DEF CheckpointSettled
        <3> HIDE DEF e
        <3>4. /\ IsSession(c) /\ SameModel(e, c) /\ SameText(e, c) /\ SameLogits(e, c)
              /\ c.prefixLength = e.prefixLength /\ c.deferred = e.deferred /\ c.cancel = e.cancel /\ OnlyRecurrent(c)
            BY <3>2, CommitFields DEF OnlyRecurrent
        <3> HIDE DEF c, slot
        <3>5. /\ [c EXCEPT !.ckptBuf[slot] = y.rec, !.ckptLens = Append(@, y.kvLen)] = t
              /\ [c EXCEPT !.ckptBuf[slot] = y.rec] = u
            BY <3>1, <3>4 DEF IsSession
        <3>6. /\ IsSession(t) /\ SameModel(c, t) /\ SameText(c, t) /\ SameLogits(c, t)
              /\ t.prefixLength = c.prefixLength /\ t.deferred = c.deferred /\ t.cancel = c.cancel /\ t.txn = c.txn
              /\ IsSession(u) /\ SameModel(c, u) /\ SameText(c, u) /\ SameLogits(c, u)
              /\ u.prefixLength = c.prefixLength /\ u.deferred = c.deferred /\ u.cancel = c.cancel /\ u.txn = c.txn
            BY <3>4 DEF IsSession, SameModel, SameText, SameLogits
        <3>7. CASE o \in Refused(y, "UNSUPPORTED")
            <4>1. o.s = y /\ o.st = "UNSUPPORTED" /\ SaidBy(o) = <<>>
                BY <3>7, RefusedSays
            <4>2. SameView(y, o.s)
                BY <4>1 DEF SameView, SameModel
            <4> QED
                BY <2>2, <4>1, <4>2, UnseenPromise DEF Held
        <3>8. CASE o = Failed(e)
            <4>1. o.s = e /\ o.st = "BACKEND" /\ SaidBy(o) = <<>>
                BY <3>8, OkSays
            <4>2. o.s.rows = y.rows /\ o.s.kvLen = y.kvLen /\ OnlyRecurrent(o.s)
                BY <2>2, <3>2, <4>1 DEF SameText, Held, OnlyRecurrent, SameModel
            <4> QED
                BY <2>2, <3>2, <4>1, <4>2, SameTextPromise DEF Refusals
        <3> HIDE DEF t, u
        <3>9. CASE o = Ok(t) \/ o = Failed(u)
            <4>1. PICK z \in {t, u} : o.s = z /\ o.st \in {"OK", "BACKEND"} /\ SaidBy(o) = <<>>
                BY <3>9, OkSays
            <4>2. /\ IsSession(z) /\ SameModel(c, z) /\ SameText(c, z) /\ SameLogits(c, z)
                  /\ z.prefixLength = c.prefixLength /\ z.deferred = c.deferred /\ z.cancel = c.cancel /\ z.txn = c.txn
                BY <3>6, <4>1
            <4>3. /\ SameModel(y, z) /\ z.rows = y.rows /\ z.kvLen = y.kvLen /\ SameLogits(y, z)
                  /\ z.prefixLength = y.prefixLength /\ z.deferred = y.deferred /\ z.cancel = y.cancel /\ OnlyRecurrent(z)
                BY <3>2, <3>4, <4>2 DEF SameModel, SameText, SameLogits, OnlyRecurrent
            <4> QED
                BY <2>2, <4>1, <4>2, <4>3, SameTextPromise DEF Refusals
        <3> QED
            BY <3>3, <3>5, <3>7, <3>8, <3>9
    <2> QED
        BY <2>2, <2>3, UnseenThenPromise, UnseenThenSpeaks
<1> QED
    BY <1>3, <1>4

\* t is s cut to n, with nothing pending or owed.
CutBackTo(s, n, t) ==
    /\ IsSession(t) /\ SameModel(s, t) /\ t.rows = s.rows /\ t.kvLen = n
    /\ t.prefixLength = s.prefixLength /\ t.cancel = s.cancel
    /\ t.logitsValid = FALSE /\ t.pending = NoPending /\ ~t.deferred /\ OnlyRecurrent(t)

\* A rewind keeps the pinned beginning and leaves nothing pending.
LEMMA CutBackRewinds ==
    ASSUME NEW s, Held(s), NEW n \in Nat, n <= s.kvLen, s.prefixLength <= n, NEW t, CutBackTo(s, n, t),
           NEW o, o = Ok(t)
    PROVE  Promise(s, o) /\ Speaks(s, o)
<1>1. Typed(s) /\ Owes(s)
    BY DEF Held
<1>2. PICK k, p, L, M \in Nat : /\ k = s.kvLen /\ p = s.prefixLength /\ L = Len(s.rows) /\ M = s.maxLen
                                /\ p <= k /\ k <= L /\ k <= M
    BY <1>1, TypedNumbers
<1>3. n <= L /\ n <= M /\ p \in 0 .. n /\ n \in 0 .. k /\ k \in 0 .. L
    BY <1>2
<1>4. /\ IsSession(t) /\ SameModel(s, t) /\ t.rows = s.rows /\ t.kvLen = n
      /\ t.prefixLength = p /\ t.cancel = s.cancel
      /\ t.logitsValid = FALSE /\ t.pending = NoPending /\ ~t.deferred /\ OnlyRecurrent(t)
    BY <1>2 DEF CutBackTo
<1>5. Typed(t)
    <2>1. s.rows \in Seq(Tokens) /\ s.maxLen \in MaxLens
        BY <1>1 DEF Typed
    <2> QED
        BY <1>2, <1>3, <1>4, <2>1 DEF Typed, SameModel
<1>6. Owes(t)
    <2>1. <<>> \in Seq(Tokens) /\ Len(<<>>) <= t.maxLen /\ t.maxLen \in MaxLens
        BY <1>2, <1>4, <1>5 DEF Typed, SameModel
    <2>2. Predict(<<>>) \in Tokens
        BY <2>1, PredictTyped
    <2>3. NoPending.on = <<>>
        BY DEF NoPending
    <2> QED
        BY <1>4, <2>2, <2>3 DEF Owes, PendingToken
<1>7. Held(t)
    BY <1>4, <1>5, <1>6 DEF Held
<1>8. Text(t) = SubSeq(s.rows, 1, n)
    <2>1. Text(t) = Content(t)
        BY <1>4, <1>5, <1>6, TextTyped
    <2> QED
        BY <1>4, <2>1 DEF Content
<1>9. Pin(t) = Pin(s) /\ Pin(s) = SubSeq(s.rows, 1, p)
    BY <1>2, <1>4 DEF Pin
<1>10. s.rows \in Seq(Tokens)
    BY <1>1 DEF Typed
<1>11. StartOf(Pin(s), Text(t))
    <2>1. n \in 0 .. Len(s.rows) /\ p \in 0 .. n
        BY <1>2, <1>3
    <2>2. StartOf(SubSeq(s.rows, 1, p), SubSeq(s.rows, 1, n))
        BY <1>10, <2>1, StartCut
    <2> QED
        BY <1>8, <1>9, <2>2
<1>12. StartOf(Text(t), Text(s))
    <2>1. k \in 0 .. Len(s.rows) /\ n \in 0 .. k
        BY <1>2, <1>3
    <2>2. StartOf(SubSeq(s.rows, 1, n), SubSeq(s.rows, 1, k))
        BY <1>10, <2>1, StartCut
    <2>3. StartOf(Text(t), Content(s))
        BY <1>2, <1>8, <2>2 DEF Content
    <2>4. StartOf(Content(s), Text(s)) /\ Text(s) \in Seq(Tokens)
        BY <1>1, TextTyped
    <2>5. Content(s) \in Seq(Tokens) /\ Text(t) \in Seq(Tokens)
        BY <1>1, <1>5, <1>6, ContentTyped, TextTyped
    <2> QED
        BY <2>3, <2>4, <2>5, StartTrans
<1>13. o.s = t /\ o.st = "OK" /\ o.faults = 0 /\ SaidBy(o) = <<>>
    BY OkSays
<1>14. Promise(s, o)
    BY <1>4, <1>7, <1>13 DEF Promise, Cancels, Refusals
<1>15. Rewinds(s, o)
    BY <1>4, <1>9, <1>11, <1>12, <1>13 DEF Rewinds
<1> QED
    BY <1>14, <1>15 DEF Speaks

\* geist_session_reset.
LEMMA ResetCutsBack ==
    ASSUME NEW s, IsSession(s)
    PROVE  CutBackTo(s, s.prefixLength, Reset(s))
BY ResetFields DEF CutBackTo, OnlyRecurrent

LEMMA ResetSpeaks ==
    ASSUME NEW s, Held(s), NEW o, o = Ok(Reset(s))
    PROVE  Promise(s, o) /\ Speaks(s, o)
<1>1. PICK p \in Nat : p = s.prefixLength /\ p <= s.kvLen
    BY DEF Held, Typed
<1>2. PICK t : t = Reset(s)
    OBVIOUS
<1>3. CutBackTo(s, p, t)
    BY <1>1, <1>2, ResetCutsBack DEF Held, Typed
<1>4. s.prefixLength <= p /\ o = Ok(t)
    BY <1>1, <1>2
<1> QED
    BY <1>1, <1>3, <1>4, CutBackRewinds

\* The logits dropped and the debt forgotten.
LEMMA DroppedCutsBack ==
    ASSUME NEW s, NEW n, NEW r, IsSession(r), SameModel(s, r), r.rows = s.rows, r.kvLen = n,
           r.prefixLength = s.prefixLength, r.cancel = s.cancel, OnlyRecurrent(r)
    PROVE  CutBackTo(s, n, [DropLogits(r) EXCEPT !.deferred = FALSE])
<1>1. PICK d : d = DropLogits(r)
    OBVIOUS
<1>2. /\ IsSession(d) /\ SameModel(r, d) /\ SameText(r, d) /\ d.prefixLength = r.prefixLength
      /\ d.cancel = r.cancel /\ d.txn = r.txn /\ d.logitsValid = FALSE
    BY <1>1, DropLogitsFields
<1>3. d.pending = NoPending
    BY <1>1 DEF DropLogits, IsSession
<1> DEFINE t == [d EXCEPT !.deferred = FALSE]
<1>4. /\ IsSession(t) /\ SameModel(d, t) /\ SameText(d, t) /\ t.prefixLength = d.prefixLength
      /\ t.cancel = d.cancel /\ t.txn = d.txn /\ t.logitsValid = d.logitsValid /\ t.pending = d.pending
      /\ t.deferred = FALSE
    BY <1>2 DEF IsSession, SameModel, SameText
<1> HIDE DEF t
<1>5. SameModel(s, t) /\ t.rows = s.rows /\ t.kvLen = n
    BY <1>2, <1>4 DEF SameModel, SameText
<1>6. CutBackTo(s, n, t)
    BY <1>2, <1>3, <1>4, <1>5 DEF CutBackTo, OnlyRecurrent, SameModel
<1> QED
    BY <1>1, <1>6 DEF t

\* A truncation behind the settle: refused, done already, or a rewind.
LEMMA TruncateSettledSpeaks ==
    ASSUME NEW s, Held(s), ~s.deferred, NEW n \in Nat, NEW canFail, NEW o \in TruncateSettled(s, n, canFail)
    PROVE  Promise(s, o) /\ Speaks(s, o)
<1> DEFINE c == Commit(s)
<1>1. Typed(s) /\ Owes(s) /\ IsSession(s)
    BY DEF Held, Typed
<1>2. /\ IsSession(c) /\ SameModel(s, c) /\ SameCkpts(s, c) /\ SameText(s, c) /\ SameLogits(s, c)
      /\ c.prefixLength = s.prefixLength /\ c.deferred = s.deferred /\ c.cancel = s.cancel /\ OnlyRecurrent(c)
    BY <1>1, CommitFields DEF OnlyRecurrent
<1>3. CASE n > s.kvLen \/ n < s.prefixLength \/ n = s.kvLen
    <2>1. o \in Refused(s, "INVALID_ARG") \/ o = Ok(s)
        BY <1>3 DEF TruncateSettled
    <2>2. o.s = s /\ o.st \in {"INVALID_ARG", "OK"} /\ SaidBy(o) = <<>>
        BY <2>1, RefusedSays, OkSays
    <2>3. SameView(s, o.s)
        BY <2>2 DEF SameView, SameModel
    <2> QED
        BY <1>1, <2>2, <2>3, UnseenPromise
<1>4. CASE ~(n > s.kvLen \/ n < s.prefixLength \/ n = s.kvLen)
    <2>1. PICK k, p \in Nat : k = s.kvLen /\ p = s.prefixLength
        BY <1>1, TypedNumbers
    <2>2. n <= s.kvLen /\ s.prefixLength <= n
        BY <1>4, <2>1
    <2>3. CASE n = 0
        <3>1. o = Ok(Reset(s))
            BY <1>4, <2>3 DEF TruncateSettled
        <3> QED
            BY <3>1, ResetSpeaks
    <2>4. CASE n # 0 /\ CkptAt(s, n) # {}
        <3>1. PICK j \in CkptAt(s, n) : j = CHOOSE i \in CkptAt(s, n) : TRUE
            BY <2>4
        <3>2. s.ckptLens[j] = n
            BY DEF CkptAt
        <3>3. PICK r, w : r = (IF s.recurrent THEN s.ckptBuf[CkptSlot(s, j)] ELSE s.rec) /\ w = SubSeq(s.ckptLens, 1, j)
            OBVIOUS
        <3> DEFINE t == [c EXCEPT !.rec = r, !.kvLen = n, !.ckptLens = w]
                   u == [c EXCEPT !.rec = CheckpointRestore(s, j).rec]
        <3>4. CheckpointRestore(s, j) = t
            <4> HIDE DEF c
            <4>1. c.rec = s.rec /\ c.ckptLens = s.ckptLens
                BY <1>2 DEF SameText, SameCkpts
            <4>2. [c EXCEPT !.rec = IF s.recurrent THEN s.ckptBuf[CkptSlot(s, j)] ELSE @,
                            !.kvLen = s.ckptLens[j], !.ckptLens = SubSeq(@, 1, j)] = t
                BY <1>2, <3>2, <3>3, <4>1 DEF IsSession
            <4> QED
                BY <4>2 DEF CheckpointRestore, c
        <3>5. \/ o = Ok([DropLogits(CheckpointRestore(s, j)) EXCEPT !.deferred = FALSE])
              \/ o = Failed(c)
              \/ o = Failed(u)
            BY <1>4, <2>4, <3>1 DEF TruncateSettled
        <3> HIDE DEF c
        <3>6. /\ IsSession(t) /\ SameModel(c, t) /\ t.rows = c.rows /\ t.kvLen = n
              /\ t.prefixLength = c.prefixLength /\ t.txn = c.txn /\ t.cancel = c.cancel
            BY <1>2 DEF IsSession, SameModel
        <3>7. /\ IsSession(u) /\ SameModel(c, u) /\ u.rows = c.rows /\ u.kvLen = c.kvLen /\ SameLogits(c, u)
              /\ u.prefixLength = c.prefixLength /\ u.txn = c.txn /\ u.cancel = c.cancel /\ u.deferred = c.deferred
            BY <1>2 DEF IsSession, SameModel, SameLogits
        <3> HIDE DEF t, u
        <3>8. CASE o = Ok([DropLogits(CheckpointRestore(s, j)) EXCEPT !.deferred = FALSE])
            <4>1. SameModel(s, t) /\ t.rows = s.rows /\ t.prefixLength = s.prefixLength /\ t.cancel = s.cancel /\ OnlyRecurrent(t)
                BY <1>2, <3>6 DEF SameModel, SameText, OnlyRecurrent
            <4>2. PICK z : z = [DropLogits(t) EXCEPT !.deferred = FALSE]
                OBVIOUS
            <4>3. CutBackTo(s, n, z)
                BY <3>6, <4>1, <4>2, DroppedCutsBack
            <4>4. o = Ok(z)
                BY <3>4, <3>8, <4>2
            <4> QED
                BY <2>2, <4>3, <4>4, CutBackRewinds
        <3>9. CASE o = Failed(c) \/ o = Failed(u)
            <4>1. PICK z \in {c, u} : o.s = z /\ o.st = "BACKEND" /\ SaidBy(o) = <<>>
                BY <3>9, OkSays
            <4>2. /\ IsSession(z) /\ SameModel(s, z) /\ z.rows = s.rows /\ z.kvLen = s.kvLen /\ SameLogits(s, z)
                  /\ z.prefixLength = s.prefixLength /\ z.deferred = s.deferred /\ z.cancel = s.cancel /\ OnlyRecurrent(z)
                BY <1>2, <3>7, <4>1 DEF SameModel, SameText, SameLogits, OnlyRecurrent
            <4> QED
                BY <4>1, <4>2, SameTextPromise DEF Refusals
        <3> QED
            BY <3>5, <3>8, <3>9
    <2>5. CASE n # 0 /\ CkptAt(s, n) = {} /\ (s.recurrent \/ s.usesMtp)
        <3>1. o \in Refused(s, "UNSUPPORTED")
            BY <1>4, <2>5 DEF TruncateSettled
        <3>2. o.s = s /\ o.st = "UNSUPPORTED" /\ SaidBy(o) = <<>>
            BY <3>1, RefusedSays
        <3>3. SameView(s, o.s)
            BY <3>2 DEF SameView, SameModel
        <3> QED
            BY <1>1, <3>2, <3>3, UnseenPromise
    <2>6. CASE n # 0 /\ CkptAt(s, n) = {} /\ ~(s.recurrent \/ s.usesMtp)
        <3>1. o = Ok([DropLogits(Cut(Pruned(c, n), n)) EXCEPT !.deferred = FALSE])
            BY <1>4, <2>6 DEF TruncateSettled
        <3> HIDE DEF c
        <3>2. PICK w : Pruned(c, n) = [c EXCEPT !.ckptLens = w]
            BY <1>2 DEF Pruned, IsSession
        <3>3. PICK p1 : p1 = Pruned(c, n)
            OBVIOUS
        <3>4. /\ IsSession(p1) /\ SameModel(c, p1) /\ p1.rows = c.rows
              /\ p1.prefixLength = c.prefixLength /\ p1.txn = c.txn /\ p1.cancel = c.cancel
            BY <1>2, <3>2, <3>3 DEF IsSession, SameModel
        <3>5. PICK t : t = Cut(p1, n)
            OBVIOUS
        <3>6. /\ IsSession(t) /\ SameModel(p1, t) /\ t.rows = p1.rows /\ t.kvLen = n
              /\ t.prefixLength = p1.prefixLength /\ t.txn = p1.txn /\ t.cancel = p1.cancel
            BY <3>4, <3>5, CutFields
        <3>7. /\ SameModel(s, t) /\ t.rows = s.rows /\ t.prefixLength = s.prefixLength /\ t.cancel = s.cancel
              /\ OnlyRecurrent(t)
            BY <1>2, <3>4, <3>6 DEF SameModel, SameText, OnlyRecurrent
        <3>8. PICK z : z = [DropLogits(t) EXCEPT !.deferred = FALSE]
            OBVIOUS
        <3>9. CutBackTo(s, n, z)
            BY <3>6, <3>7, <3>8, DroppedCutsBack
        <3>10. o = Ok(z)
            BY <3>1, <3>3, <3>5, <3>8
        <3> QED
            BY <2>2, <3>9, <3>10, CutBackRewinds
    <2> QED
        BY <2>3, <2>4, <2>5, <2>6
<1> QED
    BY <1>3, <1>4

\* geist_session_truncate.
LEMMA TruncateSpeaks ==
    ASSUME NEW s, Held(s), NEW n \in Nat, NEW canFail, NEW o \in Truncate(s, n, canFail)
    PROVE  Promise(s, o) /\ Speaks(s, o)
<1>1. PICK x \in Settle(s, canFail) : IF x.st = "OK" THEN o \in TruncateSettled(x.s, n, canFail) ELSE o = x
    BY DEF Truncate, Then
<1>2. SettledAs(s, x)
    BY <1>1, SettleUnseen
<1>3. CASE x.st # "OK"
    BY <1>1, <1>2, <1>3, UnseenPromise DEF SettledAs, Held, SaidBy
<1>4. CASE x.st = "OK"
    <2>1. Promise(x.s, o) /\ Speaks(x.s, o)
        BY <1>1, <1>2, <1>4, TruncateSettledSpeaks DEF SettledAs
    <2> QED
        BY <1>2, <2>1, UnseenThenPromise, UnseenThenSpeaks DEF SettledAs
<1> QED
    BY <1>3, <1>4

\* An image that a session like s can hold.
HeldImage(img, s) ==
    /\ img.rows \in Seq(Tokens) /\ Len(img.rows) <= s.maxLen
    /\ img.prefixLength \in 0 .. Len(img.rows)
    /\ Predict(img.pending.on) \in Tokens /\ img.logitsValid \in BOOLEAN
    /\ img.deferred => img.logitsValid

ImageText(img) == img.rows \o (IF img.deferred THEN <<Predict(img.pending.on)>> ELSE <<>>)
ImagePin(img) == SubSeq(img.rows, 1, img.prefixLength)

\* A snapshot is held like the session.
LEMMA ImageHeld ==
    ASSUME NEW s, Held(s)
    PROVE  /\ HeldImage(Image(s), s) /\ ImageText(Image(s)) = Text(s) /\ ImagePin(Image(s)) = Pin(s)
           /\ Image(s).logitsValid = s.logitsValid
<1>1. Typed(s) /\ Owes(s) /\ (s.deferred => s.logitsValid)
    BY DEF Held
<1>2. PICK i : i = Image(s)
    OBVIOUS
<1>3. /\ i.rows = Content(s) /\ i.prefixLength = s.prefixLength
      /\ i.logitsValid = s.logitsValid /\ i.pending = s.pending /\ i.deferred = s.deferred
    BY <1>2 DEF Image
<1>4. Content(s) \in Seq(Tokens) /\ Len(Content(s)) = s.kvLen
    BY <1>1, ContentTyped
<1>5. s.kvLen <= s.maxLen /\ s.prefixLength \in 0 .. s.kvLen
    BY <1>1 DEF Typed
<1>6. HeldImage(i, s)
    BY <1>1, <1>3, <1>4, <1>5 DEF HeldImage, Owes, PendingToken
<1>7. ImageText(i) = Text(s)
    BY <1>3 DEF ImageText, Text, PendingToken
<1>8. ImagePin(i) = Pin(s)
    <2>1. PICK k, p, L \in Nat : k = s.kvLen /\ p = s.prefixLength /\ L = Len(s.rows) /\ p <= k /\ k <= L
        BY <1>1, TypedNumbers
    <2>2. k \in 0 .. Len(s.rows) /\ p \in 0 .. k /\ s.rows \in Seq(Tokens)
        BY <1>1, <2>1 DEF Typed
    <2>3. SubSeq(SubSeq(s.rows, 1, k), 1, p) = SubSeq(s.rows, 1, p)
        BY <2>2, CutOfCut
    <2> QED
        BY <1>3, <2>1, <2>3 DEF ImagePin, Content, Pin
<1> QED
    BY <1>2, <1>3, <1>6, <1>7, <1>8

\* What a restore leaves: the image, or an empty session.
RestoredAs(s, img, o) ==
    /\ Held(o.s) /\ SameModel(s, o.s) /\ o.s.cancel = s.cancel /\ SaidBy(o) = <<>>
    /\ o.st \in {"OK", "BACKEND"}
    /\ o.st = "OK" => /\ o.faults = 0 /\ Text(o.s) = ImageText(img) /\ Pin(o.s) = ImagePin(img)
                      /\ o.s.logitsValid = img.logitsValid
    /\ o.st = "BACKEND" => Text(o.s) = <<>> /\ ~o.s.logitsValid /\ o.faults = 1

\* snapshot_restore.
LEMMA RestoreSaid ==
    ASSUME NEW s, Held(s), NEW img, HeldImage(img, s), NEW canFail, NEW o \in Restore(s, img, canFail)
    PROVE  RestoredAs(s, img, o)
<1> DEFINE z == Reset(s)
<1>1. /\ IsSession(z) /\ SameModel(s, z) /\ z.rows = s.rows /\ z.deferred = FALSE /\ z.logitsValid = FALSE
      /\ OnlyRecurrent(z) /\ z.cancel = s.cancel /\ z.pending = NoPending
    BY ResetFields DEF Held, Typed, OnlyRecurrent
<1>2. PICK w : w = img.rows \o SubSeq(s.rows, Len(img.rows) + 1, Len(s.rows))
    OBVIOUS
<1>3. PICK n, p, q, l, g, d : /\ n = Len(img.rows) /\ p = img.prefixLength /\ q = img.rec
                              /\ l = img.logitsValid /\ g = img.pending /\ d = img.deferred
    OBVIOUS
<1> DEFINE r == [z EXCEPT !.prefixLength = 0, !.kvLen = 0]
           t == [r EXCEPT !.rows = w, !.kvLen = n, !.prefixLength = p, !.rec = q,
                          !.logitsValid = l, !.pending = g, !.deferred = d]
<1>4. \/ o = Ok([r EXCEPT !.rows = img.rows \o SubSeq(@, Len(img.rows) + 1, Len(@)),
                  !.kvLen = Len(img.rows), !.prefixLength = img.prefixLength, !.rec = img.rec,
                  !.logitsValid = img.logitsValid, !.pending = img.pending,
                  !.deferred = img.deferred])
      \/ o = Failed(Reset(r))
    BY DEF Restore
<1> HIDE DEF z
<1>5. /\ IsSession(r) /\ SameModel(z, r) /\ r.rows = z.rows /\ r.txn = z.txn /\ r.cancel = z.cancel
      /\ r.kvLen = 0 /\ r.prefixLength = 0
    BY <1>1 DEF IsSession, SameModel
<1> HIDE DEF r
<1>6. o = Ok(t) \/ o = Failed(Reset(r))
    BY <1>1, <1>2, <1>3, <1>4, <1>5 DEF IsSession
<1>7. /\ IsSession(t) /\ SameModel(r, t) /\ t.rows = w /\ t.kvLen = n /\ t.prefixLength = p
      /\ t.logitsValid = l /\ t.pending = g /\ t.deferred = d /\ t.txn = r.txn /\ t.cancel = r.cancel
    BY <1>5 DEF IsSession, SameModel
<1> HIDE DEF t
<1>8. /\ img.rows \in Seq(Tokens) /\ n \in Nat /\ n <= s.maxLen /\ p \in 0 .. n
      /\ s.rows \in Seq(Tokens) /\ 0 \in 0 .. Len(s.rows) /\ s.maxLen \in MaxLens
    BY <1>3 DEF HeldImage, Held, Typed
<1>9. CASE o = Ok(t)
    <2>1. o.s = t /\ o.st = "OK" /\ o.faults = 0 /\ SaidBy(o) = <<>>
        BY <1>9, OkSays
    <2>2. SameModel(s, t) /\ OnlyRecurrent(t) /\ t.cancel = s.cancel
        BY <1>1, <1>5, <1>7 DEF SameModel, OnlyRecurrent
    <2>3. w \in Seq(Tokens) /\ Len(w) >= n /\ Len(w) \in Nat /\ SubSeq(w, 1, n) = img.rows
        <3>1. SubSeq(s.rows, 1, 0) = <<>>
            <4>1. SubSeq(s.rows, 1, 0) \in Seq(Tokens) /\ Len(SubSeq(s.rows, 1, 0)) = 0
                BY <1>8, CutText
            <4> QED
                BY <4>1, EmptySeq
        <3>2. <<>> \o img.rows = img.rows
            BY <1>8, ConcatEmptySeq
        <3>3. 0 + Len(img.rows) + 1 = Len(img.rows) + 1 /\ 0 + Len(img.rows) = n
            BY <1>3, <1>8
        <3>4. Splice(s.rows, 0, img.rows) = w
            BY <1>2, <3>1, <3>2, <3>3 DEF Splice
        <3>5. IsSplice(Tokens, s.rows, 0, img.rows, w)
            BY <1>8, <3>4, Spliced
        <3> QED
            BY <1>3, <3>1, <3>2, <3>3, <3>5 DEF IsSplice
    <2>4. Content(t) = img.rows
        BY <1>7, <2>3 DEF Content
    <2>5. Typed(t)
        BY <1>7, <1>8, <2>2, <2>3 DEF Typed, SameModel
    <2>6. Owes(t) /\ PendingToken(t) = Predict(img.pending.on) /\ (t.deferred => t.logitsValid)
        BY <1>3, <1>7 DEF HeldImage, Owes, PendingToken
    <2>7. Text(t) = ImageText(img)
        BY <1>3, <1>7, <2>4, <2>6 DEF Text, ImageText
    <2>8. Pin(t) = ImagePin(img)
        <3>1. n \in 0 .. Len(w)
            BY <1>8, <2>3
        <3>2. SubSeq(SubSeq(w, 1, n), 1, p) = SubSeq(w, 1, p)
            BY <1>8, <2>3, <3>1, CutOfCut
        <3> QED
            BY <1>3, <1>7, <2>3, <3>2 DEF Pin, ImagePin
    <2> QED
        BY <1>3, <1>7, <2>1, <2>2, <2>5, <2>6, <2>7, <2>8 DEF RestoredAs, Held
<1>10. CASE o = Failed(Reset(r))
    <2>1. PICK e : e = Reset(r)
        OBVIOUS
    <2>2. /\ IsSession(e) /\ SameModel(r, e) /\ e.rows = r.rows /\ e.kvLen = 0 /\ e.prefixLength = 0
          /\ e.deferred = FALSE /\ e.logitsValid = FALSE /\ OnlyRecurrent(e) /\ e.cancel = r.cancel /\ e.pending = NoPending
        BY <1>5, <2>1, ResetFields DEF OnlyRecurrent
    <2>3. SameModel(s, e) /\ e.rows = s.rows /\ e.cancel = s.cancel
        BY <1>1, <1>5, <2>2 DEF SameModel
    <2>4. PICK L, M \in Nat : L = Len(s.rows) /\ M = s.maxLen
        BY TypedNumbers DEF Held
    <2>5. Typed(e)
        BY <1>8, <2>2, <2>3, <2>4 DEF Typed, SameModel
    <2>6. Owes(e)
        <3>1. <<>> \in Seq(Tokens) /\ Len(<<>>) <= s.maxLen
            BY <2>4
        <3>2. Predict(<<>>) \in Tokens
            BY <1>8, <3>1, PredictTyped
        <3>3. NoPending.on = <<>>
            BY DEF NoPending
        <3> QED
            BY <2>2, <3>2, <3>3 DEF Owes, PendingToken
    <2>7. Text(e) = <<>>
        <3>1. Text(e) = Content(e)
            BY <2>2, <2>5, <2>6, TextTyped
        <3>2. Content(e) \in Seq(Tokens) /\ Len(Content(e)) = 0
            BY <2>2, <2>5, ContentTyped
        <3> QED
            BY <3>1, <3>2, EmptySeq
    <2>8. o.s = e /\ o.st = "BACKEND" /\ o.faults = 1 /\ SaidBy(o) = <<>>
        BY <1>10, <2>1, OkSays
    <2> QED
        BY <2>2, <2>3, <2>5, <2>6, <2>7, <2>8 DEF RestoredAs, Held
<1> QED
    BY <1>6, <1>9, <1>10

-----------------------------------------------------------------------------
(* Pins. *)

\* A settle says nothing.
LEMMA SettleSays ==
    ASSUME NEW s, NEW canFail, NEW o \in Settle(s, canFail)
    PROVE  SaidBy(o) = <<>>
<1>1. CASE ~s.deferred
    BY <1>1, OkCounted DEF Settle, SaidBy
<1>2. CASE s.deferred
    <2>1. PICK x \in RunStep(s, PendingToken(s), canFail) :
              IF x.st = "OK" THEN o = Ok([x.s EXCEPT !.deferred = FALSE]) ELSE o = x
        BY <1>2 DEF Settle, Then
    <2> QED
        BY <2>1, OkCounted DEF SaidBy
<1> QED
    BY <1>1, <1>2

\* Checkpoints are about the rows, the length and themselves.
LEMMA CheckpointsSame ==
    ASSUME NEW s, Checkpoints(s), NEW t, SameModel(s, t), SameText(s, t), SameCkpts(s, t)
    PROVE  Checkpoints(t)
<1>1. \A j : CkptSlot(t, j) = CkptSlot(s, j)
    BY DEF CkptSlot, SameCkpts
<1> QED
    BY ZenonT(60), <1>1 DEF Checkpoints, SameModel, SameText, SameCkpts

\* Another pinned prefix; a recurrent session has none.
LEMMA RepinnedCore ==
    ASSUME NEW s, Core(s), NEW k \in 0 .. s.kvLen, s.recurrent => k = 0
    PROVE  LET t == [s EXCEPT !.prefixLength = k] IN
           /\ Core(t) /\ Content(t) = Content(s) /\ (Current(s) => Current(t)) /\ SameModel(s, t)
           /\ t.logitsValid = s.logitsValid /\ t.deferred = s.deferred /\ t.txn = s.txn /\ t.prefixLength = k
<1> DEFINE t == [s EXCEPT !.prefixLength = k]
<1>1. IsSession(s)
    BY DEF Core, Typed
<1>2. /\ IsSession(t) /\ SameModel(s, t) /\ SameText(s, t) /\ SameCkpts(s, t) /\ SameLogits(s, t)
      /\ t.txn = s.txn /\ t.deferred = s.deferred /\ t.prefixLength = k
    BY <1>1 DEF IsSession, SameModel, SameText, SameCkpts, SameLogits
<1> HIDE DEF t
<1>3. Content(t) = Content(s)
    BY <1>2 DEF Content, SameText
<1>4. Typed(t)
    BY <1>2 DEF Core, Typed, SameModel, SameText
<1>5. Absorbed(t)
    BY <1>2, <1>3 DEF Core, Absorbed, SameModel, SameText
<1>7. Checkpoints(t)
    BY <1>2, CheckpointsSame DEF Core
<1>8. Current(s) => Current(t)
    BY <1>2, <1>3 DEF Current, SameText, SameLogits
<1> QED
    BY <1>2, <1>3, <1>4, <1>5, <1>7, <1>8 DEF Core, SameLogits, t

\* The emptied session a pin starts from.
LEMMA EmptiedRest ==
    ASSUME NEW s, Rest(s)
    PROVE  LET t == Reset([s EXCEPT !.prefixLength = 0]) IN
           Rest(t) /\ SameModel(s, t) /\ ~t.deferred
<1>1. PICK k : k = 0
    OBVIOUS
<1> DEFINE u == [s EXCEPT !.prefixLength = k]
<1>2. Core(s) /\ k \in 0 .. s.kvLen
    BY <1>1 DEF Rest, Core, Typed
<1>3. Core(u) /\ SameModel(s, u)
    BY <1>1, <1>2, RepinnedCore
<1> HIDE DEF u
<1>4. Rest(Reset(u)) /\ SameModel(u, Reset(u)) /\ ~Reset(u).deferred
    BY <1>3, ResetRest
<1>5. Reset(u) = Reset([s EXCEPT !.prefixLength = 0])
    BY <1>1 DEF u
<1> QED
    BY <1>3, <1>4, <1>5 DEF SameModel

\* What a caller sees of it.
EmptiedAs(s, e) ==
    /\ Held(e) /\ SameModel(s, e) /\ Text(e) = <<>> /\ Pin(e) = <<>>
    /\ ~e.logitsValid /\ ~e.deferred /\ OnlyRecurrent(e) /\ e.cancel = s.cancel

LEMMA EmptiedHeld ==
    ASSUME NEW s, Held(s)
    PROVE  EmptiedAs(s, Reset([s EXCEPT !.prefixLength = 0]))
<1>1. PICK r : r = [s EXCEPT !.prefixLength = 0]
    OBVIOUS
<1>2. /\ IsSession(r) /\ SameModel(s, r) /\ r.rows = s.rows /\ r.prefixLength = 0 /\ r.cancel = s.cancel
    BY <1>1 DEF Held, Typed, IsSession, SameModel
<1>3. PICK e : e = Reset(r)
    OBVIOUS
<1>4. /\ IsSession(e) /\ SameModel(r, e) /\ e.rows = r.rows /\ e.kvLen = 0 /\ e.prefixLength = 0
      /\ e.deferred = FALSE /\ e.logitsValid = FALSE /\ OnlyRecurrent(e) /\ e.cancel = r.cancel /\ e.pending = NoPending
    BY <1>2, <1>3, ResetFields DEF OnlyRecurrent
<1>5. SameModel(s, e) /\ e.rows = s.rows /\ e.cancel = s.cancel
    BY <1>2, <1>4 DEF SameModel
<1>6. PICK L, M \in Nat : L = Len(s.rows) /\ M = s.maxLen
    BY TypedNumbers DEF Held
<1>7. s.rows \in Seq(Tokens) /\ s.maxLen \in MaxLens
    BY DEF Held, Typed
<1>8. Typed(e)
    BY <1>4, <1>5, <1>6, <1>7 DEF Typed, SameModel
<1>9. Owes(e)
    <2>1. <<>> \in Seq(Tokens) /\ Len(<<>>) <= s.maxLen
        BY <1>6
    <2>2. Predict(<<>>) \in Tokens
        BY <1>7, <2>1, PredictTyped
    <2>3. NoPending.on = <<>>
        BY DEF NoPending
    <2> QED
        BY <1>4, <2>2, <2>3 DEF Owes, PendingToken
<1>10. Content(e) = <<>> /\ Pin(e) = <<>>
    <2>1. Content(e) \in Seq(Tokens) /\ Len(Content(e)) = 0
        BY <1>4, <1>8, ContentTyped
    <2>2. Content(e) = <<>>
        BY <2>1, EmptySeq
    <2> QED
        BY <1>4, <2>2 DEF Content, Pin
<1>11. Text(e) = <<>>
    BY <1>4, <1>8, <1>9, <1>10, TextTyped
<1> QED
    BY <1>1, <1>3, <1>4, <1>5, <1>8, <1>9, <1>10, <1>11 DEF EmptiedAs, Held

-----------------------------------------------------------------------------
(* A session whose own operations never fail: Good between two calls.  Calls *)
(* that cannot fail count no failure.                                         *)

\* transformer_decode_step.
LEMMA RunStepSure ==
    ASSUME NEW s, NEW tok, NEW o \in RunStep(s, tok, FALSE)
    PROVE  o.faults = 0
BY OkCounted, RefusedCounted DEF RunStep

\* The settle.
LEMMA SettleSure ==
    ASSUME NEW s, NEW o \in Settle(s, FALSE)
    PROVE  o.faults = 0
<1>1. CASE ~s.deferred
    BY <1>1, OkCounted DEF Settle
<1>2. CASE s.deferred
    <2>1. PICK x \in RunStep(s, PendingToken(s), FALSE) :
              IF x.st = "OK" THEN o = Ok([x.s EXCEPT !.deferred = FALSE]) ELSE o = x
        BY <1>2 DEF Settle, Then
    <2> QED
        BY ZenonT(60), <2>1, OkCounted, RunStepSure
<1> QED
    BY <1>1, <1>2

\* decode_step behind the settle.
LEMMA DecodeSettledSure ==
    ASSUME NEW s, NEW o \in DecodeSettled(s)
    PROVE  o.faults = 0
BY OutCounted, RefusedCounted DEF DecodeSettled

\* geist_session_decode_step.
LEMMA DecodeStepSure ==
    ASSUME NEW s, NEW o \in DecodeStep(s, FALSE)
    PROVE  o.faults = 0
<1>1. CASE s.cancel
    BY <1>1, RefusedCounted DEF DecodeStep, Cancelled
<1>2. CASE ~s.cancel
    <2>1. PICK x \in Settle(s, FALSE) : IF x.st = "OK" THEN o \in DecodeSettled(x.s) ELSE o = x
        BY <1>2 DEF DecodeStep, Then
    <2> QED
        BY <2>1, SettleSure, DecodeSettledSure
<1> QED
    BY <1>1, <1>2

\* A prefill of one sub-batch.
LEMMA PrefillOnceSure ==
    ASSUME NEW s, NEW ids, NEW o \in PrefillOnce(s, ids, FALSE)
    PROVE  o.faults = 0
<1>1. ASSUME NEW t, o \in PrefillChunk(t, ids, TRUE, FALSE)
      PROVE  o.faults = 0
    <2>1. (\E x : o = Ok(x)) \/ (\E x : o \in Refused(x, "CANCELLED"))
        BY <1>1 DEF PrefillChunk, Cancelled
    <2> QED
        BY <2>1, OkCounted, RefusedCounted
<1>2. CASE ~RoomFor(s, Len(ids))
    <2>1. o \in Refused(Commit(s), "TOO_MANY_TOKENS")
        BY <1>2 DEF PrefillOnce
    <2> QED
        BY <2>1, RefusedCounted
<1>3. CASE RoomFor(s, Len(ids))
    <2>1. o \in PrefillChunk(Commit(s), ids, TRUE, FALSE)
        BY <1>3 DEF PrefillOnce
    <2> QED
        BY <1>1, <2>1
<1> QED
    BY <1>2, <1>3

\* The verify's forward.
LEMMA VerifyForwardSure ==
    ASSUME NEW s, NEW ids, NEW o \in VerifyForward(s, ids, FALSE)
    PROVE  o.faults = 0
BY OutCounted, RefusedCounted DEF VerifyForward

\* The rollback of a verify.
LEMMA KvTruncateSure ==
    ASSUME NEW s, NEW n, NEW o \in KvTruncate(s, n, FALSE)
    PROVE  o.faults = 0
<1>1. PICK f : f = FALSE
    OBVIOUS
<1>2. ASSUME NEW t, NEW r \in TxnRestores(t, f)
      PROVE  Tallied(r) /\ r.faults = 0
    BY <1>1, TxnRestoresSplit DEF Counted
<1>3. ASSUME NEW t, NEW ids, NEW x \in PrefillOnce(t, ids, f)
      PROVE  x.faults = 0
    <2>1. x \in PrefillOnce(t, ids, FALSE)
        BY <1>1
    <2> QED
        BY <2>1, PrefillOnceSure
<1>4. \/ o \in Refused(s, "INVALID_ARG")
      \/ \E t : o = Ok(t)
      \/ \E t : \E r \in TxnRestores(s, f) : o = After(r, Ok(t))
      \/ \E r \in TxnRestores(s, f) : o \in Replayed(s, n, r, f)
    BY <1>1 DEF KvTruncate
<1>5. CASE o \in Refused(s, "INVALID_ARG") \/ \E t : o = Ok(t)
    BY <1>5, RefusedCounted, OkCounted
<1>6. CASE \E t : \E r \in TxnRestores(s, f) : o = After(r, Ok(t))
    <2>0. PICK t : \E r \in TxnRestores(s, f) : o = After(r, Ok(t))
        BY <1>6
    <2>1. PICK r \in TxnRestores(s, f) : o = After(r, Ok(t))
        BY <2>0
    <2>2. r.faults = 0 /\ Ok(t).faults = 0
        BY <1>2, OkCounted
    <2> QED
        BY <2>1, <2>2 DEF After
<1>7. CASE \E r \in TxnRestores(s, f) : o \in Replayed(s, n, r, f)
    <2>1. PICK r \in TxnRestores(s, f) : o \in Replayed(s, n, r, f)
        BY <1>7
    <2>2. Tallied(r) /\ r.faults = 0
        BY <1>2
    <2>3. PICK x : ReplaySteps(s, n, r, f, x, o)
        BY <2>1, <2>2, ReplayedSplit
    <2>4. x.faults = 0
        BY <1>3, <2>3 DEF ReplaySteps
    <2>5. CASE x.st = "OK"
        BY <2>2, <2>3, <2>4, <2>5 DEF ReplaySteps
    <2>6. CASE x.st # "OK"
        <3>1. PICK u \in TxnRestores([x.s EXCEPT !.txn = s.txn], f) :
                 o.faults = 0 <=> r.faults = 0 /\ u.faults = 0 /\ x.faults = 0
            BY <2>3, <2>6 DEF ReplaySteps
        <3>2. u.faults = 0
            BY <1>2
        <3> QED
            BY <2>2, <2>4, <3>1, <3>2
    <2> QED
        BY <2>5, <2>6
<1> QED
    BY <1>4, <1>5, <1>6, <1>7

\* spec_verify.
LEMMA SpecVerifySure ==
    ASSUME NEW s, NEW drafts, NEW o \in SpecVerify(s, drafts, FALSE)
    PROVE  o.faults = 0
<1>1. PICK v \in VerifyForward(s, drafts, FALSE) :
              /\ v.st # "OK" => o = v
              /\ v.st = "OK" => \E k \in KeptOuts(s, drafts, v, FALSE) : \E x :
                                   SpecSteps(s, drafts, FALSE, v, k, x, o)
    BY SpecVerifySplit
<1>2. v.faults = 0
    BY VerifyForwardSure
<1>3. ASSUME NEW k \in KeptOuts(s, drafts, v, FALSE), NEW x, SpecSteps(s, drafts, FALSE, v, k, x, o)
      PROVE  o.faults = 0
    <2>1. PICK f : f = FALSE
        OBVIOUS
    <2>2. SpecSteps(s, drafts, f, v, k, x, o)
        BY <1>3, <2>1
    <2>3. k.faults = 0
        BY OkCounted, KvTruncateSure DEF KeptOuts
    <2>4. x.faults = 0
        <3>1. CASE k.st = "OK"
            <4>1. PICK q : x \in PrefillOnce(k.s, q, f)
                BY <2>2, <3>1 DEF SpecSteps
            <4>2. x \in PrefillOnce(k.s, q, FALSE)
                BY <2>1, <4>1
            <4> QED
                BY <4>2, PrefillOnceSure
        <3>2. CASE k.st # "OK"
            BY <2>2, <2>3, <3>2 DEF SpecSteps
        <3> QED
            BY <3>1, <3>2
    <2> QED
        BY <2>2, <2>3, <2>4 DEF SpecSteps
<1> QED
    BY <1>1, <1>2, <1>3

\* verify_drafts.
LEMMA VerifyDraftsSure ==
    ASSUME NEW s, NEW guesses, NEW o \in VerifyDrafts(s, guesses, FALSE)
    PROVE  o.faults = 0
<1>1. CASE guesses = <<>>
    BY <1>1, DecodeStepSure DEF VerifyDrafts
<1>2. CASE guesses # <<>>
    <2>1. PICK x \in Settle(s, FALSE) :
             o \in IF x.st = "OK" /\ x.s.logitsValid
                   THEN SpecVerify(x.s, <<PendingToken(x.s)>> \o guesses, FALSE)
                   ELSE {After(x, r) : r \in DecodeStep(x.s, FALSE)}
        BY <1>2 DEF VerifyDrafts
    <2>2. x.faults = 0
        BY SettleSure
    <2>3. CASE x.st = "OK" /\ x.s.logitsValid
        BY <2>1, <2>3, SpecVerifySure
    <2>4. CASE ~(x.st = "OK" /\ x.s.logitsValid)
        <3>1. PICK r \in DecodeStep(x.s, FALSE) : o = After(x, r)
            BY <2>1, <2>4
        <3>2. r.faults = 0
            BY DecodeStepSure
        <3> QED
            BY <2>2, <3>1, <3>2 DEF After
    <2> QED
        BY <2>3, <2>4
<1> QED
    BY <1>1, <1>2

\* A forward is owed or not.
Settles(s) == s.deferred \in BOOLEAN
Paid(s) == s.deferred = FALSE

\* A session between two calls, none of which has failed or what failed was reset.
Good(s) == Rest(s) /\ Held(s) /\ Settles(s)

\* A prefill leaves it too.
LEMMA PrefillOnceDebt ==
    ASSUME NEW s, Typed(s), NEW ids, NEW o \in PrefillOnce(s, ids, FALSE)
    PROVE  o.s.deferred = s.deferred
<1>1. IsSession(s)
    BY DEF Typed
<1>2. PICK c : c = Commit(s)
    OBVIOUS
<1>3. IsSession(c) /\ c.deferred = s.deferred
    BY <1>1, <1>2, CommitFields
<1>4. CASE ~RoomFor(s, Len(ids))
    <2>1. o \in Refused(c, "TOO_MANY_TOKENS")
        BY <1>2, <1>4 DEF PrefillOnce
    <2> QED
        BY <1>3, <2>1, RefusedCounted
<1>5. CASE RoomFor(s, Len(ids))
    <2>1. o \in PrefillChunk(c, ids, TRUE, FALSE)
        BY <1>2, <1>5 DEF PrefillOnce
    <2>2. PICK x, y : x = [c EXCEPT !.logitsValid = FALSE] /\ y = [x EXCEPT !.cancel = FALSE]
        OBVIOUS
    <2>3. y.deferred = c.deferred
        BY <1>3, <2>2 DEF IsSession
    <2>4. PICK a : a = Advanced(c, ids)
        OBVIOUS
    <2>5. IsSession(a) /\ a.deferred = c.deferred
        BY <1>3, <2>4, AdvancedFields
    <2>6. Finalized(a).deferred = a.deferred
        BY <2>5, FinalizedFields
    <2>7. o \in Refused(y, "CANCELLED") \/ o = Ok(Finalized(a))
        BY <2>1, <2>2, <2>4 DEF PrefillChunk, Cancelled, Advanced
    <2>8. CASE o \in Refused(y, "CANCELLED")
        BY <1>3, <2>3, <2>8, RefusedCounted
    <2>9. CASE o = Ok(Finalized(a))
        BY <1>3, <2>5, <2>6, <2>9, OkCounted
    <2> QED
        BY <2>7, <2>8, <2>9
<1> QED
    BY <1>4, <1>5

\* spec_verify leaves the debt as it was.
LEMMA SpecVerifyDebt ==
    ASSUME NEW s, Held(s), NEW drafts \in Seq(Tokens), drafts # <<>>, NEW o \in SpecVerify(s, drafts, FALSE)
    PROVE  o.s.deferred = s.deferred
<1>0. PICK f : f = FALSE
    OBVIOUS
<1>1. PICK v \in VerifyForward(s, drafts, f) :
              /\ v.st # "OK" => o = v
              /\ v.st = "OK" => \E k \in KeptOuts(s, drafts, v, f) : \E x :
                                   SpecSteps(s, drafts, f, v, k, x, o)
    <2>1. o \in SpecVerify(s, drafts, f)
        BY <1>0
    <2> QED
        BY <2>1, SpecVerifySplit
<1>2. Typed(s) /\ Owes(s) /\ OnlyRecurrent(s)
    BY DEF Held
<1>3. VerifySaid(s, drafts, v)
    BY <1>2, VerifyForwardSaid
<1>4. CASE v.st # "OK"
    BY <1>1, <1>3, <1>4 DEF VerifySaid
<1>5. CASE v.st = "OK"
    <2>1. VerifiedAs(s, drafts, v.s)
        BY <1>3, <1>5 DEF VerifySaid
    <2>2. PICK n \in Nat : n = Len(drafts) /\ n > 0
        <3>1. Len(drafts) \in Nat /\ (Len(drafts) = 0 => drafts = <<>>)
            BY EmptySeq
        <3> QED
            BY <3>1
    <2>3. PICK a \in 0 .. n - 1 : a = Accepted(drafts, v.toks)
        BY <2>2, AcceptedRange
    <2>4. PICK c : c = v.toks[Accepted(drafts, v.toks) + 1]
        OBVIOUS
    <2>5. PICK k \in KeptOuts(s, drafts, v, f) : \E x : SpecSteps(s, drafts, f, v, k, x, o)
        BY <1>1, <1>5
    <2>6. PICK x : SpecSteps(s, drafts, f, v, k, x, o)
        BY <2>5
    <2>7. o.s = x.s
        BY <2>6 DEF SpecSteps
    <2>8. KeptAs(s, SubSeq(drafts, 1, a + 1), k)
        BY <2>1, <2>2, <2>3, KeptOutsAs
    <2>9. CASE k.st = "OK"
        <3>1. x \in PrefillOnce(k.s, <<c>>, f)
            BY <2>4, <2>6, <2>9 DEF SpecSteps
        <3>2. Typed(k.s) /\ Owes(k.s) /\ k.s.deferred = s.deferred
            BY <2>8, <2>9 DEF KeptAs, Grows
        <3>3. PICK t, q : t = k.s /\ q = <<c>>
            OBVIOUS
        <3>4. x \in PrefillOnce(t, q, FALSE) /\ Typed(t)
            BY <1>0, <3>1, <3>2, <3>3
        <3>5. x.s.deferred = t.deferred
            BY <3>4, PrefillOnceDebt
        <3> QED
            BY <2>7, <3>2, <3>3, <3>5
    <2>10. CASE k.st # "OK"
        <3>1. x = k
            BY <2>6, <2>10 DEF SpecSteps
        <3> QED
            BY <2>7, <2>8, <3>1 DEF KeptAs
    <2> QED
        BY <2>9, <2>10
<1> QED
    BY <1>4, <1>5

\* A settle pays the debt or leaves it.
LEMMA SettleDebt ==
    ASSUME NEW s, Held(s), Settles(s), NEW canFail, NEW o \in Settle(s, canFail)
    PROVE  Settles(o.s) /\ (o.st = "OK" => o.s.deferred = FALSE)
<1>0. s.deferred = FALSE \/ s.deferred = TRUE
    BY DEF Settles
<1>1. CASE s.deferred = FALSE
    <2>1. o = Ok(s)
        BY <1>1 DEF Settle
    <2>2. o.s = s
        BY <2>1, OkCounted
    <2> QED
        BY <1>1, <2>2
<1>2. CASE s.deferred = TRUE
    <2>1. PICK p \in Tokens : p = PendingToken(s)
        BY DEF Held, Owes
    <2>2. PICK x \in RunStep(s, p, canFail) :
              IF x.st = "OK" THEN o = Ok([x.s EXCEPT !.deferred = FALSE]) ELSE o = x
        BY <1>2, <2>1 DEF Settle, Then
    <2>3. Typed(s) /\ Owes(s)
        BY DEF Held
    <2>4. x.s.deferred = s.deferred /\ Typed(x.s)
        <3>1. /\ Typed(x.s) /\ Owes(x.s) /\ OnlyRecurrent(x.s) /\ x.s.deferred = s.deferred /\ x.s.cancel = s.cancel
              /\ x.st \in {"OK", "TOO_MANY_TOKENS", "BACKEND"}
              /\ x.st = "OK" => Grows(s, x.s, <<p>>) /\ x.s.logitsValid
              /\ x.st # "OK" => Grows(s, x.s, <<>>) /\ SameLogits(s, x.s)
            BY <2>2, <2>3, RunStepGrows
        <3> QED
            BY <3>1
    <2>5. CASE x.st = "OK"
        <3>1. PICK t : t = [x.s EXCEPT !.deferred = FALSE]
            OBVIOUS
        <3>2. t.deferred = FALSE /\ Settles(t)
            BY <2>4, <3>1 DEF Typed, IsSession, Settles
        <3>3. o = Ok(t)
            BY <2>2, <2>5, <3>1
        <3> QED
            BY <3>2, <3>3, OkCounted
    <2>6. CASE x.st # "OK"
        <3>1. o.s.deferred = s.deferred /\ o.st # "OK"
            BY <2>2, <2>4, <2>6
        <3> QED
            BY <3>1 DEF Settles
    <2> QED
        BY <2>5, <2>6
<1> QED
    BY <1>0, <1>1, <1>2

\* A decode_step owes a forward afterwards or is refused.
LEMMA DecodeStepDebt ==
    ASSUME NEW s, Held(s), Settles(s), NEW o \in DecodeStep(s, FALSE)
    PROVE  Settles(o.s)
<1>1. CASE s.cancel
    <2>1. PICK t : t = [s EXCEPT !.cancel = FALSE]
        OBVIOUS
    <2>2. o \in Refused(t, "CANCELLED")
        BY <1>1, <2>1 DEF DecodeStep, Cancelled
    <2>3. t.deferred = s.deferred
        BY <2>1 DEF Held, Typed, IsSession
    <2>4. Settles(t)
        BY <2>3 DEF Settles
    <2> QED
        BY <2>2, <2>4, RefusedCounted
<1>2. CASE ~s.cancel
    <2>1. PICK x \in Settle(s, FALSE) : IF x.st = "OK" THEN o \in DecodeSettled(x.s) ELSE o = x
        BY <1>2 DEF DecodeStep, Then
    <2>2. Settles(x.s)
        BY SettleDebt
    <2>3. IsSession(x.s)
        BY SettleUnseen DEF SettledAs, Held, Typed
    <2>4. ASSUME o \in DecodeSettled(x.s)
          PROVE  Settles(o.s)
        <3>1. PICK c, t : c = Commit(x.s) /\ t = [c EXCEPT !.deferred = TRUE]
            OBVIOUS
        <3>2. IsSession(c) /\ c.deferred = x.s.deferred
            BY <2>3, <3>1, CommitFields
        <3>3. Settles(t) /\ Settles(c)
            <4>1. t.deferred = TRUE
                BY <3>1, <3>2 DEF IsSession
            <4> QED
                BY <2>2, <3>2, <4>1 DEF Settles
        <3>4. \/ o \in Refused(x.s, "INVALID_STATE")
              \/ o \in Refused(c, "TOO_MANY_TOKENS")
              \/ o = Out(t, "OK", <<PendingToken(x.s)>>, 0)
            BY <2>4, <3>1 DEF DecodeSettled
        <3>5. CASE o = Out(t, "OK", <<PendingToken(x.s)>>, 0)
            BY <3>3, <3>5, OutCounted
        <3>6. CASE o \in Refused(x.s, "INVALID_STATE")
            BY <2>2, <3>6, RefusedCounted
        <3>7. CASE o \in Refused(c, "TOO_MANY_TOKENS")
            BY <3>3, <3>7, RefusedCounted
        <3> QED
            BY <3>4, <3>5, <3>6, <3>7
    <2> QED
        BY <2>1, <2>2, <2>4
<1> QED
    BY <1>1, <1>2

\* verify_drafts is one of the two.
LEMMA VerifyDraftsDebt ==
    ASSUME NEW s, Held(s), Settles(s), NEW guesses \in Seq(Tokens), NEW o \in VerifyDrafts(s, guesses, FALSE)
    PROVE  Settles(o.s)
<1>1. CASE guesses = <<>>
    BY <1>1, DecodeStepDebt DEF VerifyDrafts
<1>2. CASE guesses # <<>>
    <2>1. PICK x \in Settle(s, FALSE) :
             IF x.st = "OK" /\ x.s.logitsValid
             THEN o \in SpecVerify(x.s, <<PendingToken(x.s)>> \o guesses, FALSE)
             ELSE \E r \in DecodeStep(x.s, FALSE) : o = After(x, r)
        BY <1>2 DEF VerifyDrafts
    <2>2. Settles(x.s) /\ Held(x.s)
        BY SettleDebt, SettleUnseen DEF SettledAs
    <2>3. CASE x.st = "OK" /\ x.s.logitsValid
        <3>1. PICK y \in Tokens : y = PendingToken(x.s)
            BY <2>2 DEF Held, Owes
        <3>2. PICK q \in Seq(Tokens) : q = <<y>> /\ Len(q) = 1
            <4>1. <<y>> \in Seq(Tokens) /\ Len(<<y>>) = 1
                OBVIOUS
            <4> QED
                BY <4>1
        <3>3. PICK p : p = q \o guesses
            OBVIOUS
        <3>4. p \in Seq(Tokens) /\ p # <<>>
            <4>1. q \o guesses \in Seq(Tokens) /\ Len(q \o guesses) = Len(q) + Len(guesses)
                BY ConcatProperties
            <4>2. Len(p) # 0
                BY <3>2, <3>3, <4>1
            <4> QED
                BY <3>3, <4>1, <4>2
        <3>5. o \in SpecVerify(x.s, p, FALSE)
            BY <2>1, <2>3, <3>1, <3>2, <3>3
        <3>6. o.s.deferred = x.s.deferred
            BY <2>2, <3>4, <3>5, SpecVerifyDebt
        <3> QED
            BY <2>2, <3>6 DEF Settles
    <2>4. CASE ~(x.st = "OK" /\ x.s.logitsValid)
        <3>1. PICK r \in DecodeStep(x.s, FALSE) : o = After(x, r)
            BY <2>1, <2>4
        <3>2. Counted(r) /\ Settles(r.s)
            BY <2>2, DecodeStepCounted, DecodeStepDebt
        <3>4. Counted(x)
            BY SettleCounted
        <3>3. o.s = r.s
            BY <3>1, <3>2, <3>4, AfterTallied DEF Counted
        <3> QED
            BY <3>2, <3>3 DEF Settles
    <2> QED
        BY <2>3, <2>4
<1> QED
    BY <1>1, <1>2

\* geist_session_decode_step.
LEMMA DecodeGood ==
    ASSUME NEW s, Good(s), NEW o \in DecodeStep(s, FALSE)
    PROVE  Good(o.s) /\ Promise(s, o) /\ Speaks(s, o)
<1>1. Rest(s) /\ Held(s) /\ Settles(s)
    BY DEF Good
<1>2. o.faults = 0
    BY DecodeStepSure
<1>3. Rest(o.s)
    BY <1>1, <1>2, DecodeStepRest
<1>4. Promise(s, o) /\ Speaks(s, o)
    BY <1>1, <1>2, DecodeStepSpeaks
<1>5. Settles(o.s)
    BY <1>1, DecodeStepDebt
<1> QED
    BY <1>3, <1>4, <1>5 DEF Good, Promise

\* A prefill of a settled session that has failed nothing.
LEMMA FedGood ==
    ASSUME NEW s, Good(s), Paid(s), NEW ids \in Seq(Tokens), NEW o \in PrefillOnce(s, ids, FALSE)
    PROVE  /\ Good(o.s) /\ Extends(s, o) /\ SaidBy(o) = <<>> /\ Paid(o.s) /\ SameModel(s, o.s)
           /\ o.s.prefixLength = s.prefixLength
           /\ o.st = "OK" => Grows(s, o.s, ids) /\ o.s.logitsValid
<1>1. Rest(s) /\ Held(s) /\ Core(s) /\ Typed(s) /\ Owes(s) /\ Current(s)
    BY DEF Good, Rest, Held
<1>2. o.faults = 0
    BY PrefillOnceSure
<1>3. Core(o.s) /\ ~o.s.txn.active /\ SameModel(s, o.s) /\ o.s.prefixLength = s.prefixLength /\ Current(o.s)
    <2>1. PICK f : f = FALSE
        OBVIOUS
    <2>2. o \in PrefillOnce(s, ids, f)
        BY <2>1
    <2> QED
        BY <1>1, <1>2, <2>2, PrefillOnceCore
<1>4. Fed(s, ids, o) /\ (o.st = "OK" => o.s.logitsValid)
    BY <1>1, PrefillOnceFed
<1>5. Paid(s) /\ Paid(o.s) /\ ~s.deferred /\ ~o.s.deferred
    BY <1>4 DEF Fed, Paid
<1>6. Good(o.s)
    BY <1>3, <1>4, <1>5 DEF Good, Rest, Held, Fed, Settles, Paid
<1>7. PICK q \in Seq(Tokens) : Grows(s, o.s, q)
    <2>1. <<>> \in Seq(Tokens)
        OBVIOUS
    <2> QED
        BY <1>4, <2>1 DEF Fed
<1>8. StartOf(Text(s), Text(o.s)) /\ Pin(o.s) = Pin(s)
    BY <1>1, <1>5, <1>7, GrowsText, GrowsPin
<1>9. SaidBy(o) = <<>>
    BY <1>4 DEF Fed
<1>10. Extends(s, o)
    BY <1>8, <1>9 DEF Extends
<1> QED
    BY <1>3, <1>4, <1>5, <1>6, <1>9, <1>10 DEF Fed

\* A settle is not seen, and pays the debt.
LEMMA SettleGood ==
    ASSUME NEW s, Good(s), NEW o \in Settle(s, FALSE)
    PROVE  /\ Good(o.s) /\ SameView(s, o.s) /\ SaidBy(o) = <<>> /\ Speaks(s, o)
           /\ o.st = "OK" => Paid(o.s)
<1>1. Rest(s) /\ Held(s) /\ Settles(s) /\ Typed(s) /\ Owes(s)
    BY DEF Good, Held
<1>2. o.faults = 0
    BY SettleSure
<1>3. Rest(o.s)
    BY <1>1, <1>2, SettleRest
<1>4. SettledAs(s, o)
    BY <1>1, SettleUnseen
<1>5. Settles(o.s) /\ (o.st = "OK" => Paid(o.s))
    BY <1>1, SettleDebt DEF Paid
<1>6. SaidBy(o) = <<>>
    BY SettleSays
<1>7. Held(o.s) /\ SameView(s, o.s) /\ o.s.cancel = s.cancel /\ o.st # "CANCELLED"
    BY <1>4 DEF SettledAs
<1>8. Speaks(s, o)
    BY <1>1, <1>6, <1>7, UnseenPromise
<1> QED
    BY <1>3, <1>5, <1>6, <1>7, <1>8 DEF Good

\* A checkpoint and a truncate say nothing.
LEMMA CheckpointSays ==
    ASSUME NEW s, NEW canFail, NEW o \in Checkpoint(s, canFail)
    PROVE  SaidBy(o) = <<>>
<1>1. PICK x \in Settle(s, canFail) : IF x.st = "OK" THEN o \in CheckpointSettled(x.s, canFail) ELSE o = x
    BY DEF Checkpoint, Then
<1>2. ASSUME NEW t, o \in CheckpointSettled(t, canFail)
      PROVE  SaidBy(o) = <<>>
    <2>1. o \in Refused(t, "UNSUPPORTED") \/ (\E y : o = Ok(y)) \/ (\E y : o = Failed(y))
        BY <1>2 DEF CheckpointSettled
    <2> QED
        BY <2>1, OkSays, RefusedSays
<1> QED
    BY <1>1, <1>2, SettleSays

LEMMA TruncateSays ==
    ASSUME NEW s, NEW n, NEW canFail, NEW o \in Truncate(s, n, canFail)
    PROVE  SaidBy(o) = <<>>
<1>1. PICK x \in Settle(s, canFail) : IF x.st = "OK" THEN o \in TruncateSettled(x.s, n, canFail) ELSE o = x
    BY DEF Truncate, Then
<1>2. ASSUME NEW t, o \in TruncateSettled(t, n, canFail)
      PROVE  SaidBy(o) = <<>>
    <2>1. (\E st : st # "OK" /\ o \in Refused(t, st)) \/ (\E y : o = Ok(y)) \/ (\E y : o = Failed(y))
        BY <1>2 DEF TruncateSettled
    <2> QED
        BY <2>1, OkSays, RefusedSays
<1> QED
    BY <1>1, <1>2, SettleSays

\* geist_session_decode_step returns a token.
LEMMA DecodeTyped ==
    ASSUME NEW s, Held(s), NEW canFail, NEW o \in DecodeStep(s, canFail), o.st = "OK"
    PROVE  o.toks \in Seq(Tokens)
<1>1. ~s.cancel
    BY RefusedCounted DEF DecodeStep, Cancelled
<1>2. PICK x \in Settle(s, canFail) : IF x.st = "OK" THEN o \in DecodeSettled(x.s) ELSE o = x
    BY <1>1 DEF DecodeStep, Then
<1>3. o \in DecodeSettled(x.s)
    BY <1>2
<1>4. PICK p \in Tokens : p = PendingToken(x.s)
    BY <1>2, SettleUnseen DEF SettledAs, Held, Owes
<1>5. \/ \E y, st : st # "OK" /\ o \in Refused(y, st)
      \/ \E y : o = Out(y, "OK", <<p>>, 0)
    BY <1>3, <1>4 DEF DecodeSettled
<1>6. o.toks = <<p>>
    BY <1>5, RefusedCounted, OutCounted
<1> QED
    BY <1>6

\* A request does not show.
LEMMA RequestGood ==
    ASSUME NEW s, Good(s), NEW x, NEW t, t = [s EXCEPT !.cancel = x]
    PROVE  /\ Good(t) /\ Text(t) = Text(s) /\ Pin(t) = Pin(s) /\ t.logitsValid = s.logitsValid
           /\ t.cancel = x
<1>1. Core(s) /\ Current(s) /\ ~s.txn.active /\ Owes(s) /\ (s.deferred => s.logitsValid) /\ IsSession(s)
      /\ Settles(s)
    BY DEF Good, Rest, Held, Typed
<1>2. /\ Core(t) /\ Content(t) = Content(s) /\ (Current(s) => Current(t))
      /\ SameModel(s, t) /\ SameText(s, t) /\ SameCkpts(s, t) /\ t.logitsValid = s.logitsValid
      /\ t.txn = s.txn /\ t.deferred = s.deferred
      /\ t.prefixLength = s.prefixLength
    BY <1>1, UncancelledCore
<1>3. t.pending = s.pending /\ t.cancel = x
    BY <1>1 DEF IsSession
<1>4. PendingToken(t) = PendingToken(s)
    BY <1>3 DEF PendingToken
<1>5. Text(t) = Text(s)
    BY <1>2, <1>4 DEF Text
<1>6. Pin(t) = Pin(s)
    BY <1>2 DEF Pin, SameText
<1>7. Good(t)
    BY <1>1, <1>2, <1>4 DEF Good, Rest, Held, Owes, Settles, Core, OnlyRecurrent
<1> QED
    BY <1>2, <1>3, <1>5, <1>6, <1>7

\* A new session is good, and empty.
LEMMA NewSessionGood ==
    ASSUME NEW d \in Models
    PROVE  LET s == NewSession(d) IN
           Good(s) /\ Text(s) = <<>> /\ Pin(s) = <<>> /\ s.logitsValid = FALSE
<1>1. PICK s : s = NewSession(d)
    OBVIOUS
<1>2. Rest(s)
    BY <1>1, NewSessionRest
<1>3. /\ s.rows = <<>> /\ s.kvLen = 0 /\ s.prefixLength = 0
      /\ s.logitsValid = FALSE /\ s.deferred = FALSE /\ s.pending = NoPending
    BY <1>1 DEF NewSession
<1>4. Typed(s) /\ ~s.txn.active
    BY <1>2 DEF Rest, Core
<1>5. Predict(<<>>) \in Tokens
    <2>1. <<>> \in Seq(Tokens) /\ Len(<<>>) <= s.maxLen /\ s.maxLen \in MaxLens
        BY <1>4, TypedNumbers DEF Typed
    <2> QED
        BY <2>1, PredictTyped
<1>6. NoPending.on = <<>>
    BY DEF NoPending
<1>7. Good(s)
    BY <1>2, <1>3, <1>4, <1>5, <1>6 DEF Good, Held, Owes, Settles, PendingToken, OnlyRecurrent
<1>8. SubSeq(<<>>, 1, 0) = <<>> /\ <<>> \o <<>> = <<>>
    OBVIOUS
<1>9. Text(s) = <<>> /\ Pin(s) = <<>>
    BY <1>3, <1>8 DEF Text, Content, Pin
<1> QED
    BY <1>1, <1>3, <1>7, <1>9
=============================================================================
