-------------------------- MODULE SessionBatchProofs --------------------------
(***************************************************************************)
(* Proofs about SessionBatch.  Between two steps every member is Good: at   *)
(* rest in the sense of SessionOpsProofs, although passes have failed,      *)
(* because a failed pass resets every session it may have touched.  The     *)
(* calls of one session speak as those lemmas say; a pass is a decode_step   *)
(* of each of its members with the forward run now, which is shown field by  *)
(* field.                                                                   *)
(***************************************************************************)
EXTENDS SessionBatch, SessionOpsProofs

-----------------------------------------------------------------------------
(* The invariant: every member is Good. *)

BInv == /\ sess = [m \in Members |-> sess[m]]
        /\ \A m \in Members : Good(sess[m])

\* What one session's part in a step may be: one of the conversation's steps.
Moves(s, t, said) ==
    LET o == Out(t, "OK", said, 0) IN
    \/ Speaks(s, o)
    \/ Text(t) = <<>> /\ Pin(t) = <<>> /\ ~t.logitsValid /\ said = <<>>
    \/ StartOf(Text(s), Text(t)) /\ t.logitsValid /\ Pin(t) = Text(t) /\ said = <<>>
    \/ Text(t) = Pin(s) /\ Pin(t) = Pin(s) /\ ~t.logitsValid /\ said = <<>>
    \/ Text(t) = Text(s) /\ Pin(t) = Pin(s) /\ t.logitsValid = s.logitsValid /\ said = <<>>

\* A call that speaks moves.
LEMMA SpeaksMoves ==
    ASSUME NEW s, NEW o, Speaks(s, o)
    PROVE  Moves(s, o.s, SaidBy(o))
<1> DEFINE p == Out(o.s, "OK", SaidBy(o), 0)
<1>1. p.s = o.s /\ p.st = "OK" /\ p.toks = SaidBy(o)
    BY OutCounted
<1>2. SaidBy(p) = SaidBy(o)
    BY <1>1 DEF SaidBy
<1> HIDE DEF p
<1>3. Extends(s, o) => Extends(s, p)
    BY <1>1, <1>2 DEF Extends
<1>4. Emits(s, o) => Emits(s, p)
    BY <1>1, <1>2 DEF Emits
<1>5. Rewinds(s, o) => Rewinds(s, p)
    BY <1>1, <1>2 DEF Rewinds
<1>6. Speaks(s, p)
    BY <1>3, <1>4, <1>5 DEF Speaks
<1> QED
    BY <1>6 DEF Moves, p

\* What the last call said to m.
SaidTo(m) == IF out.st = "OK" THEN out.toks[m] ELSE <<>>

\* A member that moves takes a step of its conversation.
LEMMA MovesNext ==
    ASSUME NEW m \in Members, Moves(sess[m], sess'[m], SaidTo(m)')
    PROVE  Contract(m)!Next
<1>1. PICK s, t, q : s = sess[m] /\ t = sess'[m] /\ q = SaidTo(m)'
    OBVIOUS
<1>2. /\ Text(sess[m])' = Text(t) /\ Pin(sess[m])' = Pin(t) /\ (sess[m].logitsValid)' = t.logitsValid
      /\ (IF out.st = "OK" THEN out.toks[m] ELSE <<>>)' = q
    BY <1>1 DEF Text, Content, PendingToken, Pin, SaidTo
<1>3. Moves(s, t, q)
    BY <1>1
<1>4. PICK o : o = Out(t, "OK", q, 0)
    OBVIOUS
<1>5. o.s = t /\ SaidBy(o) = q
    BY <1>4, OutCounted DEF SaidBy
<1>6. CASE Extends(s, o)
    <2>1. Contract(m)!Extend
        BY <1>1, <1>2, <1>5, <1>6 DEF Extends, StartOf, Contract!Extend, Contract!Begins, Pin
    <2> QED
        BY <2>1 DEF Contract!Next
<1>7. CASE Emits(s, o)
    <2>1. Contract(m)!Emit
        BY <1>1, <1>2, <1>5, <1>7 DEF Emits, Contract!Emit, Pin
    <2> QED
        BY <2>1 DEF Contract!Next
<1>8. CASE Rewinds(s, o)
    <2>1. Contract(m)!Rewind
        BY <1>1, <1>2, <1>5, <1>8 DEF Rewinds, StartOf, Contract!Rewind, Contract!Begins, Pin
    <2> QED
        BY <2>1 DEF Contract!Next
<1>9. CASE Text(t) = <<>> /\ Pin(t) = <<>> /\ ~t.logitsValid /\ q = <<>>
    <2>1. Contract(m)!Unpin
        BY <1>1, <1>2, <1>9 DEF Contract!Unpin, Pin
    <2> QED
        BY <2>1 DEF Contract!Next
<1>10. CASE StartOf(Text(s), Text(t)) /\ t.logitsValid /\ Pin(t) = Text(t) /\ q = <<>>
    <2>1. Contract(m)!Pin
        BY <1>1, <1>2, <1>10 DEF Contract!Pin, Contract!Begins, StartOf, Pin
    <2> QED
        BY <2>1 DEF Contract!Next
<1>11. CASE Text(t) = Pin(s) /\ Pin(t) = Pin(s) /\ ~t.logitsValid /\ q = <<>>
    <2>1. Contract(m)!Reset
        BY <1>1, <1>2, <1>11 DEF Contract!Reset, Pin
    <2> QED
        BY <2>1 DEF Contract!Next
<1>12. CASE Text(t) = Text(s) /\ Pin(t) = Pin(s) /\ t.logitsValid = s.logitsValid /\ q = <<>>
    <2>1. Contract(m)!Keep
        BY <1>1, <1>2, <1>12 DEF Contract!Keep, Pin
    <2> QED
        BY <2>1 DEF Contract!Next
<1> QED
    BY <1>3, <1>4, <1>6, <1>7, <1>8, <1>9, <1>10, <1>11, <1>12 DEF Moves, Speaks

\* A member left alone.
LEMMA StillMoves ==
    ASSUME NEW s
    PROVE  Moves(s, s, <<>>)
BY DEF Moves

\* The members keep being good.
LEMMA GoodNext ==
    ASSUME sess' = [m \in Members |-> sess'[m]], \A m \in Members : Good(sess'[m])
    PROVE  BInv'
<1>1. ASSUME NEW m \in Members
      PROVE  Good(sess[m])'
    <2>1. PICK t : t = sess'[m]
        OBVIOUS
    <2>2. Good(t)
        BY <2>1
    <2> QED
        BY <2>1, <2>2 DEF Good, Settles, Rest, Core, Typed, Absorbed, Checkpoints, Current, IsSession, Content, CkptSlot, Held, Owes,
           PendingToken
<1> QED
    BY <1>1 DEF BInv

\* A call on one session: it is Good again and has moved, the others did nothing.
LEMMA CallKeeps ==
    ASSUME BInv, NEW m \in Members, NEW outs, Call(m, outs),
           \A o \in outs : Good(o.s) /\ Moves(sess[m], o.s, SaidBy(o))
    PROVE  BInv' /\ \A k \in Members : Contract(k)!Next
<1>1. PICK o \in outs : /\ sess' = [sess EXCEPT ![m] = o.s]
                        /\ out' = [st |-> o.st, toks |-> [Nothing EXCEPT ![m] = o.toks], batch |-> <<>>]
    BY DEF Call
<1>2. PICK t, st, tk : t = o.s /\ st = o.st /\ tk = o.toks
    OBVIOUS
<1>3. sess' = [sess EXCEPT ![m] = t]
    BY <1>1, <1>2
<1>4. /\ sess' = [k \in Members |-> sess'[k]] /\ sess'[m] = t
      /\ \A k \in Members \ {m} : sess'[k] = sess[k]
    BY <1>3 DEF BInv
<1>5. \A k \in Members : Good(sess'[k])
    BY <1>2, <1>4 DEF BInv
<1>6. ASSUME NEW k \in Members
      PROVE  Moves(sess[k], sess'[k], SaidTo(k)')
    <2>1. PICK w : w = [Nothing EXCEPT ![m] = tk]
        OBVIOUS
    <2>2. w[m] = tk /\ (k # m => w[k] = <<>>)
        BY <2>1 DEF Nothing
    <2>3. out' = [st |-> st, toks |-> w, batch |-> <<>>]
        BY <1>1, <1>2, <2>1
    <2>4. SaidTo(k)' = IF st = "OK" THEN w[k] ELSE <<>>
        BY <2>3 DEF SaidTo
    <2>5. CASE k = m
        BY <1>2, <1>4, <2>2, <2>4, <2>5 DEF SaidBy
    <2>6. CASE k # m
        BY <1>4, <2>2, <2>4, <2>6, StillMoves
    <2> QED
        BY <2>5, <2>6
<1> QED
    BY <1>4, <1>5, <1>6, GoodNext, MovesNext

-----------------------------------------------------------------------------
(* The calls of one session. *)

-----------------------------------------------------------------------------
(* Each call, and what it leaves of its session. *)

\* geist_session_decode_step.
LEMMA DecodeMoves ==
    ASSUME NEW s, Good(s), NEW o \in DecodeStep(s, FALSE)
    PROVE  Good(o.s) /\ Moves(s, o.s, SaidBy(o))
BY DecodeGood, SpeaksMoves

\* geist_session_verify_drafts.
LEMMA VerifyGood ==
    ASSUME NEW s, Good(s), NEW guesses \in Seq(Tokens), NEW o \in VerifyDrafts(s, guesses, FALSE)
    PROVE  Good(o.s) /\ Moves(s, o.s, SaidBy(o))
<1>1. Rest(s) /\ Held(s) /\ Settles(s)
    BY DEF Good
<1>2. o.faults = 0
    BY VerifyDraftsSure
<1>3. Rest(o.s)
    BY <1>1, <1>2, VerifyDraftsRest
<1>4. Promise(s, o) /\ Speaks(s, o)
    BY <1>1, <1>2, VerifyDraftsSpeaks
<1>5. Settles(o.s)
    BY <1>1, VerifyDraftsDebt
<1> QED
    BY <1>3, <1>4, <1>5, SpeaksMoves DEF Good, Promise

\* geist_session_reset.
LEMMA ResetGood ==
    ASSUME NEW s, Good(s), NEW o, o = Ok(Reset(s))
    PROVE  Good(o.s) /\ Moves(s, o.s, SaidBy(o))
<1>1. Rest(s) /\ Held(s) /\ IsSession(s)
    BY DEF Good, Rest, Core, Typed
<1>2. o.s = Reset(s)
    BY OkCounted
<1>3. Rest(o.s)
    BY <1>1, <1>2, ResetRest DEF Rest
<1>4. Settles(o.s)
    <2>1. o.s.deferred = FALSE
        BY <1>1, <1>2, ResetFields
    <2> QED
        BY <2>1 DEF Settles
<1>5. Promise(s, o) /\ Speaks(s, o)
    BY <1>1, ResetSpeaks
<1> QED
    BY <1>3, <1>4, <1>5, SpeaksMoves DEF Good, Promise

\* geist_session_prefill.
LEMMA PrefillGood ==
    ASSUME NEW s, Good(s), NEW ids \in Seq(Tokens),
           NEW o \in Then(Settle(s, FALSE), LAMBDA t : PrefillOnce(t, ids, FALSE))
    PROVE  Good(o.s) /\ Moves(s, o.s, SaidBy(o))
<1>1. PICK x \in Settle(s, FALSE) : IF x.st = "OK" THEN o \in PrefillOnce(x.s, ids, FALSE) ELSE o = x
    BY DEF Then
<1>2. /\ Good(x.s) /\ SameView(s, x.s) /\ SaidBy(x) = <<>> /\ Speaks(s, x)
      /\ x.st = "OK" => Paid(x.s)
    BY SettleGood
<1>3. CASE x.st # "OK"
    BY <1>1, <1>2, <1>3, SpeaksMoves
<1>4. CASE x.st = "OK"
    <2>1. PICK t : t = x.s
        OBVIOUS
    <2>2. o \in PrefillOnce(t, ids, FALSE) /\ Good(t) /\ Paid(t)
        BY <1>1, <1>2, <1>4, <2>1
    <2>3. Good(o.s) /\ Speaks(t, o)
        BY <2>2, FedGood DEF Speaks
    <2>4. Speaks(s, o)
        BY <1>2, <2>1, <2>3, UnseenThenSpeaks
    <2> QED
        BY <2>3, <2>4, SpeaksMoves
<1> QED
    BY <1>3, <1>4

\* A session whose text is empty has nothing pinned.
LEMMA EmptyUnpinned ==
    ASSUME NEW s, Typed(s), Owes(s), Text(s) = <<>>
    PROVE  Pin(s) = <<>>
<1>1. PICK k, p, L \in Nat : k = s.kvLen /\ p = s.prefixLength /\ L = Len(s.rows) /\ p <= k /\ k <= L
    BY TypedNumbers
<1>2. Len(Content(s)) = k
    BY <1>1, ContentTyped
<1>3. Len(Content(s)) <= Len(Text(s))
    BY TextTyped DEF StartOf
<1>4. Len(Text(s)) = 0
    OBVIOUS
<1>5. p = 0
    BY <1>1, <1>2, <1>3, <1>4
<1>6. s.rows \in Seq(Tokens) /\ 0 \in 0 .. Len(s.rows)
    BY <1>1 DEF Typed
<1>7. SubSeq(s.rows, 1, 0) \in Seq(Tokens) /\ Len(SubSeq(s.rows, 1, 0)) = 0
    BY <1>6, CutText
<1>8. SubSeq(s.rows, 1, 0) = <<>>
    BY <1>7, EmptySeq
<1> QED
    BY <1>1, <1>5, <1>8 DEF Pin

\* The emptied session a pin starts from.
LEMMA EmptiedGood ==
    ASSUME NEW s, Good(s), NEW e, e = Reset([s EXCEPT !.prefixLength = 0])
    PROVE  Good(e) /\ Paid(e) /\ EmptiedAs(s, e)
<1>1. Rest(s) /\ Held(s)
    BY DEF Good
<1>2. Rest(e) /\ EmptiedAs(s, e)
    BY <1>1, EmptiedRest, EmptiedHeld
<1>3. e.deferred = FALSE
    <2>1. PICK r : r = [s EXCEPT !.prefixLength = 0]
        OBVIOUS
    <2>2. IsSession(r)
        BY <1>1, <2>1 DEF Held, Typed, IsSession
    <2> QED
        BY <2>1, <2>2, ResetFields
<1> QED
    BY <1>2, <1>3 DEF Good, EmptiedAs, Paid, Settles

\* What has been prefilled is pinned.
LEMMA PinnedGood ==
    ASSUME NEW s, Good(s), Paid(s), ~s.recurrent, s.logitsValid, NEW k \in 0 .. s.kvLen, k = s.kvLen, NEW t,
           t = [s EXCEPT !.prefixLength = k]
    PROVE  Good(t) /\ t.logitsValid /\ Pin(t) = Text(t)
<1>1. Core(s) /\ Current(s) /\ ~s.txn.active /\ Owes(s) /\ Typed(s)
    BY DEF Good, Rest, Held
<1>2. s.recurrent => k = 0
    OBVIOUS
<1>4. /\ Core(t) /\ Content(t) = Content(s) /\ Current(t) /\ SameModel(s, t)
      /\ t.logitsValid = s.logitsValid /\ t.deferred = s.deferred /\ t.txn = s.txn /\ t.prefixLength = k
    BY <1>1, <1>2, RepinnedCore
<1>5. IsSession(s)
    BY <1>1 DEF Typed
<1>6. t.rows = s.rows /\ t.kvLen = s.kvLen /\ t.pending = s.pending
    BY <1>5 DEF IsSession
<1>7. Typed(t)
    BY <1>4 DEF Core
<1>8. Owes(t)
    BY <1>1, <1>4, <1>6 DEF Owes, PendingToken
<1>9. t.deferred = FALSE
    BY <1>4 DEF Paid
<1>10. Good(t)
    BY <1>1, <1>4, <1>7, <1>8, <1>9 DEF Good, Rest, Held, Settles, OnlyRecurrent
<1>11. Text(t) = Content(t)
    BY <1>7, <1>8, <1>9, TextTyped
<1>12. Pin(t) = Content(t)
    BY <1>4, <1>6 DEF Pin, Content
<1> QED
    BY <1>4, <1>10, <1>11, <1>12

\* Every text begins with the empty one.
LEMMA StartsEmpty ==
    ASSUME NEW t \in Seq(Tokens)
    PROVE  StartOf(<<>>, t)
<1>1. <<>> \in Seq(Tokens) /\ Len(<<>>) = 0
    OBVIOUS
<1>2. PICK e : e = <<>>
    OBVIOUS
<1>3. e \in Seq(Tokens) /\ Len(e) <= Len(t) /\ \A i \in 1 .. Len(e) : e[i] = t[i]
    BY <1>1, <1>2
<1> QED
    BY <1>2, <1>3, StartPointwise

\* The outcomes of a pin on the settled session t, which e is when it is emptied.
PinOutcome(t, e, ids, o) ==
    o \in IF ids = <<>> THEN {Ok(e)}
          ELSE IF t.recurrent THEN Refused(t, "UNSUPPORTED")
          ELSE Then(PrefillOnce(e, ids, FALSE), LAMBDA x : {Ok([x EXCEPT !.prefixLength = x.kvLen])})
IsEmptied(t, e) == e = Reset([t EXCEPT !.prefixLength = 0])

\* geist_session_pin_prefix, behind the settle.
LEMMA PinSettledGood ==
    ASSUME NEW s, Good(s), NEW t, Good(t), SameView(s, t), NEW ids \in Seq(Tokens), ids = <<>> \/ Text(s) = <<>>,
           NEW e, IsEmptied(t, e), NEW o, PinOutcome(t, e, ids, o)
    PROVE  Good(o.s) /\ Moves(s, o.s, SaidBy(o))
<1>1. Good(e) /\ Paid(e) /\ EmptiedAs(t, e)
    BY EmptiedGood DEF IsEmptied
<1>2. Typed(s) /\ Owes(s)
    BY DEF Good, Held
<1>3. CASE ids = <<>>
    <2>0. o = Ok(e)
        BY <1>3 DEF PinOutcome
    <2>1. o.s = e /\ SaidBy(o) = <<>>
        BY <2>0, OkSays
    <2> QED
        BY <1>1, <2>1 DEF Moves, EmptiedAs
<1>4. CASE ids # <<>> /\ t.recurrent
    <2>1. o \in Refused(t, "UNSUPPORTED")
        BY <1>4 DEF PinOutcome
    <2>2. o.s = t /\ SaidBy(o) = <<>>
        BY <2>1, RefusedSays
    <2> QED
        BY <2>2 DEF Moves, SameView
<1>5. CASE ids # <<>> /\ ~t.recurrent
    <2>1. PICK x \in PrefillOnce(e, ids, FALSE) :
             IF x.st = "OK" THEN o = Ok([x.s EXCEPT !.prefixLength = x.s.kvLen]) ELSE o = x
        BY <1>5 DEF PinOutcome, Then
    <2>2. /\ Good(x.s) /\ Extends(e, x) /\ SaidBy(x) = <<>> /\ Paid(x.s) /\ SameModel(e, x.s)
          /\ x.st = "OK" => Grows(e, x.s, ids) /\ x.s.logitsValid
        BY <1>1, <2>1, FedGood
    <2>3. Text(s) = <<>> /\ Pin(s) = <<>> /\ Text(e) = <<>> /\ Pin(e) = <<>>
        BY <1>1, <1>2, <1>5, EmptyUnpinned DEF EmptiedAs
    <2>4. CASE x.st # "OK"
        <3>1. Extends(s, x)
            BY <2>2, <2>3 DEF Extends
        <3> QED
            BY <2>1, <2>2, <2>4, <3>1, SpeaksMoves DEF Speaks
    <2>5. CASE x.st = "OK"
        <3>0. PICK y, k : y = x.s /\ k = y.kvLen
            OBVIOUS
        <3>1. PICK r : r = [y EXCEPT !.prefixLength = k]
            OBVIOUS
        <3>2. Good(y) /\ Paid(y) /\ ~y.recurrent /\ y.logitsValid
            BY <1>1, <1>5, <2>2, <2>5, <3>0 DEF SameModel, EmptiedAs
        <3>3. Good(r) /\ r.logitsValid /\ Pin(r) = Text(r)
            <4>1. k \in 0 .. y.kvLen
                BY <3>0, <3>2 DEF Good, Held, Typed
            <4> QED
                BY <3>0, <3>1, <3>2, <4>1, PinnedGood
        <3>4. o = Ok(r)
            BY <2>1, <2>5, <3>0, <3>1
        <3>6. o.s = r /\ SaidBy(o) = <<>>
            BY <3>4, OkSays
        <3>5. StartOf(<<>>, Text(r))
            <4>1. Text(r) \in Seq(Tokens)
                BY <3>3, TextTyped DEF Good, Held
            <4> QED
                BY <4>1, StartsEmpty
        <3> QED
            BY <2>3, <3>3, <3>5, <3>6 DEF Moves
    <2> QED
        BY <2>4, <2>5
<1> QED
    BY <1>3, <1>4, <1>5

-----------------------------------------------------------------------------
(* One session in a pass. *)

\* Two sessions with the same fields are the same.
LEMMA SessionEqual ==
    ASSUME NEW s, IsSession(s), NEW t, IsSession(t), SameModel(s, t), SameText(s, t), SameLogits(s, t),
           SameCkpts(s, t), t.prefixLength = s.prefixLength, t.mtp = s.mtp, t.deferred = s.deferred,
           t.txn = s.txn, t.rowsOff = s.rowsOff, t.cancel = s.cancel
    PROVE  s = t
<1>1. t \in [recurrent : {s.recurrent}, keepsRows : {s.keepsRows}, maxLen : {s.maxLen},
             usesMtp : {s.usesMtp}, rows : {s.rows}, kvLen : {s.kvLen},
             prefixLength : {s.prefixLength}, rec : {s.rec}, mtp : {s.mtp},
             logitsValid : {s.logitsValid}, pending : {s.pending}, deferred : {s.deferred},
             txn : {s.txn}, rowsOff : {s.rowsOff}, ckptLens : {s.ckptLens},
             ckptBase : {s.ckptBase}, ckptBuf : {s.ckptBuf}, cancel : {s.cancel}]
    BY DEF IsSession, SameModel, SameText, SameLogits, SameCkpts
<1> QED
    BY <1>1 DEF IsSession

\* The pending token consumed and the next one predicted.
Passed(s) == Finalized(Consumed(s))

\* What a member of a pass becomes, field by field.
IsAfter(s, p, a) ==
    /\ IsSession(a) /\ SameModel(s, a) /\ SameCkpts(s, a) /\ a.txn = NoTxn
    /\ a.rows = SubSeq(s.rows, 1, s.kvLen) \o <<p>> \o SubSeq(s.rows, s.kvLen + Len(<<p>>) + 1, Len(s.rows))
    /\ a.rec = IF s.recurrent THEN s.rec \o <<p>> ELSE s.rec
    /\ a.mtp = MtpSync(Commit(s), <<p>>) /\ a.kvLen = s.kvLen + 1
    /\ a.prefixLength = s.prefixLength /\ a.deferred = s.deferred /\ a.cancel = s.cancel
    /\ a.rowsOff = s.rowsOff /\ a.logitsValid = TRUE
    /\ a.pending = [on |-> SubSeq(a.rows, 1, a.kvLen), rec |-> a.rec]

LEMMA AfterFields ==
    ASSUME NEW s, IsSession(s), NEW p, p = PendingToken(s)
    PROVE  IsAfter(s, p, Passed(s))
<1>1. PICK n : n = NoTxn
    OBVIOUS
<1>2. PICK c : c = [s EXCEPT !.txn = n]
    OBVIOUS
<1>3. c = Commit(s)
    BY <1>1, <1>2 DEF Commit
<1>4. /\ IsSession(c) /\ SameModel(s, c) /\ SameCkpts(s, c) /\ SameText(s, c) /\ SameLogits(s, c) /\ c.txn = n
      /\ c.prefixLength = s.prefixLength /\ c.deferred = s.deferred /\ c.cancel = s.cancel
      /\ c.rowsOff = s.rowsOff /\ c.mtp = s.mtp
    BY <1>2 DEF IsSession, SameModel, SameCkpts, SameText, SameLogits
<1>5. PICK R, q, m : /\ R = SubSeq(c.rows, 1, c.kvLen) \o <<p>> \o SubSeq(c.rows, c.kvLen + Len(<<p>>) + 1, Len(c.rows))
                     /\ q = IF c.recurrent THEN c.rec \o <<p>> ELSE c.rec
                     /\ m = MtpSync(c, <<p>>)
    OBVIOUS
<1>6. PICK f : f = [c EXCEPT !.rows = R, !.rec = q, !.mtp = m]
    OBVIOUS
<1>7. Forwarded(c, <<p>>) = f
    BY <1>4, <1>5, <1>6 DEF Forwarded, IsSession
<1>8. /\ IsSession(f) /\ SameModel(c, f) /\ SameCkpts(c, f) /\ f.txn = n
      /\ f.rows = R /\ f.rec = q /\ f.mtp = m /\ f.kvLen = c.kvLen
      /\ f.prefixLength = c.prefixLength /\ f.deferred = c.deferred /\ f.cancel = c.cancel /\ f.rowsOff = c.rowsOff
    BY <1>4, <1>6 DEF IsSession, SameModel, SameCkpts
<1>9. PICK k : k = f.kvLen + 1
    OBVIOUS
<1>10. PICK g : g = [f EXCEPT !.kvLen = k]
    OBVIOUS
<1>11. Consumed(s) = g
    BY <1>3, <1>7, <1>8, <1>9, <1>10 DEF Consumed, IsSession
<1>12. /\ IsSession(g) /\ SameModel(f, g) /\ SameCkpts(f, g) /\ g.txn = n
       /\ g.rows = R /\ g.rec = q /\ g.mtp = m /\ g.kvLen = k
       /\ g.prefixLength = f.prefixLength /\ g.deferred = f.deferred /\ g.cancel = f.cancel /\ g.rowsOff = f.rowsOff
    BY <1>8, <1>10 DEF IsSession, SameModel, SameCkpts
<1>13. PICK x : x = [on |-> SubSeq(g.rows, 1, g.kvLen), rec |-> g.rec]
    OBVIOUS
<1>14. PICK a : a = [g EXCEPT !.logitsValid = TRUE, !.pending = x]
    OBVIOUS
<1>15. Passed(s) = a
    BY <1>11, <1>13, <1>14 DEF Passed, Finalized, Content
<1>16. /\ IsSession(a) /\ SameModel(g, a) /\ SameCkpts(g, a) /\ a.txn = n
       /\ a.rows = R /\ a.rec = q /\ a.mtp = m /\ a.kvLen = k /\ a.logitsValid = TRUE /\ a.pending = x
       /\ a.prefixLength = g.prefixLength /\ a.deferred = g.deferred /\ a.cancel = g.cancel /\ a.rowsOff = g.rowsOff
    BY <1>12, <1>14 DEF IsSession, SameModel, SameCkpts
<1>17. SameModel(s, a) /\ SameCkpts(s, a)
    BY <1>4, <1>8, <1>12, <1>16 DEF SameModel, SameCkpts
<1>18. k = s.kvLen + 1 /\ c.rows = s.rows /\ c.kvLen = s.kvLen /\ c.rec = s.rec /\ c.recurrent = s.recurrent
    BY <1>4, <1>8, <1>9 DEF SameText, SameModel
<1>19. R = SubSeq(s.rows, 1, s.kvLen) \o <<p>> \o SubSeq(s.rows, s.kvLen + Len(<<p>>) + 1, Len(s.rows))
    BY <1>5, <1>18
<1>20. q = IF s.recurrent THEN s.rec \o <<p>> ELSE s.rec
    BY <1>5, <1>18
<1>21. a.pending = [on |-> SubSeq(a.rows, 1, a.kvLen), rec |-> a.rec]
    BY <1>12, <1>13, <1>16
<1> QED
    BY ZenonT(60), <1>1, <1>3, <1>4, <1>5, <1>8, <1>12, <1>15, <1>16, <1>17, <1>18, <1>19, <1>20, <1>21 DEF IsAfter

\* A forward owed and run is the forward run.
LEMMA OwedIsRun ==
    ASSUME NEW t, IsSession(t), t.deferred = FALSE, NEW d, d = [Commit(t) EXCEPT !.deferred = TRUE]
    PROVE  /\ IsSession(d) /\ d.deferred = TRUE /\ PendingToken(d) = PendingToken(t)
           /\ d.kvLen = t.kvLen /\ d.maxLen = t.maxLen
           /\ [Passed(d) EXCEPT !.deferred = FALSE] = Passed(t)
<1>1. PICK n : n = NoTxn
    OBVIOUS
<1>2. PICK c : c = [t EXCEPT !.txn = n]
    OBVIOUS
<1>3. c = Commit(t)
    BY <1>1, <1>2 DEF Commit
<1>4. /\ IsSession(c) /\ SameModel(t, c) /\ SameCkpts(t, c) /\ SameText(t, c) /\ SameLogits(t, c) /\ c.txn = n
      /\ c.prefixLength = t.prefixLength /\ c.deferred = t.deferred /\ c.cancel = t.cancel
      /\ c.rowsOff = t.rowsOff /\ c.mtp = t.mtp
    BY <1>2 DEF IsSession, SameModel, SameCkpts, SameText, SameLogits
<1>5. d = [c EXCEPT !.deferred = TRUE]
    BY <1>3
<1>6. /\ IsSession(d) /\ SameModel(c, d) /\ SameCkpts(c, d) /\ SameText(c, d) /\ SameLogits(c, d) /\ d.txn = n
      /\ d.prefixLength = c.prefixLength /\ d.deferred = TRUE /\ d.cancel = c.cancel
      /\ d.rowsOff = c.rowsOff /\ d.mtp = c.mtp
    BY ZenonT(60), <1>4, <1>5 DEF IsSession, SameModel, SameCkpts, SameText, SameLogits
<1>7. PICK p : p = PendingToken(t)
    OBVIOUS
<1>8. p = PendingToken(d)
    BY <1>4, <1>6, <1>7 DEF PendingToken, SameLogits
<1>9. Commit(d).rows = t.rows /\ Commit(d).kvLen = t.kvLen /\ Commit(d).usesMtp = t.usesMtp /\ Commit(d).mtp = t.mtp
    <2>1. PICK e : e = [d EXCEPT !.txn = n]
        OBVIOUS
    <2>2. e = Commit(d)
        BY <1>1, <2>1 DEF Commit
    <2>3. e.rows = d.rows /\ e.kvLen = d.kvLen /\ e.usesMtp = d.usesMtp /\ e.mtp = d.mtp
        BY <1>6, <2>1 DEF IsSession
    <2> QED
        BY <1>4, <1>6, <2>2, <2>3 DEF SameText, SameModel
<1>10. MtpSync(Commit(d), <<p>>) = MtpSync(Commit(t), <<p>>)
    <2>1. c.rows = t.rows /\ c.kvLen = t.kvLen /\ c.usesMtp = t.usesMtp /\ c.mtp = t.mtp
        BY <1>4 DEF SameText, SameModel
    <2>2. Content(Commit(d)) = Content(c)
        BY <1>9, <2>1 DEF Content
    <2> QED
        BY <1>3, <1>9, <2>1, <2>2 DEF MtpSync, MtpRows
<1>11. PICK a, b : a = Passed(t) /\ b = Passed(d)
    OBVIOUS
<1>12. IsAfter(t, p, a)
    BY <1>7, <1>11, AfterFields
<1>13. IsAfter(d, p, b)
    BY <1>6, <1>8, <1>11, AfterFields
<1>14. d.rows = t.rows /\ d.kvLen = t.kvLen /\ d.rec = t.rec /\ d.recurrent = t.recurrent
    BY <1>4, <1>6 DEF SameText, SameModel
<1>15. b.rows = a.rows /\ b.kvLen = a.kvLen /\ b.rec = a.rec
    <2>1. PICK R : R = SubSeq(t.rows, 1, t.kvLen) \o <<p>> \o SubSeq(t.rows, t.kvLen + Len(<<p>>) + 1, Len(t.rows))
        OBVIOUS
    <2>2. R = SubSeq(d.rows, 1, d.kvLen) \o <<p>> \o SubSeq(d.rows, d.kvLen + Len(<<p>>) + 1, Len(d.rows))
        BY <1>14, <2>1
    <2>3. a.rows = R /\ b.rows = R
        BY <1>12, <1>13, <2>1, <2>2 DEF IsAfter
    <2>4. a.kvLen = t.kvLen + 1 /\ b.kvLen = d.kvLen + 1
        BY <1>12, <1>13 DEF IsAfter
    <2>5. PICK r : r = t.rec \o <<p>>
        OBVIOUS
    <2>6. a.rec = (IF t.recurrent THEN r ELSE t.rec) /\ b.rec = (IF t.recurrent THEN r ELSE t.rec)
        BY <1>12, <1>13, <1>14, <2>5 DEF IsAfter
    <2> QED
        BY <1>14, <2>3, <2>4, <2>6
<1>16. b.pending = a.pending
    BY <1>12, <1>13, <1>15 DEF IsAfter
<1>17. PICK e : e = [b EXCEPT !.deferred = FALSE]
    OBVIOUS
<1>18. /\ IsSession(e) /\ SameModel(b, e) /\ SameCkpts(b, e) /\ SameText(b, e) /\ SameLogits(b, e) /\ e.txn = b.txn
       /\ e.prefixLength = b.prefixLength /\ e.deferred = FALSE /\ e.cancel = b.cancel
       /\ e.rowsOff = b.rowsOff /\ e.mtp = b.mtp
    BY <1>13, <1>17 DEF IsAfter, IsSession, SameModel, SameCkpts, SameText, SameLogits
<1>19. SameModel(a, e) /\ SameCkpts(a, e)
    <2>1. SameModel(t, a) /\ SameCkpts(t, a)
        BY <1>12 DEF IsAfter
    <2>2. SameModel(d, b) /\ SameCkpts(d, b)
        BY <1>13 DEF IsAfter
    <2>3. SameModel(t, c) /\ SameCkpts(t, c) /\ SameModel(c, d) /\ SameCkpts(c, d)
        BY <1>4, <1>6
    <2>4. SameModel(b, e) /\ SameCkpts(b, e)
        BY <1>18
    <2> QED
        BY <2>1, <2>2, <2>3, <2>4 DEF SameModel, SameCkpts
<1>20. SameText(a, e) /\ SameLogits(a, e)
    BY <1>12, <1>13, <1>15, <1>16, <1>18 DEF IsAfter, SameText, SameLogits
<1>21. a.txn = e.txn
    BY <1>12, <1>13, <1>18 DEF IsAfter
<1>22. /\ e.prefixLength = a.prefixLength /\ e.mtp = a.mtp /\ e.deferred = a.deferred
       /\ e.rowsOff = a.rowsOff /\ e.cancel = a.cancel
    BY ZenonT(60), <1>4, <1>6, <1>10, <1>12, <1>13, <1>18 DEF IsAfter
<1>23. a = e
    BY <1>12, <1>18, <1>19, <1>20, <1>21, <1>22, SessionEqual DEF IsAfter
<1> QED
    BY <1>4, <1>6, <1>7, <1>8, <1>11, <1>14, <1>17, <1>23 DEF SameModel

-----------------------------------------------------------------------------
(* The members of a pass. *)

\* What a member is once its debt is paid.
SettledOne(s) == IF s.deferred THEN [Passed(s) EXCEPT !.deferred = FALSE] ELSE s

\* A member fit for a pass.
Fit(s) == ~s.cancel /\ MemberRefusal(s) = "OK"

\* A forward that has room and cannot fail has one outcome.
LEMMA RunStepIs ==
    ASSUME NEW s, RoomFor(s, 1)
    PROVE  RunStep(s, PendingToken(s), FALSE) = {Ok(Passed(s))}
BY DEF RunStep, Passed, Consumed

\* So has the settle of a session with a debt and room for it.
LEMMA SettleIs ==
    ASSUME NEW s, s.deferred = TRUE, RoomFor(s, 1)
    PROVE  Settle(s, FALSE) = {Ok([Passed(s) EXCEPT !.deferred = FALSE])}
<1>1. PICK a, t : a = Passed(s) /\ t = [a EXCEPT !.deferred = FALSE]
    OBVIOUS
<1>2. Settle(s, FALSE) = Then({Ok(a)}, LAMBDA x : {Ok([x EXCEPT !.deferred = FALSE])})
    BY <1>1, RunStepIs DEF Settle
<1>3. Ok(a).s = a /\ Ok(a).st = "OK"
    BY OkCounted
<1>4. Settle(s, FALSE) = {Ok(t)}
    BY <1>1, <1>2, <1>3 DEF Then
<1> QED
    BY <1>1, <1>4

\* A session at rest with pending logits, one forward later.
LEMMA AfterGood ==
    ASSUME NEW s, Good(s), RoomFor(s, 1), NEW a, a = Passed(s), NEW p, p = PendingToken(s)
    PROVE  /\ Good(a) /\ SameModel(s, a) /\ a.deferred = s.deferred /\ a.cancel = s.cancel /\ a.logitsValid
           /\ a.kvLen = s.kvLen + 1 /\ a.prefixLength = s.prefixLength /\ Grows(s, a, <<p>>)
<1>1. Core(s) /\ Current(s) /\ Typed(s) /\ Owes(s) /\ Settles(s)
    BY DEF Good, Rest, Held
<1>2. p \in Tokens /\ <<p>> \in Seq(Tokens) /\ Len(<<p>>) = 1
    BY <1>1 DEF Owes
<1>3. PICK f, o : f = FALSE /\ o = Ok(a)
    OBVIOUS
<1>4. o.s = a /\ o.st = "OK" /\ o.faults = 0
    BY <1>3, OkCounted
<1>5. o \in RunStep(s, p, f)
    BY <1>3, RunStepIs
<1>6. Core(a) /\ Current(a) /\ ~a.txn.active /\ SameModel(s, a) /\ a.logitsValid
    <2>1. /\ Core(o.s) /\ Current(o.s) /\ ~o.s.txn.active
          /\ SameModel(s, o.s) /\ o.s.deferred = s.deferred /\ o.s.cancel = s.cancel
          /\ o.st = "OK" => o.s.logitsValid
        BY <1>1, <1>2, <1>4, <1>5, RunStepCore
    <2> QED
        BY <1>4, <2>1
<1>7. Owes(a) /\ Grows(s, a, <<p>>) /\ a.deferred = s.deferred /\ a.cancel = s.cancel
    <2>1. /\ Typed(o.s) /\ Owes(o.s) /\ OnlyRecurrent(o.s)
          /\ o.s.deferred = s.deferred /\ o.s.cancel = s.cancel
          /\ o.st \in {"OK", "TOO_MANY_TOKENS", "BACKEND"}
          /\ o.st = "OK" => Grows(s, o.s, <<p>>) /\ o.s.logitsValid
          /\ o.st # "OK" => Grows(s, o.s, <<>>) /\ SameLogits(s, o.s)
        BY <1>1, <1>2, <1>5, RunStepGrows
    <2> QED
        BY <1>4, <2>1
<1>8. Settles(a)
    BY <1>1, <1>7 DEF Settles
<1>9. Good(a)
    BY <1>6, <1>7, <1>8 DEF Good, Rest, Held, Grows, OnlyRecurrent
<1>10. a.kvLen = s.kvLen + 1 /\ a.prefixLength = s.prefixLength
    BY <1>2, <1>7 DEF Grows
<1> QED
    BY <1>6, <1>7, <1>9, <1>10

\* A fit member, and what it is once settled.
LEMMA SettledFit ==
    ASSUME NEW s, Good(s), Fit(s), NEW t, t = SettledOne(s)
    PROVE  /\ Good(t) /\ Paid(t) /\ SameView(s, t) /\ RoomFor(s, 1) /\ RoomFor(t, 1)
           /\ s.logitsValid /\ t.logitsValid
           /\ Settle(s, FALSE) = {Ok(t)}
<1>1. Settles(s) /\ Typed(s) /\ Held(s)
    BY DEF Good, Held
<1>2. PICK k, M \in Nat : k = s.kvLen /\ M = s.maxLen
    BY <1>1, TypedNumbers
<1>3. s.logitsValid /\ RoomFor(s, IF s.deferred THEN 2 ELSE 1)
    BY DEF Fit, MemberRefusal
<1>4. CASE s.deferred = FALSE
    <2>1. t = s /\ Settle(s, FALSE) = {Ok(t)} /\ Paid(t) /\ RoomFor(s, 1)
        BY <1>3, <1>4 DEF SettledOne, Settle, Paid
    <2> QED
        BY <1>3, <2>1 DEF SameView, SameModel
<1>5. CASE s.deferred = TRUE
    <2>1. k + 2 <= M
        BY <1>2, <1>3, <1>5 DEF RoomFor
    <2>2. RoomFor(s, 1)
        BY <1>2, <2>1 DEF RoomFor
    <2>3. t = [Passed(s) EXCEPT !.deferred = FALSE]
        BY <1>5 DEF SettledOne
    <2>4. Settle(s, FALSE) = {Ok(t)}
        BY <1>5, <2>2, <2>3, SettleIs
    <2>5. PICK o : o = Ok(t)
        OBVIOUS
    <2>6. o \in Settle(s, FALSE) /\ o.s = t /\ o.st = "OK"
        BY <2>4, <2>5, OkCounted
    <2>7. Good(t) /\ SameView(s, t) /\ Paid(t)
        BY <2>6, SettleGood
    <2>8. PICK a, p : a = Passed(s) /\ p = PendingToken(s)
        OBVIOUS
    <2>9. a.kvLen = s.kvLen + 1 /\ a.maxLen = s.maxLen /\ IsSession(a) /\ a.logitsValid
        BY <2>2, <2>8, AfterGood DEF SameModel, Grows, Typed
    <2>10. t.kvLen = a.kvLen /\ t.maxLen = a.maxLen /\ t.logitsValid = a.logitsValid
        BY <2>3, <2>8, <2>9 DEF IsSession
    <2>11. RoomFor(t, 1)
        BY <1>2, <2>1, <2>9, <2>10 DEF RoomFor
    <2> QED
        BY <1>3, <2>2, <2>4, <2>7, <2>9, <2>10, <2>11
<1> QED
    BY <1>1, <1>4, <1>5 DEF Settles

\* A member of a pass that runs returns its pending token, and has it in its text.
LEMMA PassMoves ==
    ASSUME NEW s, Good(s), Fit(s), NEW t, t = SettledOne(s), NEW a, a = Passed(t), NEW p, p = PendingToken(t)
    PROVE  Good(a) /\ Moves(s, a, <<p>>)
<1>1. /\ Good(t) /\ Paid(t) /\ SameView(s, t) /\ RoomFor(t, 1) /\ t.logitsValid
    BY SettledFit
<1>2. /\ Good(a) /\ SameModel(t, a) /\ a.deferred = t.deferred /\ a.logitsValid
      /\ Grows(t, a, <<p>>)
    BY <1>1, AfterGood
<1>3. Typed(t) /\ Owes(t) /\ Current(t)
    BY <1>1 DEF Good, Rest, Held
<1>4. PICK q \in Seq(Tokens) : q = <<p>> /\ Len(q) = 1 /\ q[1] = p
    <2>1. p \in Tokens
        BY <1>3 DEF Owes
    <2>2. <<p>> \in Seq(Tokens) /\ Len(<<p>>) = 1 /\ <<p>>[1] = p
        BY <2>1
    <2> QED
        BY <2>2
<1>5. ~t.deferred /\ ~a.deferred
    BY <1>1, <1>2 DEF Paid
<1>6. Text(t) = Content(t) /\ Text(a) = Text(t) \o q /\ Text(t) \in Seq(Tokens)
    BY <1>2, <1>3, <1>4, <1>5, GrowsText
<1>7. Pin(a) = Pin(t)
    BY <1>2, <1>3, GrowsPin
<1>8. PICK o : o = Out(a, "OK", q, 0)
    OBVIOUS
<1>9. o.s = a /\ SaidBy(o) = q
    BY <1>8, OutCounted DEF SaidBy
<1>10. q[1] = Predict(Content(t))
    BY <1>1, <1>3, <1>4 DEF Current, PendingToken
<1>11. ASSUME NEW i \in 1 .. Len(q)
       PROVE  q[i] = Predict(Text(t) \o SubSeq(q, 1, i - 1))
    <2>1. i = 1 /\ i - 1 = 0
        BY <1>4
    <2>2. SubSeq(q, 1, 0) = <<>>
        <3>1. 0 \in 0 .. Len(q)
            BY <1>4
        <3>2. SubSeq(q, 1, 0) \in Seq(Tokens) /\ Len(SubSeq(q, 1, 0)) = 0
            BY <1>4, <3>1, CutText
        <3> QED
            BY <3>2, EmptySeq
    <2>3. Text(t) \o <<>> = Content(t)
        BY <1>6, ConcatNothing
    <2> QED
        BY <1>10, <2>1, <2>2, <2>3
<1>12. q # <<>>
    BY <1>4
<1>13. Speaks(t, o)
    BY <1>1, <1>2, <1>6, <1>7, <1>9, <1>11, <1>12 DEF Speaks, Emits
<1>14. Moves(s, o.s, SaidBy(o))
    BY <1>1, <1>13, UnseenThenSpeaks, SpeaksMoves
<1> QED
    BY <1>2, <1>4, <1>9, <1>14

-----------------------------------------------------------------------------
(* A pass that fails. *)

\* What a reset needs of a session to leave it as good as new.
Resettable(w) ==
    /\ Typed(w) /\ (w.recurrent => w.prefixLength = 0)
    /\ w.ckptBuf = [i \in 0 .. Slots - 1 |-> w.ckptBuf[i]]

\* As good as new, with the pinned beginning of s for its text.
Fresh(s, r) ==
    /\ Good(r) /\ Text(r) = Pin(s) /\ Pin(r) = Pin(s) /\ ~r.logitsValid
    /\ r.recurrent => r.rec = Content(r)

\* A reset does not ask what the recurrence or the checkpoints were.
LEMMA ResetFresh ==
    ASSUME NEW w, Resettable(w), NEW t, t = Reset(w)
    PROVE  Fresh(w, t)
<1>0. IsSession(w) /\ Typed(w)
    BY DEF Resettable, Typed
<1>1. /\ IsSession(t) /\ SameModel(w, t) /\ t.rows = w.rows /\ t.kvLen = w.prefixLength /\ t.rec = <<>>
      /\ t.prefixLength = w.prefixLength /\ t.deferred = FALSE /\ t.logitsValid = FALSE /\ ~t.txn.active
      /\ t.ckptLens = <<>> /\ t.ckptBase = 0 /\ t.ckptBuf = w.ckptBuf /\ t.pending = NoPending
    BY <1>0, ResetFields
<1>2. PICK k, p, L, M \in Nat : /\ k = w.kvLen /\ p = w.prefixLength /\ L = Len(w.rows) /\ M = w.maxLen
                                /\ p <= k /\ k <= L /\ k <= M
    BY <1>0, TypedNumbers
<1>3. Typed(t)
    <2>1. w.rows \in Seq(Tokens) /\ w.maxLen \in MaxLens
        BY <1>0 DEF Typed
    <2>2. p <= L /\ p <= M
        BY <1>2
    <2> QED
        BY <1>1, <1>2, <2>1, <2>2 DEF Typed, SameModel
<1>4. Absorbed(t)
    <2>1. ASSUME w.recurrent
          PROVE  t.rec = Content(t) /\ t.prefixLength = 0
        <3>1. w.prefixLength = 0
            BY <2>1 DEF Resettable
        <3>2. w.rows \in Seq(Tokens) /\ 0 \in 0 .. Len(w.rows)
            BY <1>0, <1>2 DEF Typed
        <3>3. SubSeq(w.rows, 1, 0) \in Seq(Tokens) /\ Len(SubSeq(w.rows, 1, 0)) = 0
            BY <3>2, CutText
        <3>4. SubSeq(w.rows, 1, 0) = <<>>
            BY <3>3, EmptySeq
        <3> QED
            BY <1>1, <3>1, <3>4 DEF Content
    <2> QED
        BY <1>1, <2>1 DEF Absorbed, SameModel
<1>5. Checkpoints(t)
    <2>1. w.ckptBuf = [i \in 0 .. Slots - 1 |-> w.ckptBuf[i]]
        BY DEF Resettable
    <2>2. <<>> \in Seq(Nat) /\ Len(<<>>) = 0
        OBVIOUS
    <2> QED
        BY <1>1, <2>1, <2>2, SessionConstants DEF Checkpoints
<1>6. Rest(t)
    BY <1>1, <1>3, <1>4, <1>5 DEF Rest, Core, Current
<1>7. Owes(t)
    <2>1. <<>> \in Seq(Tokens) /\ Len(<<>>) <= w.maxLen /\ w.maxLen \in MaxLens
        BY <1>0, <1>2 DEF Typed
    <2>2. Predict(<<>>) \in Tokens
        BY <2>1, PredictTyped
    <2>3. NoPending.on = <<>>
        BY DEF NoPending
    <2> QED
        BY <1>1, <2>2, <2>3 DEF Owes, PendingToken
<1>8. Good(t)
    BY <1>1, <1>3, <1>6, <1>7 DEF Good, Held, Settles, OnlyRecurrent
<1>9. Text(t) = Content(t) /\ Content(t) = Pin(w) /\ Pin(t) = Pin(w)
    <2>1. Text(t) = Content(t)
        BY <1>1, <1>3, <1>7, TextTyped
    <2> QED
        BY <1>1, <2>1 DEF Content, Pin
<1> QED
    BY <1>1, <1>4, <1>8, <1>9 DEF Fresh, Absorbed

\* A good session is resettable.
LEMMA GoodResettable ==
    ASSUME NEW s, Good(s)
    PROVE  Resettable(s)
BY DEF Good, Rest, Core, Absorbed, Checkpoints, Resettable

\* So is what a failing pass makes of it, and its pin is the same.
LEMMA WreckResettable ==
    ASSUME NEW s, Good(s), RoomFor(s, 1), NEW w \in Wrecks(s)
    PROVE  Resettable(w) /\ Pin(w) = Pin(s)
<1>0. Typed(s) /\ Owes(s) /\ IsSession(s) /\ Resettable(s)
    BY GoodResettable DEF Good, Held, Typed
<1>1. CASE w = s
    BY <1>0, <1>1
<1>2. CASE w = Passed(s)
    <2>1. PICK p : p = PendingToken(s)
        OBVIOUS
    <2>2. Good(w) /\ Grows(s, w, <<p>>)
        BY <1>2, <2>1, AfterGood
    <2> QED
        BY <1>0, <2>2, GoodResettable, GrowsPin
<1>3. CASE w \in Broken(Commit(s), <<PendingToken(s)>>)
    <2>0. PICK c : c = Commit(s)
        OBVIOUS
    <2>1. PICK p \in Tokens : p = PendingToken(s)
        BY <1>0 DEF Owes
    <2>2. PICK q \in Seq(Tokens) : q = <<p>>
        <3>1. <<p>> \in Seq(Tokens)
            OBVIOUS
        <3> QED
            BY <3>1
    <2>3. w \in Broken(c, q)
        BY <1>3, <2>0, <2>1, <2>2
    <2>4. /\ Grows(s, c, <<>>) /\ Typed(c) /\ c.prefixLength = s.prefixLength /\ SameModel(s, c)
        BY <1>0, <2>0, CommitGrows DEF Grows
    <2>5. c.ckptBuf = s.ckptBuf
        BY <1>0, <2>0, CommitFields DEF SameCkpts
    <2>6. Grows(c, w, <<>>) /\ w.ckptBuf = c.ckptBuf
        BY <2>3, <2>4, BrokenGrows
    <2>7. Typed(w) /\ w.prefixLength = c.prefixLength /\ SameModel(c, w)
        BY <2>6 DEF Grows
    <2>8. Pin(w) = Pin(c) /\ Pin(c) = Pin(s)
        BY <1>0, <2>4, <2>6, GrowsPin
    <2>9. Resettable(w)
        BY <1>0, <2>4, <2>5, <2>6, <2>7 DEF Resettable, SameModel
    <2> QED
        BY <2>8, <2>9
<1> QED
    BY <1>1, <1>2, <1>3 DEF Wrecks, Passed

\* Reset, it is fresh, and the same pinned beginning is left of it.
LEMMA WreckFresh ==
    ASSUME NEW s, Good(s), RoomFor(s, 1), NEW w \in Wrecks(s), NEW r, r = Reset(w)
    PROVE  Fresh(s, r)
<1>1. Resettable(w) /\ Pin(w) = Pin(s)
    BY WreckResettable
<1>2. Fresh(w, r)
    BY <1>1, ResetFresh
<1> QED
    BY <1>1, <1>2 DEF Fresh

\* The same without the wreck.
LEMMA GoodFresh ==
    ASSUME NEW s, Good(s), NEW r, r = Reset(s)
    PROVE  Fresh(s, r)
BY GoodResettable, ResetFresh

\* A fresh session is that of a reset.
LEMMA FreshMoves ==
    ASSUME NEW s, NEW t, SameView(s, t), NEW r, Fresh(t, r)
    PROVE  Fresh(s, r) /\ Moves(s, r, <<>>)
BY DEF Fresh, SameView, Moves

-----------------------------------------------------------------------------
(* The decode_step of a member. *)

\* A fit member's decode_step returns the token of the pass, and owes its forward:
LEMMA FitDecodes ==
    ASSUME NEW s, Good(s), Fit(s), NEW t, t = SettledOne(s), NEW d, d = [Commit(t) EXCEPT !.deferred = TRUE]
    PROVE  DecodeStep(s, FALSE) = {Out(d, "OK", <<PendingToken(t)>>, 0)}
<1>1. /\ t.logitsValid /\ RoomFor(t, 1) /\ Settle(s, FALSE) = {Ok(t)}
    BY SettledFit
<1>2. DecodeStep(s, FALSE) = Then({Ok(t)}, DecodeSettled)
    BY <1>1 DEF DecodeStep, Fit
<1>3. Ok(t).s = t /\ Ok(t).st = "OK"
    BY OkCounted
<1>4. DecodeStep(s, FALSE) = DecodeSettled(t)
    BY <1>2, <1>3 DEF Then
<1> QED
    BY <1>1, <1>4 DEF DecodeSettled

\* which, settled, is what the pass left.
LEMMA OwedSettles ==
    ASSUME NEW s, Good(s), Fit(s), NEW t, t = SettledOne(s), NEW d, d = [Commit(t) EXCEPT !.deferred = TRUE]
    PROVE  Settle(d, FALSE) = {Ok(Passed(t))}
<1>1. Good(t) /\ Paid(t) /\ RoomFor(t, 1)
    BY SettledFit
<1>2. IsSession(t) /\ t.deferred = FALSE
    BY <1>1 DEF Good, Held, Typed, Paid
<1>3. /\ IsSession(d) /\ d.deferred = TRUE /\ PendingToken(d) = PendingToken(t)
      /\ d.kvLen = t.kvLen /\ d.maxLen = t.maxLen
      /\ [Passed(d) EXCEPT !.deferred = FALSE] = Passed(t)
    BY ZenonT(30), <1>2, OwedIsRun
<1>4. RoomFor(d, 1)
    BY <1>1, <1>3 DEF RoomFor
<1> QED
    BY <1>3, <1>4, SettleIs

\* The step behind a settle that returned,
LEMMA SettledDecodes ==
    ASSUME NEW s, ~s.cancel, NEW t, Settle(s, FALSE) = {Ok(t)}
    PROVE  DecodeStep(s, FALSE) = DecodeSettled(t)
<1>1. DecodeStep(s, FALSE) = Then({Ok(t)}, DecodeSettled)
    BY DEF DecodeStep
<1>2. Ok(t).s = t /\ Ok(t).st = "OK"
    BY OkCounted
<1> QED
    BY <1>1, <1>2 DEF Then

\* A decode_step that would be refused.
Refuses(s) == \E x, st : st # "OK" /\ DecodeStep(s, FALSE) = {Out(x, st, <<>>, 0)}

\* A cancelled member's is,
LEMMA CancelledRefuses ==
    ASSUME NEW s, s.cancel
    PROVE  Refuses(s)
<1>1. PICK x : x = [s EXCEPT !.cancel = FALSE]
    OBVIOUS
<1>2. DecodeStep(s, FALSE) = {Out(x, "CANCELLED", <<>>, 0)}
    BY <1>1 DEF DecodeStep, Cancelled, Refused
<1> QED
    BY <1>2 DEF Refuses

\* and so is that of one that is not fit for a pass.
LEMMA UnfitRefuses ==
    ASSUME NEW s, Good(s), ~s.cancel, MemberRefusal(s) # "OK"
    PROVE  Refuses(s)
<1>1. Settles(s) /\ Typed(s) /\ (s.deferred => s.logitsValid)
    BY DEF Good, Held
<1>2. PICK k, M \in Nat : k = s.kvLen /\ M = s.maxLen
    BY <1>1, TypedNumbers
<1>3. ~s.logitsValid \/ ~RoomFor(s, IF s.deferred THEN 2 ELSE 1)
    BY DEF MemberRefusal
<1>4. DecodeStep(s, FALSE) = Then(Settle(s, FALSE), DecodeSettled)
    BY DEF DecodeStep
<1>5. ASSUME NEW t, Settle(s, FALSE) = {Ok(t)}, ~t.logitsValid \/ ~RoomFor(t, 1)
      PROVE  Refuses(s)
    <2>1. Ok(t).s = t /\ Ok(t).st = "OK"
        BY OkCounted
    <2>2. DecodeStep(s, FALSE) = DecodeSettled(t)
        BY <1>5, SettledDecodes
    <2>3. \/ DecodeSettled(t) = {Out(t, "INVALID_STATE", <<>>, 0)}
          \/ DecodeSettled(t) = {Out(Commit(t), "TOO_MANY_TOKENS", <<>>, 0)}
        BY <1>5 DEF DecodeSettled, Refused
    <2> QED
        BY <2>2, <2>3 DEF Refuses
<1>6. CASE s.deferred = FALSE
    <2>1. Settle(s, FALSE) = {Ok(s)}
        BY <1>6 DEF Settle
    <2> QED
        BY <1>3, <1>5, <1>6, <2>1
<1>7. CASE s.deferred = TRUE /\ ~RoomFor(s, 1)
    <2>1. PICK c, o : c = Commit(s) /\ o = Out(c, "TOO_MANY_TOKENS", <<>>, 0)
        OBVIOUS
    <2>2. RunStep(s, PendingToken(s), FALSE) = {o}
        BY <1>7, <2>1 DEF RunStep, Refused
    <2>3. o.st = "TOO_MANY_TOKENS"
        BY <2>1, OutCounted
    <2>4. Settle(s, FALSE) = {o}
        BY <1>7, <2>2, <2>3 DEF Settle, Then
    <2>5. DecodeStep(s, FALSE) = {o}
        BY <1>4, <2>3, <2>4 DEF Then
    <2> QED
        BY <2>1, <2>5 DEF Refuses
<1>8. CASE s.deferred = TRUE /\ RoomFor(s, 1)
    <2>1. PICK a, p : a = Passed(s) /\ p = PendingToken(s)
        OBVIOUS
    <2>2. PICK t : t = [a EXCEPT !.deferred = FALSE]
        OBVIOUS
    <2>3. Settle(s, FALSE) = {Ok(t)}
        BY <1>8, <2>1, <2>2, SettleIs
    <2>4. a.kvLen = s.kvLen + 1 /\ a.maxLen = s.maxLen /\ IsSession(a)
        BY <1>8, <2>1, AfterGood DEF SameModel, Grows, Typed
    <2>5. t.kvLen = k + 1 /\ t.maxLen = M
        BY <1>2, <2>2, <2>4 DEF IsSession
    <2>6. ~(k + 2 <= M)
        BY <1>1, <1>2, <1>3, <1>8 DEF RoomFor
    <2>7. ~RoomFor(t, 1)
        BY <1>2, <2>5, <2>6 DEF RoomFor
    <2> QED
        BY <1>5, <2>3, <2>7
<1> QED
    BY <1>1, <1>6, <1>7, <1>8 DEF Settles


-----------------------------------------------------------------------------
(* A batch and its members. *)

\* A batch is a tuple of members.
LEMMA BatchTyped ==
    ASSUME NEW q \in Batches
    PROVE  /\ \E n \in Nat : n > 0 /\ Len(q) = n /\ DOMAIN q = 1 .. n
           /\ \A i \in DOMAIN q : q[i] \in Members
           /\ In(q) \in SUBSET Members /\ q # <<>>
<1>1. PICK n \in 2 .. BatchMax + 1 : q \in [1 .. n -> Members]
    BY DEF Batches
<1>2. n \in Nat /\ n > 0
    BY <1>1, BatchConstants
<1>3. Len(q) = n /\ DOMAIN q = 1 .. n /\ \A i \in DOMAIN q : q[i] \in Members
    BY <1>1, <1>2
<1>4. In(q) \in SUBSET Members
    BY <1>3 DEF In
<1>5. q # <<>>
    BY <1>2, <1>3
<1> QED
    BY <1>2, <1>3, <1>4, <1>5

\* Of the places where something holds there is a first one.
LEMMA FirstPlace ==
    ASSUME NEW n \in Nat, NEW D \in SUBSET (1 .. n), D # {}
    PROVE  \E i \in D : \A j \in 1 .. i - 1 : j \notin D
<1>1. D \in SUBSET Nat
    OBVIOUS
<1>2. PICK i \in D : \A k \in D : i <= k
    BY <1>1, LeastNumber
<1> QED
    BY <1>2

\* No member is cancelled when none is the first.
LEMMA NoneCancelled ==
    ASSUME NEW q \in Batches, FirstCancelled(q) = {}
    PROVE  \A m \in In(q) : ~sess[m].cancel
<1>1. PICK n \in Nat : DOMAIN q = 1 .. n
    BY BatchTyped
<1> DEFINE D == {i \in 1 .. n : sess[q[i]].cancel}
<1>2. ASSUME D # {}
      PROVE  FALSE
    <2>1. D \in SUBSET (1 .. n)
        OBVIOUS
    <2>2. PICK i \in D : \A j \in 1 .. i - 1 : j \notin D
        <3> HIDE DEF D
        <3> QED
            BY <1>2, <2>1, FirstPlace
    <2>3. i \in DOMAIN q /\ sess[q[i]].cancel /\ \A j \in 1 .. i - 1 : ~sess[q[j]].cancel
        BY <1>1, <2>2
    <2> QED
        BY <2>3 DEF FirstCancelled
<1> QED
    BY <1>1, <1>2 DEF In

\* All are fit, and different, when none is the first that is not.
LEMMA AllFit ==
    ASSUME NEW q \in Batches, FirstUnfit(q) = {}
    PROVE  Distinct(q) /\ \A m \in In(q) : MemberRefusal(sess[m]) = "OK"
<1>1. PICK n \in Nat : DOMAIN q = 1 .. n
    BY BatchTyped
<1> DEFINE D == {i \in 1 .. n : Refusal(q, i) # "OK"}
<1>2. ASSUME D # {}
      PROVE  FALSE
    <2>1. D \in SUBSET (1 .. n)
        OBVIOUS
    <2>2. PICK i \in D : \A j \in 1 .. i - 1 : j \notin D
        <3> HIDE DEF D
        <3> QED
            BY <1>2, <2>1, FirstPlace
    <2>3. i \in DOMAIN q /\ Refusal(q, i) # "OK" /\ \A j \in 1 .. i - 1 : Refusal(q, j) = "OK"
        BY <1>1, <2>2
    <2> QED
        BY <2>3 DEF FirstUnfit
<1>3. \A i \in DOMAIN q : Refusal(q, i) = "OK"
    BY <1>1, <1>2
<1>4. \A i \in DOMAIN q : (\A j \in 1 .. i - 1 : q[j] # q[i]) /\ MemberRefusal(sess[q[i]]) = "OK"
    BY <1>3 DEF Refusal
<1>5. ASSUME NEW i \in DOMAIN q, NEW j \in DOMAIN q, q[i] = q[j], i # j
      PROVE  FALSE
    <2>1. i \in 1 .. j - 1 \/ j \in 1 .. i - 1
        BY <1>1, <1>5
    <2> QED
        BY <1>4, <1>5, <2>1
<1> QED
    BY <1>4, <1>5 DEF Distinct, In

\* The members of a pass that runs.
LEMMA RunsFit ==
    ASSUME NEW q \in Batches, Runs(q)
    PROVE  Distinct(q) /\ \A m \in In(q) : m \in Members /\ Fit(sess[m])
BY BatchTyped, NoneCancelled, AllFit DEF Runs, Fit

\* A debt put back is the same session.
LEMMA SameDebt ==
    ASSUME NEW s, IsSession(s)
    PROVE  [s EXCEPT !.deferred = s.deferred] = s
<1>1. PICK d : d = s.deferred
    OBVIOUS
<1>2. PICK t : t = [s EXCEPT !.deferred = d]
    OBVIOUS
<1>3. /\ IsSession(t) /\ SameModel(s, t) /\ SameText(s, t) /\ SameLogits(s, t) /\ SameCkpts(s, t)
      /\ t.prefixLength = s.prefixLength /\ t.mtp = s.mtp /\ t.deferred = d /\ t.txn = s.txn
      /\ t.rowsOff = s.rowsOff /\ t.cancel = s.cancel
    BY <1>2 DEF IsSession, SameModel, SameText, SameLogits, SameCkpts
<1>4. s = t
    BY <1>1, <1>3, SessionEqual
<1> QED
    BY <1>1, <1>2, <1>4

\* A request put back is the same session.
LEMMA SameRequest ==
    ASSUME NEW s, IsSession(s)
    PROVE  [s EXCEPT !.cancel = s.cancel] = s
<1>1. PICK d : d = s.cancel
    OBVIOUS
<1>2. PICK t : t = [s EXCEPT !.cancel = d]
    OBVIOUS
<1>3. /\ IsSession(t) /\ SameModel(s, t) /\ SameText(s, t) /\ SameLogits(s, t) /\ SameCkpts(s, t)
      /\ t.prefixLength = s.prefixLength /\ t.mtp = s.mtp /\ t.deferred = s.deferred /\ t.txn = s.txn
      /\ t.rowsOff = s.rowsOff /\ t.cancel = d
    BY <1>2 DEF IsSession, SameModel, SameText, SameLogits, SameCkpts
<1>4. s = t
    BY <1>1, <1>3, SessionEqual
<1> QED
    BY <1>1, <1>2, <1>4

\* The members as the forwards they owe leave them.
LEMMA SettledMembers ==
    ASSUME BInv, NEW q \in Batches, NEW m \in Members
    PROVE  SettleBatch(q)[m] = IF m \in In(q) THEN SettledOne(sess[m]) ELSE sess[m]
<1>1. PICK s : s = sess[m]
    OBVIOUS
<1>2. Good(s) /\ IsSession(s)
    BY <1>1 DEF BInv, Good, Held, Typed
<1>3. PICK b : b = Pass(sess, Owing(q))[m]
    OBVIOUS
<1>4. SettleBatch(q)[m] = [b EXCEPT !.deferred = IF m \in Owing(q) THEN FALSE ELSE @]
    BY <1>3 DEF SettleBatch
<1>5. b = IF m \in Owing(q) THEN Passed(s) ELSE s
    BY <1>1, <1>3 DEF Pass, Passed
<1>6. CASE m \in Owing(q)
    <2>1. m \in In(q) /\ s.deferred
        BY <1>1, <1>6 DEF Owing
    <2>2. SettleBatch(q)[m] = [Passed(s) EXCEPT !.deferred = FALSE]
        BY <1>4, <1>5, <1>6
    <2> QED
        BY <1>1, <2>1, <2>2 DEF SettledOne
<1>7. CASE m \notin Owing(q)
    <2>1. SettleBatch(q)[m] = [s EXCEPT !.deferred = s.deferred]
        BY <1>4, <1>5, <1>7
    <2>2. SettleBatch(q)[m] = s
        BY <1>2, <2>1, SameDebt
    <2>3. m \in In(q) => ~s.deferred
        BY <1>1, <1>7 DEF Owing
    <2> QED
        BY <1>1, <2>2, <2>3 DEF SettledOne
<1> QED
    BY <1>6, <1>7

\* A request to cancel moves nothing.
LEMMA RequestMoves ==
    ASSUME NEW s, Good(s), NEW x, NEW t, t = [s EXCEPT !.cancel = x]
    PROVE  /\ Good(t) /\ Text(t) = Text(s) /\ Pin(t) = Pin(s) /\ t.logitsValid = s.logitsValid
           /\ t.cancel = x /\ Moves(s, t, <<>>)
<1>1. /\ Good(t) /\ Text(t) = Text(s) /\ Pin(t) = Pin(s) /\ t.logitsValid = s.logitsValid
      /\ t.cancel = x
    BY RequestGood
<1> QED
    BY <1>1 DEF Moves

-----------------------------------------------------------------------------
(* What a batch does to the conversations of the members. *)

\* Members that are Good again and have moved have each taken a step of their own.
LEMMA BatchKeeps ==
    ASSUME BInv, NEW st, NEW tk, NEW q, out' = [st |-> st, toks |-> tk, batch |-> q],
           sess' = [m \in Members |-> sess'[m]],
           \A m \in Members : Good(sess'[m]) /\ Moves(sess[m], sess'[m], IF st = "OK" THEN tk[m] ELSE <<>>)
    PROVE  BInv' /\ \A m \in Members : Contract(m)!Next
<1>1. \A m \in Members : SaidTo(m)' = IF st = "OK" THEN tk[m] ELSE <<>>
    BY DEF SaidTo
<1>2. \A m \in Members : Moves(sess[m], sess'[m], SaidTo(m)')
    BY <1>1
<1> QED
    BY <1>2, GoodNext, MovesNext

\* A batch that is refused and touches no session.
LEMMA RefuseKeeps ==
    ASSUME BInv, NEW st, st # "OK", NEW q, Refuse(q, st), UNCHANGED sess
    PROVE  BInv' /\ \A m \in Members : Contract(m)!Next
<1>1. PICK tk : out' = [st |-> st, toks |-> tk, batch |-> q]
    BY DEF Refuse
<1>2. sess' = [m \in Members |-> sess'[m]]
    BY DEF BInv
<1>3. \A m \in Members : Good(sess'[m]) /\ Moves(sess[m], sess'[m], IF st = "OK" THEN tk[m] ELSE <<>>)
    BY StillMoves DEF BInv
<1> QED
    BY <1>1, <1>2, <1>3, BatchKeeps

\* One that is too large,
LEMMA TooLargeKeeps ==
    ASSUME BInv, NEW q \in Batches, BatchTooLarge(q)
    PROVE  BInv' /\ \A m \in Members : Contract(m)!Next
BY RefuseKeeps DEF BatchTooLarge

\* one with an unfit member,
LEMMA UnfitKeeps ==
    ASSUME BInv, NEW q \in Batches, BatchUnfit(q)
    PROVE  BInv' /\ \A m \in Members : Contract(m)!Next
<1>1. PICK i \in FirstUnfit(q) : Refuse(q, Refusal(q, i))
    BY DEF BatchUnfit
<1>2. PICK st : st = Refusal(q, i)
    OBVIOUS
<1>3. st # "OK" /\ Refuse(q, st) /\ UNCHANGED sess
    BY <1>1, <1>2 DEF FirstUnfit, BatchUnfit
<1> QED
    BY <1>3, RefuseKeeps

\* and one with a cancelled member, which reports and clears one request.
LEMMA CancelledKeeps ==
    ASSUME BInv, NEW q \in Batches, BatchCancelled(q)
    PROVE  BInv' /\ \A m \in Members : Contract(m)!Next
<1>1. PICK i \in FirstCancelled(q) : sess' = [sess EXCEPT ![q[i]].cancel = FALSE]
    BY DEF BatchCancelled
<1>2. PICK m \in Members : m = q[i]
    BY <1>1, BatchTyped DEF FirstCancelled
<1>3. PICK t : t = [sess[m] EXCEPT !.cancel = FALSE]
    OBVIOUS
<1>4. sess' = [sess EXCEPT ![m] = t]
    BY <1>1, <1>2, <1>3
<1>5. /\ sess' = [k \in Members |-> sess'[k]] /\ sess'[m] = t
      /\ \A k \in Members \ {m} : sess'[k] = sess[k]
    BY <1>4 DEF BInv
<1>6. Good(t) /\ Moves(sess[m], t, <<>>)
    BY <1>3, RequestMoves DEF BInv
<1>7. PICK st, tk : out' = [st |-> st, toks |-> tk, batch |-> q] /\ st # "OK"
    <2>1. PICK n, c : n = Nothing /\ c = "CANCELLED"
        OBVIOUS
    <2>2. out' = [st |-> c, toks |-> n, batch |-> q] /\ c # "OK"
        BY <2>1 DEF BatchCancelled, Refuse
    <2> QED
        BY <2>2
<1>8. \A k \in Members : Good(sess'[k]) /\ Moves(sess[k], sess'[k], IF st = "OK" THEN tk[k] ELSE <<>>)
    BY <1>5, <1>6, <1>7, StillMoves DEF BInv
<1> QED
    BY <1>5, <1>7, <1>8, BatchKeeps

\* What a batch that runs makes of the members.
LEMMA DecodedMembers ==
    ASSUME BInv, NEW q \in Batches, BatchDecode(q), NEW m \in Members
    PROVE  /\ sess' = [k \in Members |-> sess'[k]]
           /\ sess'[m] = IF m \in In(q) THEN Passed(SettledOne(sess[m])) ELSE sess[m]
           /\ \E tk : /\ out' = [st |-> "OK", toks |-> tk, batch |-> q]
                      /\ tk[m] = IF m \in In(q) THEN <<PendingToken(SettledOne(sess[m]))>> ELSE <<>>
<1>1. PICK ss : ss = SettleBatch(q)
    OBVIOUS
<1>2. ss[m] = IF m \in In(q) THEN SettledOne(sess[m]) ELSE sess[m]
    BY <1>1, SettledMembers
<1>3. PICK tk : tk = [k \in Members |-> IF k \in In(q) THEN <<PendingToken(ss[k])>> ELSE <<>>]
    OBVIOUS
<1>4. out' = [st |-> "OK", toks |-> tk, batch |-> q] /\ sess' = Pass(ss, In(q))
    BY <1>1, <1>3 DEF BatchDecode
<1>5. tk[m] = IF m \in In(q) THEN <<PendingToken(SettledOne(sess[m]))>> ELSE <<>>
    BY <1>2, <1>3
<1>6. sess' = [k \in Members |-> IF k \in In(q) THEN Passed(ss[k]) ELSE ss[k]]
    BY <1>4 DEF Pass, Passed
<1>7. sess'[m] = IF m \in In(q) THEN Passed(SettledOne(sess[m])) ELSE sess[m]
    BY <1>2, <1>6
<1>8. sess' = [k \in Members |-> sess'[k]]
    BY <1>6
<1> QED
    BY <1>4, <1>5, <1>7, <1>8

\* A batch that runs.
LEMMA BatchDecodeKeeps ==
    ASSUME BInv, NEW q \in Batches, BatchDecode(q)
    PROVE  BInv' /\ \A m \in Members : Contract(m)!Next
<1>1. PICK tk : out' = [st |-> "OK", toks |-> tk, batch |-> q]
    BY DEF BatchDecode
<1>2. Runs(q)
    BY DEF BatchDecode
<1>3. sess' = [k \in Members |-> sess'[k]]
    BY DEF BatchDecode, Pass
<1>4. ASSUME NEW m \in Members
      PROVE  Good(sess'[m]) /\ Moves(sess[m], sess'[m], tk[m])
    <2>1. /\ sess'[m] = IF m \in In(q) THEN Passed(SettledOne(sess[m])) ELSE sess[m]
          /\ tk[m] = IF m \in In(q) THEN <<PendingToken(SettledOne(sess[m]))>> ELSE <<>>
        BY <1>1, DecodedMembers
    <2>2. CASE m \in In(q)
        <3>1. Good(sess[m]) /\ Fit(sess[m])
            BY <1>2, <2>2, RunsFit DEF BInv
        <3> QED
            BY <2>1, <2>2, <3>1, PassMoves
    <2>3. CASE m \notin In(q)
        BY <2>1, <2>3, StillMoves DEF BInv
    <2> QED
        BY <2>2, <2>3
<1> QED
    BY <1>1, <1>3, <1>4, BatchKeeps

\* A batch that fails leaves its members fresh and the others alone.
LEMMA FailedMembers ==
    ASSUME BInv, NEW q \in Batches, BatchFails(q), NEW m \in Members
    PROVE  IF m \in In(q) THEN Fresh(sess[m], sess'[m]) /\ Moves(sess[m], sess'[m], <<>>)
           ELSE sess'[m] = sess[m]
<1> DEFINE Of(first) == IF first THEN Owing(q) ELSE In(q)
           Before(first) == IF first THEN sess ELSE SettleBatch(q)
<1>1. PICK first \in {TRUE, FALSE} : \E wrecked \in [Of(first) -> UNION {Wrecks(Before(first)[k]) : k \in Of(first)}] :
          /\ \A k \in Of(first) : wrecked[k] \in Wrecks(Before(first)[k])
          /\ sess' = ResetMembers(q, [k \in Members |-> IF k \in Of(first) THEN wrecked[k] ELSE Before(first)[k]])
    BY DEF BatchFails
<1>2. PICK Q, before : Q = Of(first) /\ before = Before(first)
    OBVIOUS
<1>3. PICK wrecked :
          /\ \A k \in Q : wrecked[k] \in Wrecks(before[k])
          /\ sess' = ResetMembers(q, [k \in Members |-> IF k \in Q THEN wrecked[k] ELSE before[k]])
    BY <1>1, <1>2
<1>4. /\ Q = IF first THEN Owing(q) ELSE In(q)
      /\ before = IF first THEN sess ELSE SettleBatch(q)
    BY <1>2
<1> HIDE DEF Of, Before
<1>5. PICK s, b, w, r : s = sess[m] /\ b = before[m] /\ w = wrecked[m] /\ r = sess'[m]
    OBVIOUS
<1>6. r = IF m \in In(q) THEN Reset(IF m \in Q THEN w ELSE b) ELSE (IF m \in Q THEN w ELSE b)
    BY <1>5, <1>3 DEF ResetMembers
<1>7. m \in Q => m \in In(q)
    BY <1>4 DEF Owing
<1>8. b = IF first THEN s ELSE IF m \in In(q) THEN SettledOne(s) ELSE s
    BY <1>4, <1>5, SettledMembers
<1>9. CASE m \notin In(q)
    BY <1>5, <1>6, <1>7, <1>8, <1>9
<1>10. CASE m \in In(q)
    <2>1. Good(s) /\ Fit(s)
        BY <1>5, <1>10, RunsFit DEF BInv, BatchFails
    <2>2. Good(b) /\ RoomFor(b, 1) /\ SameView(s, b)
        <3>1. PICK t : t = SettledOne(s)
            OBVIOUS
        <3>2. Good(t) /\ SameView(s, t) /\ RoomFor(s, 1) /\ RoomFor(t, 1)
            BY <2>1, <3>1, SettledFit
        <3>3. SameView(s, s)
            BY DEF SameView, SameModel
        <3> QED
            BY <1>8, <1>10, <2>1, <3>1, <3>2, <3>3
    <2>3. CASE m \in Q
        <3>1. w \in Wrecks(b) /\ r = Reset(w)
            BY <1>5, <1>3, <1>6, <1>10, <2>3
        <3>2. Fresh(b, r)
            BY <2>2, <3>1, WreckFresh
        <3> QED
            BY <1>5, <1>10, <2>2, <3>2, FreshMoves
    <2>4. CASE m \notin Q
        <3>1. r = Reset(b)
            BY <1>6, <1>10, <2>4
        <3>2. Fresh(b, r)
            BY <2>2, <3>1, GoodFresh
        <3> QED
            BY <1>5, <1>10, <2>2, <3>2, FreshMoves
    <2> QED
        BY <2>3, <2>4
<1> QED
    BY <1>9, <1>10

\* A batch that fails.
LEMMA BatchFailsKeeps ==
    ASSUME BInv, NEW q \in Batches, BatchFails(q)
    PROVE  BInv' /\ \A m \in Members : Contract(m)!Next
<1>1. PICK st, tk : out' = [st |-> st, toks |-> tk, batch |-> q] /\ st # "OK"
    <2>1. PICK n, c : n = Nothing /\ c = "BACKEND"
        OBVIOUS
    <2>2. out' = [st |-> c, toks |-> n, batch |-> q] /\ c # "OK"
        BY <2>1 DEF BatchFails
    <2> QED
        BY <2>2
<1>2. sess' = [k \in Members |-> sess'[k]]
    BY DEF BatchFails, ResetMembers
<1>3. \A m \in Members : Good(sess'[m]) /\ Moves(sess[m], sess'[m], IF st = "OK" THEN tk[m] ELSE <<>>)
    BY <1>1, FailedMembers, StillMoves DEF BInv, Fresh
<1> QED
    BY <1>1, <1>2, <1>3, BatchKeeps

-----------------------------------------------------------------------------
(* The calls of one member. *)

\* The tokens of a prompt.
LEMMA PromptsTyped ==
    ASSUME NEW n, NEW ids \in Prompts(n)
    PROVE  ids \in Seq(Tokens)
<1>1. PICK m \in 1 .. n : ids \in [1 .. m -> Tokens]
    BY DEF Prompts
<1>2. m \in Nat
    BY <1>1
<1> QED
    BY <1>1, <1>2, SeqDef

\* No call of one member is a batch.
LEMMA CallNoBatch ==
    ASSUME NEW m, NEW outs, Call(m, outs)
    PROVE  out'.batch = <<>>
BY DEF Call

\* geist_session_prefill,
LEMMA PrefillKeeps ==
    ASSUME BInv, NEW m \in Members, Prefill(m)
    PROVE  BInv' /\ (\A k \in Members : Contract(k)!Next) /\ out'.batch = <<>>
<1>1. PICK ids \in Prompts(MaxPrompt) :
          Call(m, Then(Settle(sess[m], FALSE), LAMBDA s : PrefillOnce(s, ids, FALSE)))
    BY DEF Prefill
<1>2. PICK outs, z : /\ z = sess[m]
                     /\ outs = Then(Settle(z, FALSE), LAMBDA s : PrefillOnce(s, ids, FALSE))
    OBVIOUS
<1>3. Call(m, outs)
    BY <1>1, <1>2
<1>4. Good(z) /\ ids \in Seq(Tokens)
    BY <1>2, PromptsTyped DEF BInv
<1>5. \A o \in outs : Good(o.s) /\ Moves(z, o.s, SaidBy(o))
    BY <1>2, <1>4, PrefillGood
<1>6. \A o \in outs : Good(o.s) /\ Moves(sess[m], o.s, SaidBy(o))
    BY <1>2, <1>5
<1> QED
    BY <1>3, <1>6, CallKeeps, CallNoBatch

\* decode_step,
LEMMA DecodeKeeps ==
    ASSUME BInv, NEW m \in Members, Decode(m)
    PROVE  BInv' /\ (\A k \in Members : Contract(k)!Next) /\ out'.batch = <<>>
<1>1. PICK outs : outs = DecodeStep(sess[m], FALSE)
    OBVIOUS
<1>2. Call(m, outs)
    BY <1>1 DEF Decode
<1>3. \A o \in outs : Good(o.s) /\ Moves(sess[m], o.s, SaidBy(o))
    BY <1>1, DecodeMoves DEF BInv
<1> QED
    BY <1>2, <1>3, CallKeeps, CallNoBatch

\* verify_drafts,
LEMMA VerifyKeeps ==
    ASSUME BInv, NEW m \in Members, Verify(m)
    PROVE  BInv' /\ (\A k \in Members : Contract(k)!Next) /\ out'.batch = <<>>
<1>1. PICK guesses \in Prompts(MaxGuesses) : Call(m, VerifyDrafts(sess[m], guesses, FALSE))
    BY DEF Verify
<1>2. PICK outs : outs = VerifyDrafts(sess[m], guesses, FALSE)
    OBVIOUS
<1>3. guesses \in Seq(Tokens)
    BY PromptsTyped
<1>4. \A o \in outs : Good(o.s) /\ Moves(sess[m], o.s, SaidBy(o))
    BY <1>2, <1>3, VerifyGood DEF BInv
<1> QED
    BY <1>1, <1>2, <1>4, CallKeeps, CallNoBatch

\* reset,
LEMMA ResetKeeps ==
    ASSUME BInv, NEW m \in Members, ResetSession(m)
    PROVE  BInv' /\ (\A k \in Members : Contract(k)!Next) /\ out'.batch = <<>>
<1>1. PICK outs : outs = {Ok(Reset(sess[m]))}
    OBVIOUS
<1>2. Call(m, outs)
    BY <1>1 DEF ResetSession
<1>3. \A o \in outs : Good(o.s) /\ Moves(sess[m], o.s, SaidBy(o))
    BY <1>1, ResetGood DEF BInv
<1> QED
    BY <1>2, <1>3, CallKeeps, CallNoBatch

\* and pin_prefix.
LEMMA PinKeeps ==
    ASSUME BInv, NEW m \in Members, PinPrefix(m)
    PROVE  BInv' /\ (\A k \in Members : Contract(k)!Next) /\ out'.batch = <<>>
<1> DEFINE pin(s, ids) ==
               IF ids = <<>> THEN {Ok(Reset([s EXCEPT !.prefixLength = 0]))}
               ELSE IF s.recurrent THEN Refused(s, "UNSUPPORTED")
               ELSE Then(PrefillOnce(Reset([s EXCEPT !.prefixLength = 0]), ids, FALSE),
                         LAMBDA x : {Ok([x EXCEPT !.prefixLength = x.kvLen])})
<1>1. PICK ids \in {<<>>} \cup (IF Text(sess[m]) = <<>> THEN Prompts(1) ELSE {}) :
          Call(m, Then(Settle(sess[m], FALSE), LAMBDA s : pin(s, ids)))
    BY DEF PinPrefix
<1>2. ids \in Seq(Tokens) /\ (ids = <<>> \/ Text(sess[m]) = <<>>)
    <2>1. ids = <<>> \/ (Text(sess[m]) = <<>> /\ ids \in Prompts(1))
        OBVIOUS
    <2>2. <<>> \in Seq(Tokens)
        OBVIOUS
    <2>3. ids \in Prompts(1) => ids \in Seq(Tokens)
        BY PromptsTyped
    <2> QED
        BY <2>1, <2>2, <2>3
<1>3. PICK outs, z : z = sess[m] /\ outs = Then(Settle(z, FALSE), LAMBDA s : pin(s, ids))
    OBVIOUS
<1>4. Call(m, outs) /\ Good(z) /\ (ids = <<>> \/ Text(z) = <<>>)
    BY <1>1, <1>2, <1>3 DEF BInv
<1>5. ASSUME NEW o \in outs
      PROVE  Good(o.s) /\ Moves(z, o.s, SaidBy(o))
    <2>1. PICK x \in Settle(z, FALSE) : IF x.st = "OK" THEN o \in pin(x.s, ids) ELSE o = x
        BY <1>3, <1>5 DEF Then
    <2>2. /\ Good(x.s) /\ SameView(z, x.s) /\ SaidBy(x) = <<>> /\ Speaks(z, x)
        BY <1>4, SettleGood
    <2>3. CASE x.st # "OK"
        BY <2>1, <2>2, <2>3, SpeaksMoves
    <2>4. CASE x.st = "OK"
        <3>1. PICK t, e : t = x.s /\ IsEmptied(t, e)
            BY DEF IsEmptied
        <3>2. PinOutcome(t, e, ids, o)
            BY <2>1, <2>4, <3>1 DEF PinOutcome, IsEmptied
        <3>3. Good(t) /\ SameView(z, t)
            BY <2>2, <3>1
        <3> QED
            BY <1>2, <1>4, <3>1, <3>2, <3>3, PinSettledGood
    <2> QED
        BY <2>3, <2>4
<1>6. \A o \in outs : Good(o.s) /\ Moves(sess[m], o.s, SaidBy(o))
    BY <1>3, <1>5
<1> QED
    BY <1>4, <1>6, CallKeeps, CallNoBatch

\* A request to cancel is no step of any conversation.
LEMMA CancelKeeps ==
    ASSUME BInv, NEW m \in Members, Cancel(m)
    PROVE  BInv' /\ \A k \in Members : UNCHANGED Contract(k)!vars
<1>1. PICK t : t = [sess[m] EXCEPT !.cancel = TRUE]
    OBVIOUS
<1>2. sess' = [sess EXCEPT ![m] = t] /\ UNCHANGED out
    BY <1>1 DEF Cancel
<1>3. /\ sess' = [k \in Members |-> sess'[k]] /\ sess'[m] = t
      /\ \A k \in Members \ {m} : sess'[k] = sess[k]
    BY <1>2 DEF BInv
<1>4. /\ Good(t) /\ Text(t) = Text(sess[m]) /\ Pin(t) = Pin(sess[m])
      /\ t.logitsValid = sess[m].logitsValid
    <2>1. PICK s : s = sess[m]
        OBVIOUS
    <2>2. Good(s) /\ t = [s EXCEPT !.cancel = TRUE]
        BY <1>1, <2>1 DEF BInv
    <2>3. Good(t) /\ Text(t) = Text(s) /\ Pin(t) = Pin(s) /\ t.logitsValid = s.logitsValid
        BY <2>2, RequestMoves
    <2> QED
        BY <2>1, <2>3
<1>5. \A k \in Members : Good(sess'[k])
    BY <1>3, <1>4 DEF BInv
<1>6. ASSUME NEW k \in Members
      PROVE  UNCHANGED Contract(k)!vars
    <2>1. PICK s, r : s = sess[k] /\ r = sess'[k]
        OBVIOUS
    <2>2. Text(r) = Text(s) /\ Pin(r) = Pin(s) /\ r.logitsValid = s.logitsValid
        BY <1>3, <1>4, <2>1
    <2>3. /\ Text(sess[k])' = Text(r) /\ Pin(sess[k])' = Pin(r) /\ (sess[k].logitsValid)' = r.logitsValid
        BY <2>1 DEF Text, Content, PendingToken, Pin
    <2>4. /\ Text(sess[k])' = Text(sess[k]) /\ (sess[k].logitsValid)' = sess[k].logitsValid
          /\ SubSeq(sess[k].rows, 1, sess[k].prefixLength)' = SubSeq(sess[k].rows, 1, sess[k].prefixLength)
        BY <2>1, <2>2, <2>3 DEF Pin
    <2> QED
        BY <1>2, <2>4 DEF Contract!vars
<1> QED
    BY <1>3, <1>5, <1>6, GoodNext

\* The members start good,
LEMMA InitGood == Init => BInv
<1> SUFFICES ASSUME Init PROVE BInv
    OBVIOUS
<1>1. PICK d \in Models : sess = [b \in Members |-> NewSession(d)]
    BY DEF Init
<1>2. PICK s : s = NewSession(d)
    OBVIOUS
<1>3. Good(s)
    BY <1>2, NewSessionGood
<1>4. sess = [m \in Members |-> sess[m]] /\ \A m \in Members : sess[m] = s
    BY <1>1, <1>2
<1> QED
    BY <1>3, <1>4 DEF BInv

\* with nothing said.
LEMMA InitConverses == Init => \A m \in Members : Contract(m)!Init
<1> SUFFICES ASSUME Init, NEW m \in Members PROVE Contract(m)!Init
    OBVIOUS
<1>1. PICK d \in Models : sess = [b \in Members |-> NewSession(d)]
    BY DEF Init
<1>2. sess[m] = NewSession(d)
    BY <1>1
<1>3. /\ sess[m].rows = <<>> /\ sess[m].kvLen = 0 /\ sess[m].prefixLength = 0
      /\ sess[m].logitsValid = FALSE /\ sess[m].deferred = FALSE
    BY <1>2 DEF NewSession
<1>4. SubSeq(<<>>, 1, 0) = <<>> /\ <<>> \o <<>> = <<>>
    OBVIOUS
<1>5. Text(sess[m]) = <<>> /\ SubSeq(sess[m].rows, 1, sess[m].prefixLength) = <<>>
    BY <1>3, <1>4 DEF Text, Content
<1>6. out.toks[m] = <<>>
    BY DEF Init, Nothing
<1> QED
    BY <1>3, <1>5, <1>6 DEF Contract!Init, Contract!NoImage

\* Every step keeps the members good, and is a step, or none, of each conversation.
LEMMA EveryStep ==
    ASSUME BInv, [Next]_vars
    PROVE  BInv' /\ \A m \in Members : [Contract(m)!Next]_(Contract(m)!vars)
<1>1. CASE UNCHANGED vars
    <2>1. sess' = sess /\ out' = out
        BY <1>1 DEF vars
    <2>2. BInv'
        BY <2>1, GoodNext DEF BInv
    <2>3. \A m \in Members : UNCHANGED Contract(m)!vars
        BY <2>1 DEF Contract!vars, Text, Content, PendingToken
    <2> QED
        BY <2>2, <2>3
<1>2. ASSUME NEW q \in Batches,
             BatchTooLarge(q) \/ BatchCancelled(q) \/ BatchUnfit(q) \/ BatchDecode(q) \/ BatchFails(q)
      PROVE  BInv' /\ \A m \in Members : Contract(m)!Next
    BY <1>2, TooLargeKeeps, CancelledKeeps, UnfitKeeps, BatchDecodeKeeps, BatchFailsKeeps
<1>3. ASSUME NEW m \in Members, Prefill(m) \/ PinPrefix(m) \/ Decode(m) \/ Verify(m) \/ ResetSession(m)
      PROVE  BInv' /\ \A k \in Members : Contract(k)!Next
    BY <1>3, PrefillKeeps, PinKeeps, DecodeKeeps, VerifyKeeps, ResetKeeps
<1>4. ASSUME NEW m \in Members, Cancel(m)
      PROVE  BInv' /\ \A k \in Members : UNCHANGED Contract(k)!vars
    BY <1>4, CancelKeeps
<1>5. CASE Next
    <2>1. \/ \E q \in Batches : BatchTooLarge(q) \/ BatchCancelled(q) \/ BatchUnfit(q) \/ BatchDecode(q) \/ BatchFails(q)
          \/ \E m \in Members : Prefill(m) \/ PinPrefix(m) \/ Decode(m) \/ Verify(m) \/ ResetSession(m)
          \/ \E m \in Members : Cancel(m)
        BY <1>5 DEF Next, DecodeBatch
    <2> QED
        BY <1>2, <1>3, <1>4, <2>1
<1> QED
    BY <1>1, <1>5

-----------------------------------------------------------------------------
(* The results. *)

\* Between two steps every member is Good: its recurrence has absorbed exactly its
\* cached text, its checkpoints and pending logits are of that text, and its debt has
\* a token to feed, although passes have failed over it.
THEOREM MembersStayGood == Spec => []BInv
<1>1. BInv /\ [Next]_vars => BInv'
    BY EveryStep
<1> QED
    BY <1>1, InitGood, PTL DEF Spec

\* Whatever is batched and whatever fails, each member is a Conversation.
THEOREM EachAlwaysConverses == Spec => EachIsAConversation
<1>1. BInv /\ [Next]_vars => [\A m \in Members : [Contract(m)!Next]_(Contract(m)!vars)]_vars
    BY EveryStep
<1> QED
    BY <1>1, InitConverses, MembersStayGood, PTL DEF Spec, EachIsAConversation

-----------------------------------------------------------------------------
(* A batch is the decode_steps of its members. *)

\* The outcome of a member's own decode_step.
StepOf(s) == CHOOSE o \in DecodeStep(s, FALSE) : TRUE

\* It has only one.
LEMMA OneOutcome ==
    ASSUME NEW s, NEW o, DecodeStep(s, FALSE) = {o}
    PROVE  StepOf(s) = o
BY DEF StepOf

\* A refused member's is no success.
LEMMA RefusedStep ==
    ASSUME NEW s, Refuses(s)
    PROVE  StepOf(s).st # "OK"
<1>1. PICK x, st : st # "OK" /\ DecodeStep(s, FALSE) = {Out(x, st, <<>>, 0)}
    BY DEF Refuses
<1>2. PICK o : o = Out(x, st, <<>>, 0)
    OBVIOUS
<1>3. StepOf(s) = o
    BY <1>1, <1>2, OneOutcome
<1> QED
    BY <1>1, <1>2, <1>3, OutCounted

\* A fit member's returns the token of the pass and, settled, is what the pass leaves.
LEMMA FitStep ==
    ASSUME NEW s, Good(s), Fit(s), NEW t, t = SettledOne(s)
    PROVE  /\ StepOf(s).st = "OK" /\ StepOf(s).toks = <<PendingToken(t)>>
           /\ Settled(StepOf(s)) = {Passed(t)}
<1>1. PICK d : d = [Commit(t) EXCEPT !.deferred = TRUE]
    OBVIOUS
<1>2. PICK o, p, a : o = Out(d, "OK", p, 0) /\ p = <<PendingToken(t)>> /\ a = Passed(t)
    OBVIOUS
<1>3. StepOf(s) = o
    BY <1>1, <1>2, FitDecodes, OneOutcome
<1>4. o.s = d /\ o.st = "OK" /\ o.toks = p
    BY <1>2, OutCounted
<1>5. Settle(d, FALSE) = {Ok(a)}
    BY <1>1, <1>2, OwedSettles
<1>6. Ok(a).s = a
    BY OkCounted
<1>7. Settled(o) = {a}
    BY <1>4, <1>5, <1>6 DEF Settled
<1> QED
    BY <1>2, <1>3, <1>4, <1>7

\* What is promised of a batch that ran,
RanWhole(q) ==
    /\ Distinct(q) /\ \A m \in In(q) : StepOf(sess[m]).st = "OK"
    /\ \A m \in In(q) : /\ out'.toks[m] = StepOf(sess[m]).toks
                        /\ {sess'[m]} = Settled(StepOf(sess[m]))
\* of one that failed,
FailedWhole(q) ==
    \A m \in In(q) : /\ Text(sess'[m]) = SubSeq(sess[m].rows, 1, sess[m].prefixLength)
                     /\ sess'[m].recurrent => sess'[m].rec = Content(sess'[m])
                     /\ ~sess'[m].logitsValid
\* and of one that was refused.
RefusedWhole(q) ==
    /\ ~Distinct(q) \/ ~(\A m \in In(q) : StepOf(sess[m]).st = "OK") \/ Len(q) > BatchMax
    /\ \A m \in Members : sess'[m] = [sess[m] EXCEPT !.cancel = sess'[m].cancel]
    /\ \A m, k \in Members : (sess'[m] # sess[m] /\ sess'[k] # sess[k]) => m = k
Whole == (out'.batch # <<>> /\ out' # out) =>
            CASE out'.st = "OK" -> RanWhole(out'.batch)
              [] out'.st = "BACKEND" -> FailedWhole(out'.batch)
              [] OTHER -> RefusedWhole(out'.batch)

\* A batch that runs.
LEMMA RanIsWhole ==
    ASSUME BInv, NEW q \in Batches, BatchDecode(q)
    PROVE  Whole
<1>1. PICK tk : out' = [st |-> "OK", toks |-> tk, batch |-> q]
    BY DEF BatchDecode
<1>2. out'.st = "OK" /\ out'.batch = q /\ out'.toks = tk
    BY <1>1
<1>3. Distinct(q) /\ \A m \in In(q) : m \in Members /\ Fit(sess[m])
    BY RunsFit DEF BatchDecode
<1>4. ASSUME NEW m \in In(q)
      PROVE  /\ StepOf(sess[m]).st = "OK" /\ tk[m] = StepOf(sess[m]).toks
             /\ {sess'[m]} = Settled(StepOf(sess[m]))
    <2>1. PICK s, t : s = sess[m] /\ t = SettledOne(s)
        OBVIOUS
    <2>2. Good(s) /\ Fit(s) /\ m \in Members
        BY <1>3, <2>1 DEF BInv
    <2>3. /\ StepOf(s).st = "OK" /\ StepOf(s).toks = <<PendingToken(t)>>
          /\ Settled(StepOf(s)) = {Passed(t)}
        BY <2>1, <2>2, FitStep
    <2>4. sess'[m] = Passed(t) /\ tk[m] = <<PendingToken(t)>>
        BY <1>1, <2>1, <2>2, DecodedMembers
    <2> QED
        BY <2>1, <2>3, <2>4
<1>5. RanWhole(q)
    BY <1>2, <1>3, <1>4 DEF RanWhole
<1> QED
    BY <1>2, <1>5 DEF Whole

\* A batch that fails.
LEMMA FailedIsWhole ==
    ASSUME BInv, NEW q \in Batches, BatchFails(q)
    PROVE  Whole
<1>1. out'.st = "BACKEND" /\ out'.batch = q
    BY DEF BatchFails
<1>2. ASSUME NEW m \in In(q)
      PROVE  /\ Text(sess'[m]) = SubSeq(sess[m].rows, 1, sess[m].prefixLength)
             /\ sess'[m].recurrent => sess'[m].rec = Content(sess'[m])
             /\ ~sess'[m].logitsValid
    <2>1. m \in Members
        BY BatchTyped
    <2>2. Fresh(sess[m], sess'[m])
        BY <2>1, FailedMembers
    <2> QED
        BY <2>2 DEF Fresh, Pin
<1>3. FailedWhole(q)
    BY <1>2 DEF FailedWhole
<1> QED
    BY <1>1, <1>3 DEF Whole

\* Sessions left alone differ at most in the request.
LEMMA StillSame ==
    ASSUME BInv, UNCHANGED sess, NEW q,
           ~Distinct(q) \/ ~(\A m \in In(q) : StepOf(sess[m]).st = "OK") \/ Len(q) > BatchMax
    PROVE  RefusedWhole(q)
<1>1. ASSUME NEW m \in Members
      PROVE  sess'[m] = [sess[m] EXCEPT !.cancel = sess'[m].cancel]
    <2>1. PICK s : s = sess[m]
        OBVIOUS
    <2>2. sess'[m] = s /\ IsSession(s)
        BY <2>1 DEF BInv, Good, Held, Typed
    <2>3. [s EXCEPT !.cancel = s.cancel] = s
        BY <2>2, SameRequest
    <2> QED
        BY <2>1, <2>2, <2>3
<1> QED
    BY <1>1 DEF RefusedWhole

\* What a refusal reports is no success and no failure.
LEMMA RefusalWhole ==
    ASSUME NEW q, NEW st, Refuse(q, st), st \notin {"OK", "BACKEND"}, RefusedWhole(q)
    PROVE  Whole
<1>1. out'.st = st /\ out'.batch = q
    BY DEF Refuse
<1> QED
    BY <1>1 DEF Whole

\* A batch that is too large.
LEMMA TooLargeIsWhole ==
    ASSUME BInv, NEW q \in Batches, BatchTooLarge(q)
    PROVE  Whole
BY StillSame, RefusalWhole DEF BatchTooLarge

\* A batch with an unfit member.
LEMMA UnfitIsWhole ==
    ASSUME BInv, NEW q \in Batches, BatchUnfit(q)
    PROVE  Whole
<1>1. PICK i \in FirstUnfit(q) : Refuse(q, Refusal(q, i))
    BY DEF BatchUnfit
<1>2. PICK st : st = Refusal(q, i)
    OBVIOUS
<1>3. i \in DOMAIN q /\ st # "OK"
    BY <1>1, <1>2 DEF FirstUnfit
<1>4. PICK m \in In(q) : m = q[i] /\ m \in Members
    BY <1>3, BatchTyped DEF In
<1>5. st = IF \E j \in 1 .. i - 1 : q[j] = q[i] THEN "INVALID_ARG" ELSE MemberRefusal(sess[m])
    BY <1>2, <1>4 DEF Refusal
<1>6. st \notin {"OK", "BACKEND"}
    BY <1>3, <1>5 DEF MemberRefusal
<1>7. ASSUME NEW j \in 1 .. i - 1, q[j] = q[i]
      PROVE  ~Distinct(q)
    <2>1. j \in DOMAIN q /\ j # i
        BY <1>3, BatchTyped
    <2> QED
        BY <1>3, <1>7, <2>1 DEF Distinct
<1>8. ASSUME MemberRefusal(sess[m]) # "OK"
      PROVE  StepOf(sess[m]).st # "OK"
    <2>1. PICK s : s = sess[m]
        OBVIOUS
    <2>2. Good(s) /\ ~s.cancel /\ MemberRefusal(s) # "OK"
        BY <1>4, <1>8, <2>1, NoneCancelled DEF BInv, BatchUnfit
    <2> QED
        BY <2>1, <2>2, UnfitRefuses, RefusedStep
<1>9. ~Distinct(q) \/ ~(\A k \in In(q) : StepOf(sess[k]).st = "OK")
    BY <1>3, <1>4, <1>5, <1>7, <1>8
<1>10. RefusedWhole(q)
    BY <1>9, StillSame DEF BatchUnfit
<1> QED
    BY <1>1, <1>2, <1>6, <1>10, RefusalWhole

\* A batch with a cancelled member.
LEMMA CancelledIsWhole ==
    ASSUME BInv, NEW q \in Batches, BatchCancelled(q)
    PROVE  Whole
<1>1. PICK i \in FirstCancelled(q) : sess' = [sess EXCEPT ![q[i]].cancel = FALSE]
    BY DEF BatchCancelled
<1>2. PICK m \in In(q) : m = q[i] /\ m \in Members /\ sess[m].cancel
    BY <1>1, BatchTyped DEF FirstCancelled, In
<1>3. PICK t : t = [sess[m] EXCEPT !.cancel = FALSE]
    OBVIOUS
<1>4. sess' = [sess EXCEPT ![m] = t]
    BY <1>1, <1>2, <1>3
<1>5. sess'[m] = t /\ \A k \in Members \ {m} : sess'[k] = sess[k]
    BY <1>2, <1>4 DEF BInv
<1>6. StepOf(sess[m]).st # "OK"
    BY <1>2, CancelledRefuses, RefusedStep
<1>7. ASSUME NEW k \in Members
      PROVE  sess'[k] = [sess[k] EXCEPT !.cancel = sess'[k].cancel]
    <2>1. PICK s : s = sess[k]
        OBVIOUS
    <2>2. IsSession(s)
        BY <2>1 DEF BInv, Good, Held, Typed
    <2>3. CASE k = m
        <3>1. t = [s EXCEPT !.cancel = FALSE] /\ sess'[k] = t
            BY <1>3, <1>5, <2>1, <2>3
        <3>2. t.cancel = FALSE
            BY <2>2, <3>1 DEF IsSession
        <3> QED
            BY <2>1, <3>1, <3>2
    <2>4. CASE k # m
        <3>1. sess'[k] = s
            BY <1>5, <2>1, <2>4
        <3>2. [s EXCEPT !.cancel = s.cancel] = s
            BY <2>2, SameRequest
        <3> QED
            BY <2>1, <3>1, <3>2
    <2> QED
        BY <2>3, <2>4
<1>8. \A j, k \in Members : (sess'[j] # sess[j] /\ sess'[k] # sess[k]) => j = k
    BY <1>5
<1>9. RefusedWhole(q)
    BY <1>2, <1>6, <1>7, <1>8 DEF RefusedWhole
<1>10. Refuse(q, "CANCELLED")
    BY DEF BatchCancelled
<1>11. PICK st : st = "CANCELLED"
    OBVIOUS
<1> QED
    BY <1>9, <1>10, <1>11, RefusalWhole

\* Every step.
LEMMA StepsAreWhole == BInv /\ [Next]_vars => [Whole]_vars
<1> SUFFICES ASSUME BInv, Next PROVE Whole
    OBVIOUS
<1>1. ASSUME NEW q \in Batches,
             BatchTooLarge(q) \/ BatchCancelled(q) \/ BatchUnfit(q) \/ BatchDecode(q) \/ BatchFails(q)
      PROVE  Whole
    BY <1>1, TooLargeIsWhole, CancelledIsWhole, UnfitIsWhole, RanIsWhole, FailedIsWhole
<1>2. ASSUME NEW m \in Members, Prefill(m) \/ PinPrefix(m) \/ Decode(m) \/ Verify(m) \/ ResetSession(m)
      PROVE  Whole
    <2>1. out'.batch = <<>>
        BY <1>2, PrefillKeeps, PinKeeps, DecodeKeeps, VerifyKeeps, ResetKeeps
    <2> QED
        BY <2>1 DEF Whole
<1>3. ASSUME NEW m \in Members, Cancel(m)
      PROVE  Whole
    BY <1>3 DEF Cancel, Whole
<1> QED
    BY <1>1, <1>2, <1>3 DEF Next, DecodeBatch

\* A batch is the decode_steps of its members, or a refusal that changes nothing but
\* the request it reports, or a reset of its members.
THEOREM BatchAlwaysWhole == Spec => BatchIsAllOrNothing
<1>1. BInv /\ [Next]_vars =>
        [(out'.batch # <<>> /\ out' # out) =>
           LET q == out'.batch
               Step(m) == CHOOSE o \in DecodeStep(sess[m], FALSE) : TRUE
               steps == \A m \in In(q) : Step(m).st = "OK"
           IN  CASE out'.st = "OK" ->
                      /\ Distinct(q) /\ steps
                      /\ \A m \in In(q) : /\ out'.toks[m] = Step(m).toks
                                          /\ {sess'[m]} = Settled(Step(m))
                 [] out'.st = "BACKEND" ->
                      \A m \in In(q) : /\ Text(sess'[m]) = SubSeq(sess[m].rows, 1, sess[m].prefixLength)
                                       /\ sess'[m].recurrent => sess'[m].rec = Content(sess'[m])
                                       /\ ~sess'[m].logitsValid
                 [] OTHER ->
                      /\ ~Distinct(q) \/ ~steps \/ Len(q) > BatchMax
                      /\ \A m \in Members : sess'[m] = [sess[m] EXCEPT !.cancel = sess'[m].cancel]
                      /\ \A m, k \in Members : (sess'[m] # sess[m] /\ sess'[k] # sess[k]) => m = k]_vars
    BY StepsAreWhole DEF Whole, RanWhole, FailedWhole, RefusedWhole, StepOf
<1> QED
    BY <1>1, MembersStayGood, PTL DEF Spec, BatchIsAllOrNothing
=============================================================================
