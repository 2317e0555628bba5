--------------------------- MODULE SpeculationProofs ---------------------------
(***************************************************************************)
(* Proofs about Speculation.  The target is Good, as SessionOpsProofs has   *)
(* it, whatever the draft session does; its draft head is level with its    *)
(* cache.  The draft is Held even after a failure, and at rest as long as   *)
(* none of its operations has failed.                                       *)
(***************************************************************************)
EXTENDS Speculation, SessionOpsProofs

-----------------------------------------------------------------------------
(* The draft head. *)

\* The head's cache over the first n of rows, and the hidden state of the last.
Heads(rows, n) == [rows |-> [p \in 1 .. n |-> SubSeq(rows, 1, p)], carry |-> SubSeq(rows, 1, n)]

HeadLevel(s) == s.usesMtp => s.recurrent /\ s.mtp = Heads(s.rows, s.kvLen)

\* Heads looks at the first n rows only.
LEMMA HeadsAgree ==
    ASSUME NEW r \in Seq(Tokens), NEW q \in Seq(Tokens), NEW n \in 0 .. Len(r), n <= Len(q),
           \A i \in 1 .. n : r[i] = q[i]
    PROVE  Heads(r, n) = Heads(q, n)
<1>1. ASSUME NEW p \in 0 .. n
      PROVE  SubSeq(r, 1, p) = SubSeq(q, 1, p)
    <2>1. p \in 0 .. Len(r) /\ p <= Len(q) /\ \A i \in 1 .. p : r[i] = q[i]
        OBVIOUS
    <2> QED
        BY <2>1, PrefixesAgree
<1>2. n \in 0 .. n /\ \A p \in 1 .. n : p \in 0 .. n
    OBVIOUS
<1>3. SubSeq(r, 1, n) = SubSeq(q, 1, n) /\ \A p \in 1 .. n : SubSeq(r, 1, p) = SubSeq(q, 1, p)
    BY <1>1, <1>2
<1>4. [p \in 1 .. n |-> SubSeq(r, 1, p)] = [p \in 1 .. n |-> SubSeq(q, 1, p)]
    BY <1>3
<1> QED
    BY <1>3, <1>4 DEF Heads

\* A session that differs elsewhere is as level.
LEMMA HeadSame ==
    ASSUME NEW s, HeadLevel(s), NEW t, SameModel(s, t), t.rows = s.rows, t.kvLen = s.kvLen, t.mtp = s.mtp
    PROVE  HeadLevel(t)
BY DEF HeadLevel, SameModel

\* What the operations of SessionOps do to the head.
LEMMA HeadFields ==
    ASSUME NEW s, IsSession(s)
    PROVE  /\ Commit(s).mtp = s.mtp /\ DropLogits(s).mtp = s.mtp /\ Finalized(s).mtp = s.mtp
           /\ \A n : Cut(s, n).mtp = s.mtp
<1>1. PICK x, y, z, c : x = NoTxn /\ y = NoPending /\ c = Content(s) /\ z = [on |-> c, rec |-> s.rec]
    OBVIOUS
<1>2. Finalized(s) = [s EXCEPT !.logitsValid = TRUE, !.pending = z]
    BY <1>1 DEF Finalized
<1> QED
    BY <1>1, <1>2 DEF Commit, DropLogits, Cut, IsSession

\* The forward syncs it.
LEMMA HeadAdvanced ==
    ASSUME NEW s, IsSession(s), NEW ids
    PROVE  Advanced(s, ids).mtp = MtpSync(s, ids)
<1>1. PICK R, q, m : /\ R = SubSeq(s.rows, 1, s.kvLen) \o ids \o SubSeq(s.rows, s.kvLen + Len(ids) + 1, Len(s.rows))
                     /\ q = IF s.recurrent THEN s.rec \o ids ELSE s.rec
                     /\ m = MtpSync(s, ids)
    OBVIOUS
<1>2. PICK f : f = [s EXCEPT !.rows = R, !.rec = q, !.mtp = m]
    OBVIOUS
<1>3. Forwarded(s, ids) = f
    BY <1>1, <1>2 DEF Forwarded, IsSession
<1>4. f.mtp = m /\ Advanced(s, ids).mtp = f.mtp
    BY <1>2, <1>3 DEF Advanced, IsSession
<1> QED
    BY <1>1, <1>4

\* The begin of a transaction keeps the head, and a copy of it.
LEMMA HeadBegin ==
    ASSUME NEW s, IsSession(s), ~s.txn.active, NEW ids
    PROVE  LET t == TxnBegin(s, ids) IN t.mtp = s.mtp /\ (s.recurrent => t.txn.mtp = s.mtp)
<1>1. CASE ~s.recurrent
    BY <1>1 DEF TxnBegin
<1>2. CASE s.recurrent
    <2> DEFINE k == Len(ids)
               req == ~s.rowsOff /\ k >= 2 /\ k - 1 <= RowSlots
    <2>1. PICK r, ok : r = (IF req /\ s.keepsRows THEN RowStates(s, ids) ELSE s.txn.rows) /\ ok = (req /\ s.keepsRows)
        OBVIOUS
    <2>2. PICK x : x = [active |-> TRUE, base |-> s.kvLen, ids |-> ids, rec |-> s.rec, mtp |-> s.mtp,
                        rowsOk |-> ok, rows |-> r]
        OBVIOUS
    <2>3. TxnBegin(s, ids) = [s EXCEPT !.txn = x]
        BY <1>2, <2>1, <2>2 DEF TxnBegin
    <2>4. x.mtp = s.mtp
        BY <2>2
    <2> QED
        BY <2>3, <2>4 DEF IsSession
<1> QED
    BY <1>1, <1>2

\* A function on 1 .. n is a sequence.
LEMMA FunctionSeq ==
    ASSUME NEW T, NEW n \in Nat, NEW f \in [1 .. n -> T]
    PROVE  f \in Seq(T) /\ Len(f) = n
OBVIOUS

\* Two sequences one after the other, place by place.
LEMMA ConcatIs ==
    ASSUME NEW T, NEW a \in Seq(T), NEW b \in Seq(T), NEW c \in Seq(T), Len(c) = Len(a) + Len(b),
           \A i \in 1 .. Len(a) : a[i] = c[i],
           \A i \in 1 .. Len(b) : b[i] = c[Len(a) + i]
    PROVE  a \o b = c
<1>1. PICK d : d = a \o b
    OBVIOUS
<1>2. /\ d \in Seq(T) /\ Len(d) = Len(a) + Len(b)
      /\ \A i \in 1 .. Len(a) + Len(b) : d[i] = IF i <= Len(a) THEN a[i] ELSE b[i - Len(a)]
    BY <1>1, ConcatProperties
<1>3. PICK k, n \in Nat : k = Len(a) /\ n = Len(b)
    OBVIOUS
<1>4. ASSUME NEW i \in 1 .. Len(d)
      PROVE  d[i] = c[i]
    <2>1. i \in 1 .. k + n
        BY <1>2, <1>3
    <2>2. CASE i <= k
        BY <1>2, <1>3, <2>1, <2>2
    <2>3. CASE ~(i <= k)
        <3>1. i - k \in 1 .. n /\ k + (i - k) = i
            BY <2>1, <2>3
        <3>2. b[i - k] = c[k + (i - k)]
            BY <1>3, <3>1
        <3>3. d[i] = b[i - k]
            BY <1>2, <1>3, <2>1, <2>3
        <3> QED
            BY <3>1, <3>2, <3>3
    <2> QED
        BY <2>2, <2>3
<1>5. Len(d) = Len(c)
    BY <1>2
<1>6. d = c
    BY ZenonT(60), <1>2, <1>4, <1>5, SeqEqual
<1> QED
    BY <1>1, <1>6

LEMMA TokensAssociate ==
    ASSUME NEW x \in Seq(Tokens), NEW y \in Seq(Tokens), NEW z \in Seq(Tokens)
    PROVE  (x \o y) \o z = x \o (y \o z)
BY ConcatAssociative

\* A forward keeps the head level: one row for each id, and the last carry.
LEMMA AdvancedHead ==
    ASSUME NEW s, Typed(s), HeadLevel(s), NEW ids \in Seq(Tokens), RoomFor(s, Len(ids))
    PROVE  HeadLevel(Advanced(s, ids))
<1>1. PICK t : t = Advanced(s, ids)
    OBVIOUS
<1>2. /\ Typed(t) /\ SameModel(s, t) /\ Content(t) = Content(s) \o ids /\ t.kvLen = s.kvLen + Len(ids)
      /\ \A i \in 1 .. s.kvLen : t.rows[i] = s.rows[i]
      /\ \A a \in 0 .. Len(ids) : SubSeq(t.rows, 1, s.kvLen + a) = Content(s) \o SubSeq(ids, 1, a)
    BY <1>1, AdvancedGrows DEF Grows
<1>3. t.mtp = MtpSync(s, ids)
    BY <1>1, HeadAdvanced DEF Typed
<1>4. SUFFICES ASSUME s.usesMtp
               PROVE  t.mtp = Heads(t.rows, t.kvLen)
    BY <1>1, <1>2 DEF HeadLevel, SameModel
<1>5. PICK k, n \in Nat : k = s.kvLen /\ n = Len(ids)
    BY DEF Typed
<1>6. /\ s.rows \in Seq(Tokens) /\ t.rows \in Seq(Tokens) /\ k <= Len(s.rows) /\ k + n <= Len(t.rows)
      /\ t.kvLen = k + n
    BY <1>2, <1>5 DEF Typed
<1>7. PICK c : c = Content(s) /\ c \in Seq(Tokens) /\ c = SubSeq(s.rows, 1, k)
    BY <1>5, ContentTyped DEF Content
<1>8. s.mtp = Heads(s.rows, k)
    BY <1>4, <1>5 DEF HeadLevel
<1>9. s.mtp.rows = [p \in 1 .. k |-> SubSeq(s.rows, 1, p)] /\ s.mtp.carry = c
    BY <1>7, <1>8 DEF Heads
<1>10. PICK e : e = [i \in 1 .. n |-> (IF i = 1 THEN s.mtp.carry ELSE c \o SubSeq(ids, 1, i - 1)) \o <<ids[i]>>]
    OBVIOUS
<1>11. PICK a, z : a = [p \in 1 .. k |-> SubSeq(s.rows, 1, p)] /\ z = [p \in 1 .. k + n |-> SubSeq(t.rows, 1, p)]
    OBVIOUS
<1>12. t.mtp = [rows |-> a \o e, carry |-> c \o ids]
    <2>1. MtpRows(s, ids) = s.mtp.rows \o e
        BY <1>5, <1>7, <1>10 DEF MtpRows
    <2>2. PICK y, x : y = MtpRows(s, ids) /\ x = c \o ids
        OBVIOUS
    <2>3. MtpSync(s, ids) = [rows |-> y, carry |-> x]
        BY <1>4, <1>7, <2>2 DEF MtpSync
    <2>4. y = a \o e
        BY <1>9, <1>11, <2>1, <2>2
    <2> QED
        BY <1>3, <2>2, <2>3, <2>4
<1>13. ASSUME NEW p \in 1 .. k
       PROVE  a[p] = z[p]
    <2>n. p \in 1 .. k /\ \A i \in 1 .. k : s.rows[i] = t.rows[i]
        BY <1>2, <1>5
    <2>l. Len(s.rows) \in Nat /\ Len(t.rows) \in Nat /\ p <= Len(s.rows) /\ p <= Len(t.rows)
        BY <1>6
    <2>1. p \in 0 .. Len(s.rows) /\ p <= Len(t.rows) /\ \A i \in 1 .. p : s.rows[i] = t.rows[i]
        BY <2>n, <2>l
    <2>2. SubSeq(s.rows, 1, p) = SubSeq(t.rows, 1, p)
        BY <1>6, <2>1, PrefixesAgree
    <2>3. p \in 1 .. k + n
        OBVIOUS
    <2> QED
        BY <1>11, <2>2, <2>3
<1>14. ASSUME NEW i \in 1 .. n
       PROVE  e[i] = z[k + i]
    <2>1. PICK x, y : x = SubSeq(ids, 1, i - 1) /\ y = <<ids[i]>>
        OBVIOUS
    <2>2. SubSeq(ids, 1, i) = x \o y
        <3>1. 1 \in 1 .. Len(ids) /\ i \in 1 .. Len(ids)
            BY <1>5
        <3> QED
            BY <2>1, <3>1, SubSeqRecursiveSecond
    <2>3. x \in Seq(Tokens) /\ y \in Seq(Tokens)
        <3>1. i - 1 \in 0 .. Len(ids) /\ i \in 1 .. Len(ids)
            BY <1>5
        <3>2. x \in Seq(Tokens)
            BY <2>1, <3>1, CutText
        <3>3. ids[i] \in Tokens
            BY <3>1, ElementOfSeq
        <3> QED
            BY <2>1, <3>2, <3>3
    <2>4. (IF i = 1 THEN s.mtp.carry ELSE c \o x) = c \o x
        <3>1. CASE i = 1
            <4>1. x = <<>>
                BY <2>1, <3>1, SubSeqEmpty
            <4> QED
                BY <1>7, <1>9, <3>1, <4>1, ConcatNothing
        <3> QED
            BY <3>1
    <2>5. e[i] = (c \o x) \o y
        BY <1>10, <2>1, <2>4
    <2>6. (c \o x) \o y = c \o (x \o y)
        BY <1>7, <2>3, TokensAssociate
    <2>7. SubSeq(t.rows, 1, k + i) = c \o (x \o y)
        <3>1. i \in 0 .. Len(ids)
            BY <1>5
        <3>2. SubSeq(t.rows, 1, s.kvLen + i) = Content(s) \o SubSeq(ids, 1, i)
            BY <1>2, <3>1
        <3> QED
            BY <1>5, <1>7, <2>2, <3>2
    <2>8. z[k + i] = SubSeq(t.rows, 1, k + i)
        <3>1. k + i \in 1 .. k + n
            OBVIOUS
        <3> QED
            BY <1>11, <3>1
    <2> QED
        BY <2>5, <2>6, <2>7, <2>8
<1>15. z \in [1 .. k + n -> Seq(Tokens)]
    <2>1. ASSUME NEW p \in 1 .. k + n
          PROVE  SubSeq(t.rows, 1, p) \in Seq(Tokens)
        <3>1. p \in 0 .. Len(t.rows)
            BY <1>6
        <3> QED
            BY <1>6, <3>1, CutText
    <2> QED
        BY <1>11, <2>1
<1>16. a \in [1 .. k -> Seq(Tokens)]
    <2>1. ASSUME NEW p \in 1 .. k
          PROVE  a[p] \in Seq(Tokens)
        <3>1. p \in 1 .. k + n
            OBVIOUS
        <3> QED
            BY <1>13, <1>15, <3>1
    <2> QED
        BY <1>11, <2>1
<1>17. e \in [1 .. n -> Seq(Tokens)]
    <2>1. ASSUME NEW i \in 1 .. n
          PROVE  e[i] \in Seq(Tokens)
        <3>1. k + i \in 1 .. k + n
            OBVIOUS
        <3> QED
            BY <1>14, <1>15, <3>1
    <2> QED
        BY <1>10, <2>1
<1>18. a \o e = z
    <2>1. PICK T : T = Seq(Tokens)
        OBVIOUS
    <2>2. k + n \in Nat
        OBVIOUS
    <2>3. /\ a \in Seq(T) /\ Len(a) = k /\ e \in Seq(T) /\ Len(e) = n
          /\ z \in Seq(T) /\ Len(z) = k + n
        BY <1>15, <1>16, <1>17, <2>1, <2>2, FunctionSeq
    <2>4. (\A i \in 1 .. Len(a) : a[i] = z[i]) /\ (\A i \in 1 .. Len(e) : e[i] = z[Len(a) + i])
        BY <1>13, <1>14, <2>3
    <2>5. Len(z) = Len(a) + Len(e)
        BY <2>3
    <2> QED
        BY <2>3, <2>4, <2>5, ConcatIs
<1>19. c \o ids = SubSeq(t.rows, 1, k + n)
    BY <1>2, <1>6, <1>7 DEF Content
<1> QED
    BY <1>6, <1>11, <1>12, <1>18, <1>19 DEF Heads

\* Closing a transaction, and what the caller sees of the logits.
LEMMA CommitHead ==
    ASSUME NEW s, Typed(s), HeadLevel(s)
    PROVE  LET t == Commit(s) IN Typed(t) /\ HeadLevel(t) /\ SameModel(s, t) /\ t.rows = s.rows /\ t.kvLen = s.kvLen
<1>1. PICK t : t = Commit(s)
    OBVIOUS
<1>2. Typed(t) /\ SameModel(s, t) /\ t.rows = s.rows /\ t.kvLen = s.kvLen
    BY <1>1, CommitGrows DEF Grows
<1>3. t.mtp = s.mtp
    BY <1>1, HeadFields DEF Typed
<1> QED
    BY <1>1, <1>2, <1>3, HeadSame

LEMMA FinalizedHead ==
    ASSUME NEW s, Typed(s), HeadLevel(s)
    PROVE  HeadLevel(Finalized(s)) /\ Finalized(s).mtp = s.mtp
<1>1. PICK t : t = Finalized(s)
    OBVIOUS
<1>2. SameModel(s, t) /\ t.rows = s.rows /\ t.kvLen = s.kvLen
    BY <1>1, FinalizedFields DEF Typed, SameText
<1>3. t.mtp = s.mtp
    BY <1>1, HeadFields DEF Typed
<1> QED
    BY <1>1, <1>2, <1>3, HeadSame

LEMMA DropLogitsHead ==
    ASSUME NEW s, IsSession(s), HeadLevel(s)
    PROVE  HeadLevel(DropLogits(s))
<1>1. PICK t : t = DropLogits(s)
    OBVIOUS
<1>2. SameModel(s, t) /\ t.rows = s.rows /\ t.kvLen = s.kvLen
    BY <1>1, DropLogitsFields DEF SameText
<1>3. t.mtp = s.mtp
    BY <1>1, HeadFields
<1> QED
    BY <1>1, <1>2, <1>3, HeadSame

\* transformer_decode_step.
LEMMA RunStepHead ==
    ASSUME NEW s, Typed(s), HeadLevel(s), NEW tok \in Tokens, NEW canFail,
           NEW o \in RunStep(s, tok, canFail), o.faults = 0
    PROVE  HeadLevel(o.s)
<1>1. PICK c : c = Commit(s)
    OBVIOUS
<1>2. Typed(c) /\ HeadLevel(c) /\ SameModel(s, c) /\ c.rows = s.rows /\ c.kvLen = s.kvLen
    BY <1>1, CommitHead
<1>3. PICK q : q = <<tok>> /\ q \in Seq(Tokens) /\ Len(q) = 1
    <2>1. <<tok>> \in Seq(Tokens) /\ Len(<<tok>>) = 1
        OBVIOUS
    <2> QED
        BY <2>1
<1>4. CASE ~RoomFor(s, 1)
    <2>1. o \in Refused(c, "TOO_MANY_TOKENS")
        BY <1>1, <1>4 DEF RunStep
    <2> QED
        BY <1>2, <2>1, RefusedCounted
<1>5. CASE RoomFor(s, 1)
    <2>1. PICK f : f = Advanced(c, q)
        OBVIOUS
    <2>2. f = [Forwarded(c, <<tok>>) EXCEPT !.kvLen = @ + 1]
        BY <1>3, <2>1 DEF Advanced
    <2>3. o = Ok(Finalized(f)) \/ \E b : o = Failed(b)
        BY <1>1, <1>5, <2>2 DEF RunStep
    <2>4. o.s = Finalized(f)
        BY <2>3, OkCounted, FailedCounted
    <2>5. RoomFor(c, Len(q))
        BY <1>2, <1>3, <1>5 DEF RoomFor, SameModel
    <2>6. HeadLevel(f) /\ Typed(f)
        BY <1>2, <1>3, <2>1, <2>5, AdvancedHead, AdvancedGrows DEF Grows
    <2> QED
        BY <2>4, <2>6, FinalizedHead
<1> QED
    BY <1>4, <1>5

\* The settle.
LEMMA SettleHead ==
    ASSUME NEW s, Held(s), HeadLevel(s), NEW canFail, NEW o \in Settle(s, canFail), o.faults = 0
    PROVE  HeadLevel(o.s)
<1>1. Typed(s) /\ Owes(s)
    BY DEF Held
<1>2. CASE ~s.deferred
    BY <1>2, OkCounted DEF Settle
<1>3. CASE s.deferred
    <2>1. PICK x \in RunStep(s, PendingToken(s), canFail) :
              IF x.st = "OK" THEN o = Ok([x.s EXCEPT !.deferred = FALSE]) ELSE o = x
        BY <1>3 DEF Settle, Then
    <2>2. PICK p \in Tokens : p = PendingToken(s)
        BY <1>1 DEF Owes
    <2>3. x.faults = 0 /\ x \in RunStep(s, p, canFail)
        BY <2>1, <2>2, RunStepCounted DEF Counted, Tallied
    <2>4. HeadLevel(x.s) /\ Typed(x.s)
        BY <1>1, <2>2, <2>3, RunStepHead, RunStepGrows
    <2>5. PICK t : t = [x.s EXCEPT !.deferred = FALSE]
        OBVIOUS
    <2>6. SameModel(x.s, t) /\ t.rows = x.s.rows /\ t.kvLen = x.s.kvLen /\ t.mtp = x.s.mtp
        BY <2>4, <2>5 DEF Typed, IsSession, SameModel
    <2>7. HeadLevel(t)
        BY <2>4, <2>6, HeadSame
    <2> QED
        BY <2>1, <2>4, <2>5, <2>7, OkCounted
<1> QED
    BY <1>2, <1>3

\* A request to cancel leaves the head alone, and so does a deferred forward.
LEMMA FlagsHead ==
    ASSUME NEW s, IsSession(s), HeadLevel(s), NEW x
    PROVE  /\ HeadLevel([s EXCEPT !.cancel = x]) /\ HeadLevel([s EXCEPT !.deferred = x])
           /\ IsSession([s EXCEPT !.logitsValid = x]) /\ HeadLevel([s EXCEPT !.logitsValid = x])
<1>1. \A t \in {[s EXCEPT !.cancel = x], [s EXCEPT !.deferred = x], [s EXCEPT !.logitsValid = x]} :
          IsSession(t) /\ SameModel(s, t) /\ t.rows = s.rows /\ t.kvLen = s.kvLen /\ t.mtp = s.mtp
    BY DEF IsSession, SameModel
<1>2. \A t : SameModel(s, t) /\ t.rows = s.rows /\ t.kvLen = s.kvLen /\ t.mtp = s.mtp => HeadLevel(t)
    BY HeadSame
<1> QED
    BY <1>1, <1>2

\* geist_session_decode_step.
LEMMA DecodeStepHead ==
    ASSUME NEW s, Held(s), HeadLevel(s), NEW canFail, NEW o \in DecodeStep(s, canFail), o.faults = 0
    PROVE  HeadLevel(o.s)
<1>1. CASE s.cancel
    <2>1. PICK f, t : f = FALSE /\ t = [s EXCEPT !.cancel = f]
        OBVIOUS
    <2>2. o \in Refused(t, "CANCELLED")
        BY <1>1, <2>1 DEF DecodeStep, Cancelled
    <2>3. HeadLevel(t)
        BY <2>1, FlagsHead DEF Held, Typed
    <2> QED
        BY <2>2, <2>3, RefusedCounted
<1>2. CASE ~s.cancel
    <2>1. PICK x \in Settle(s, canFail) : IF x.st = "OK" THEN o \in DecodeSettled(x.s) ELSE o = x
        BY <1>2 DEF DecodeStep, Then
    <2>2. x.faults = 0
        BY <2>1, SettleCounted DEF Counted, Tallied
    <2>3. HeadLevel(x.s) /\ Typed(x.s)
        BY <2>1, <2>2, SettleHead, SettleUnseen DEF SettledAs, Held
    <2>4. CASE x.st = "OK"
        <3>1. o \in DecodeSettled(x.s)
            BY <2>1, <2>4
        <3>2. PICK y, c, d : y = TRUE /\ c = Commit(x.s) /\ d = [c EXCEPT !.deferred = y]
            OBVIOUS
        <3>3. Typed(c) /\ HeadLevel(c)
            BY <2>3, <3>2, CommitHead
        <3>4. HeadLevel(d)
            BY <3>2, <3>3, FlagsHead DEF Typed
        <3>5. \/ \E st : st # "OK" /\ o \in Refused(x.s, st)
              \/ \E st : st # "OK" /\ o \in Refused(c, st)
              \/ o = Out(d, "OK", <<PendingToken(x.s)>>, 0)
            BY <3>1, <3>2 DEF DecodeSettled
        <3> QED
            BY <2>3, <3>3, <3>4, <3>5, RefusedCounted, OutCounted
    <2> QED
        BY <2>1, <2>3, <2>4
<1> QED
    BY <1>1, <1>2

\* A prefill of one sub-batch.
LEMMA PrefillOnceHead ==
    ASSUME NEW s, Typed(s), HeadLevel(s), NEW ids \in Seq(Tokens), NEW canFail,
           NEW o \in PrefillOnce(s, ids, canFail), o.faults = 0
    PROVE  HeadLevel(o.s)
<1>1. PICK c : c = Commit(s)
    OBVIOUS
<1>2. Typed(c) /\ HeadLevel(c) /\ SameModel(s, c) /\ c.rows = s.rows /\ c.kvLen = s.kvLen
    BY <1>1, CommitHead
<1>3. CASE ~RoomFor(s, Len(ids))
    <2>1. o \in Refused(c, "TOO_MANY_TOKENS")
        BY <1>1, <1>3 DEF PrefillOnce
    <2> QED
        BY <1>2, <2>1, RefusedCounted
<1>4. CASE RoomFor(s, Len(ids))
    <2>1. o \in PrefillChunk(c, ids, TRUE, canFail)
        BY <1>1, <1>4 DEF PrefillOnce
    <2>2. CASE c.cancel
        <3>1. PICK f, u, t : f = FALSE /\ u = [c EXCEPT !.logitsValid = f] /\ t = [u EXCEPT !.cancel = f]
            OBVIOUS
        <3>2. o \in Refused(t, "CANCELLED")
            BY <2>1, <2>2, <3>1 DEF PrefillChunk, Cancelled
        <3>3. IsSession(u) /\ HeadLevel(u)
            BY <1>2, <3>1, FlagsHead DEF Typed
        <3>4. HeadLevel(t)
            BY <3>1, <3>3, FlagsHead
        <3> QED
            BY <3>2, <3>4, RefusedCounted
    <2>3. CASE ~c.cancel
        <3>1. PICK f : f = Advanced(c, ids)
            OBVIOUS
        <3>2. o = Ok(Finalized(f)) \/ \E b : o = Failed(b)
            BY <2>1, <2>3, <3>1 DEF PrefillChunk, Advanced
        <3>3. o.s = Finalized(f)
            BY <3>2, OkCounted, FailedCounted
        <3>4. RoomFor(c, Len(ids))
            BY <1>2, <1>4 DEF RoomFor, SameModel
        <3>5. HeadLevel(f) /\ Typed(f)
            BY <1>2, <3>1, <3>4, AdvancedHead, AdvancedGrows DEF Grows
        <3> QED
            BY <3>3, <3>5, FinalizedHead
    <2> QED
        BY <2>2, <2>3
<1> QED
    BY <1>3, <1>4

\* What a verify keeps of the head: level with the new rows, and a copy of it as
\* it was before them.
HeadVerified(s, v) == HeadLevel(v) /\ (s.recurrent => v.txn.mtp = s.mtp)

LEMMA VerifyForwardHead ==
    ASSUME NEW s, Core(s), ~s.txn.active, HeadLevel(s), NEW ids \in Seq(Tokens), NEW canFail,
           NEW o \in VerifyForward(s, ids, canFail), o.faults = 0, o.st = "OK"
    PROVE  HeadVerified(s, o.s)
<1> DEFINE b == TxnBegin(s, ids)
           f == Advanced(b, ids)
           d == DropLogits(f)
           n == Finalized(d)
           v == [n EXCEPT !.rowsOff = @ \/ RowsMissing(d)]
           toks == [i \in 1 .. Len(ids) |-> Predict(Content(s) \o SubSeq(ids, 1, i))]
<1>1. ~(Len(ids) > MMax) /\ RoomFor(s, Len(ids))
    <2>1. ASSUME Len(ids) > MMax \/ ~RoomFor(s, Len(ids))
          PROVE  FALSE
        <3>1. PICK st : st # "OK" /\ o \in Refused(s, st)
            BY <2>1 DEF VerifyForward
        <3> QED
            BY <3>1, RefusedCounted
    <2> QED
        BY <2>1
<1>2. o = Out(v, "OK", toks, 0)
    <2>1. o = Out(v, "OK", toks, 0) \/ \E x : o = Failed(x)
        BY <1>1 DEF VerifyForward, Advanced
    <2> QED
        BY <2>1, FailedCounted
<1>3. o.s = v
    BY <1>2, OutCounted
<1>4. Typed(s) /\ IsSession(s)
    BY DEF Core, Typed
<1>5. /\ IsSession(b) /\ SameModel(s, b) /\ SameText(s, b) /\ SameCkpts(s, b) /\ b.prefixLength = s.prefixLength
      /\ b.mtp = s.mtp /\ (s.recurrent => b.txn.mtp = s.mtp)
    BY <1>4, TxnBeginFields, HeadBegin
<1> HIDE DEF b
<1>6. Core(b)
    BY <1>5, CoreSame
<1>7. HeadLevel(b)
    BY <1>5, HeadSame DEF SameText
<1>8. RoomFor(b, Len(ids))
    BY <1>1, <1>5 DEF RoomFor, SameModel, SameText
<1>9. Typed(f) /\ HeadLevel(f) /\ f.txn = b.txn
    BY <1>6, <1>7, <1>8, AdvancedHead, AdvancedGrows DEF Grows, Core
<1> HIDE DEF f
<1>10. Typed(d) /\ HeadLevel(d) /\ d.txn = f.txn
    BY <1>9, DropLogitsHead, DropLogitsGrows DEF Grows, Typed
<1> HIDE DEF d
<1>11. IsSession(n) /\ HeadLevel(n) /\ n.txn = d.txn
    BY <1>10, FinalizedHead, FinalizedFields DEF Typed
<1> HIDE DEF n
<1>12. SameModel(n, v) /\ v.rows = n.rows /\ v.kvLen = n.kvLen /\ v.mtp = n.mtp /\ v.txn = n.txn
    <2>1. PICK x : x = (n.rowsOff \/ RowsMissing(d))
        OBVIOUS
    <2>2. v = [n EXCEPT !.rowsOff = x]
        BY <1>11, <2>1 DEF IsSession
    <2> QED
        BY <1>11, <2>2 DEF IsSession, SameModel
<1> HIDE DEF v
<1>13. HeadLevel(v)
    BY <1>11, <1>12, HeadSame
<1> QED
    BY <1>3, <1>5, <1>9, <1>10, <1>11, <1>12, <1>13 DEF HeadVerified

\* The rows kept of a longer cache.
LEMMA HeadKept ==
    ASSUME NEW r \in Seq(Tokens), NEW k \in 0 .. Len(r), NEW n \in 0 .. k
    PROVE  [rows |-> SubSeq(Heads(r, k).rows, 1, n), carry |-> SubSeq(r, 1, n)] = Heads(r, n)
<1>1. PICK a, z : a = [p \in 1 .. k |-> SubSeq(r, 1, p)] /\ z = [p \in 1 .. n |-> SubSeq(r, 1, p)]
    OBVIOUS
<1>2. PICK T : T = Seq(Tokens)
    OBVIOUS
<1>3. \A p \in 1 .. k : SubSeq(r, 1, p) \in T
    <2>1. ASSUME NEW p \in 1 .. k
          PROVE  SubSeq(r, 1, p) \in Seq(Tokens)
        <3>1. p \in 0 .. Len(r)
            OBVIOUS
        <3> QED
            BY <3>1, CutText
    <2> QED
        BY <1>2, <2>1
<1>4. \A p \in 1 .. n : p \in 1 .. k
    OBVIOUS
<1>5. a \in [1 .. k -> T] /\ z \in [1 .. n -> T] /\ k \in Nat /\ n \in Nat
    BY <1>1, <1>3, <1>4
<1>6. a \in Seq(T) /\ Len(a) = k /\ z \in Seq(T) /\ Len(z) = n
    BY <1>5, FunctionSeq
<1>7. SubSeq(a, 1, n) = SubSeq(z, 1, n)
    <2>1. n \in 0 .. Len(a) /\ n <= Len(z) /\ \A i \in 1 .. n : a[i] = z[i]
        BY <1>1, <1>4, <1>6
    <2> QED
        BY <1>6, <2>1, PrefixesAgree
<1>8. SubSeq(z, 1, n) = z
    BY <1>6, SubSeqFull
<1>9. Heads(r, k).rows = a
    BY <1>1 DEF Heads
<1> QED
    BY <1>1, <1>7, <1>8, <1>9 DEF Heads

\* The rollback: the rows kept, the accepted ids once more, or the copy.
LEMMA KvTruncateHead ==
    ASSUME NEW s, Core(s), HeadLevel(s), NEW ids \in Seq(Tokens), NEW v, Verified(s, ids, v), HeadVerified(s, v),
           NEW a \in 1 .. Len(ids) - 1, NEW canFail,
           NEW o \in KvTruncate(v, s.kvLen + a, canFail), o.faults = 0
    PROVE  HeadLevel(o.s)
<1>1. PICK k, L \in Nat : k = s.kvLen /\ L = Len(ids)
    BY DEF Core, Typed
<1>2. PICK n \in Nat : n = s.kvLen + a
    BY <1>1
<1>3. RolledBack(s, a, o)
    BY KvTruncateCore
<1>4. SUFFICES ASSUME s.usesMtp
               PROVE  o.s.mtp = Heads(o.s.rows, o.s.kvLen)
    BY <1>3 DEF RolledBack, HeadLevel, SameModel
<1>5. s.recurrent
    BY <1>4 DEF HeadLevel
<1>6. /\ Core(v) /\ SameModel(s, v) /\ v.kvLen = k + L /\ \A i \in 1 .. k : v.rows[i] = s.rows[i]
      /\ v.txn.active /\ v.txn.base = k /\ v.txn.ids = ids
    BY <1>1, <1>5 DEF Verified
<1>7. v.mtp = Heads(v.rows, k + L) /\ v.txn.mtp = s.mtp /\ s.mtp = Heads(s.rows, k)
    BY <1>1, <1>4, <1>5, <1>6 DEF HeadVerified, HeadLevel, SameModel
<1>8. /\ s.rows \in Seq(Tokens) /\ v.rows \in Seq(Tokens) /\ k <= Len(s.rows) /\ k + L <= Len(v.rows)
      /\ IsSession(v)
    BY <1>1, <1>6 DEF Core, Typed
<1>9. /\ ~(n > v.kvLen) /\ n - v.txn.base = a /\ a \in 0 .. Len(v.txn.ids) /\ a # Len(v.txn.ids) /\ a > 0 /\ a # 0
    BY <1>1, <1>2, <1>6
<1>10. n = k + a /\ n \in 0 .. k + L /\ k + L \in 0 .. Len(v.rows)
    BY <1>1, <1>2, <1>8
<1>11. CASE v.txn.rowsOk
    <2>1. PICK r, m : r = v.txn.rows[a] /\ m = MtpKept(v, n)
        OBVIOUS
    <2>2. PICK w, c, d : w = [v EXCEPT !.rec = r, !.mtp = m] /\ c = Cut(Commit(w), n) /\ d = DropLogits(c)
        OBVIOUS
    <2>3. o = Ok(d)
        <3>1. o = Ok(DropLogits(Cut(Commit([v EXCEPT !.rec = r, !.mtp = m]), n))) \/ \E t : o = Failed(t)
            BY <1>2, <1>6, <1>9, <1>11, <2>1 DEF KvTruncate
        <3>2. \A t : o # Failed(t)
            BY FailedCounted
        <3> QED
            BY <2>2, <3>1, <3>2
    <2>4. IsSession(w) /\ w.mtp = m /\ w.rows = v.rows
        BY <1>8, <2>2 DEF IsSession
    <2>5. IsSession(Commit(w)) /\ Commit(w).mtp = m /\ Commit(w).rows = v.rows
        BY <2>4, CommitFields, HeadFields DEF SameText
    <2>6. IsSession(c) /\ c.mtp = m /\ c.rows = v.rows /\ c.kvLen = n
        BY <2>2, <2>5, CutFields, HeadFields
    <2>7. d.mtp = m /\ d.rows = v.rows /\ d.kvLen = n
        BY <2>2, <2>6, DropLogitsFields, HeadFields DEF SameText
    <2>8. v.usesMtp
        BY <1>4, <1>6 DEF SameModel
    <2>9. m = Heads(v.rows, n)
        <3>1. m = [rows |-> SubSeq(v.mtp.rows, 1, n), carry |-> SubSeq(v.rows, 1, n)]
            BY <2>1, <2>8 DEF MtpKept
        <3>2. PICK l \in 0 .. Len(v.rows) : l = k + L
            BY <1>10
        <3>3. n \in 0 .. l
            BY <1>10, <3>2
        <3>4. [rows |-> SubSeq(Heads(v.rows, l).rows, 1, n), carry |-> SubSeq(v.rows, 1, n)] = Heads(v.rows, n)
            BY <1>8, <3>2, <3>3, HeadKept
        <3> QED
            BY <1>7, <3>1, <3>2, <3>4
    <2> QED
        BY <2>3, <2>7, <2>9, OkCounted
<1>12. CASE ~v.txn.rowsOk
    <2>1. PICK p : p = SubSeq(ids, 1, a) /\ p \in Seq(Tokens) /\ Len(p) = a
        <3>1. a \in 0 .. Len(ids)
            BY <1>1
        <3>2. SubSeq(ids, 1, a) \in Seq(Tokens) /\ Len(SubSeq(ids, 1, a)) = a
            BY <3>1, CutText
        <3> QED
            BY <3>2
    <2>2. PICK b : b = Commit(TxnRestore(v))
        OBVIOUS
    <2>3. PICK x : /\ x \in PrefillOnce(b, p, canFail) /\ x.faults = 0
                   /\ x.st = "OK" => o.s = Cut(x.s, n)
                   /\ x.st # "OK" => o.s = DropLogits(Commit(TxnRestore([x.s EXCEPT !.txn = v.txn])))
        <3>1. o \in KvTruncate(v, n, canFail)
            BY <1>2
        <3>2. /\ n - v.txn.base \in 0 .. Len(v.txn.ids) /\ n - v.txn.base # Len(v.txn.ids)
              /\ ~(n - v.txn.base > 0 /\ v.txn.rowsOk) /\ n - v.txn.base # 0
            BY <1>9, <1>12
        <3>3. PICK q \in TxnRestores(v, canFail) : o \in Replayed(v, n, q, canFail)
            BY ZenonT(60), <1>6, <1>9, <3>1, <3>2 DEF KvTruncate
        <3>4. Tallied(q)
            BY TxnRestoresSplit DEF Counted
        <3>5. PICK x : ReplaySteps(v, n, q, canFail, x, o)
            BY <3>3, <3>4, ReplayedSplit
        <3>6. q.faults = 0 /\ x.faults = 0 /\ (x.st = "OK" => o.s = Cut(x.s, n))
            BY <3>5 DEF ReplaySteps
        <3>7. q.s = TxnRestore(v)
            BY <3>6, TxnRestoresSplit
        <3>8. x \in PrefillOnce(b, p, canFail)
            BY <1>6, <1>9, <2>1, <2>2, <3>5, <3>7 DEF ReplaySteps
        <3>9. ASSUME x.st # "OK"
              PROVE  o.s = DropLogits(Commit(TxnRestore([x.s EXCEPT !.txn = v.txn])))
            <4>1. PICK u \in TxnRestores([x.s EXCEPT !.txn = v.txn], canFail) :
                     o.s = DropLogits(Commit(u.s)) /\ u.faults = 0
                BY <3>5, <3>9 DEF ReplaySteps
            <4>2. u.s = TxnRestore([x.s EXCEPT !.txn = v.txn])
                BY <4>1, TxnRestoresSplit
            <4> QED
                BY <4>1, <4>2
        <3> QED
            BY <3>6, <3>8, <3>9
    <2>5. /\ Core(b) /\ SameModel(s, b) /\ b.kvLen = k /\ \A i \in 1 .. k : b.rows[i] = s.rows[i]
        BY <1>1, <1>5, <2>2, RestoredCore
    <2>6. b.mtp = s.mtp
        <3>1. PICK w : w = TxnRestore(v)
            OBVIOUS
        <3>2. IsSession(w) /\ w.mtp = v.txn.mtp
            <4>1. PICK r, m, l : r = v.txn.rec /\ m = v.txn.mtp /\ l = v.txn.base
                OBVIOUS
            <4>2. w = [v EXCEPT !.rec = r, !.mtp = m, !.kvLen = l]
                BY <1>6, <1>8, <3>1, <4>1 DEF TxnRestore, IsSession
            <4> QED
                BY <1>8, <4>1, <4>2 DEF IsSession
        <3> QED
            BY <1>7, <2>2, <3>1, <3>2, HeadFields
    <2>7. b.rows \in Seq(Tokens) /\ k <= Len(b.rows) /\ Typed(b)
        BY <2>5 DEF Core, Typed
    <2>8. HeadLevel(b)
        <3>1. Heads(b.rows, k) = Heads(s.rows, k)
            <4>1. k \in 0 .. Len(b.rows) /\ k <= Len(s.rows)
                BY <1>8, <2>7
            <4> QED
                BY <1>8, <2>5, <2>7, <4>1, HeadsAgree
        <3> QED
            BY <1>5, <1>7, <2>5, <2>6, <3>1 DEF HeadLevel, SameModel
    <2>9. HeadLevel(x.s)
        BY <2>1, <2>3, <2>7, <2>8, PrefillOnceHead
    <2>10. /\ Core(x.s) /\ SameModel(b, x.s) /\ \A i \in 1 .. k : x.s.rows[i] = b.rows[i]
           /\ x.st = "OK" => x.s.kvLen = k + a
           /\ x.st # "OK" => x.s.kvLen = k
        <3>1. /\ Core(x.s) /\ ~x.s.txn.active /\ SameModel(b, x.s) /\ SameCkpts(b, x.s)
              /\ x.s.deferred = b.deferred /\ x.s.prefixLength = b.prefixLength
              /\ \A i \in 1 .. b.kvLen : x.s.rows[i] = b.rows[i]
              /\ Current(b) => Current(x.s)
              /\ x.st = "OK" => /\ Content(x.s) = Content(b) \o p /\ x.s.kvLen = b.kvLen + Len(p)
                                /\ Current(x.s) /\ x.s.logitsValid
              /\ x.st # "OK" => x.s.kvLen = b.kvLen /\ (RoomFor(b, Len(p)) => ~x.s.logitsValid)
            <4>1. p \in Seq(Tokens) /\ x \in PrefillOnce(b, p, canFail) /\ x.faults = 0 /\ Core(b)
                BY <2>1, <2>3, <2>5
            <4> QED
                BY <4>1, PrefillOnceCore
        <3> QED
            BY <2>1, <2>5, <3>1
    <2>11. PICK z : z = x.s /\ IsSession(z)
        BY <2>10 DEF Core, Typed
    <2>12. CASE x.st = "OK"
        <3>1. PICK t : t = Cut(z, n)
            OBVIOUS
        <3>2. o.s = t
            BY <2>3, <2>11, <2>12, <3>1
        <3>3. t.rows = z.rows /\ t.kvLen = n /\ t.mtp = z.mtp
            BY <2>11, <3>1, CutFields, HeadFields
        <3>4. z.mtp = Heads(z.rows, n)
            <4>1. z.usesMtp
                BY <1>4, <2>5, <2>10, <2>11 DEF SameModel
            <4>2. z.kvLen = n
                BY <1>10, <2>10, <2>11, <2>12
            <4> QED
                BY <2>9, <2>11, <4>1, <4>2 DEF HeadLevel
        <3> QED
            BY <3>2, <3>3, <3>4
    <2>13. CASE x.st # "OK"
        <3>1. PICK m : m = v.txn
            OBVIOUS
        <3>2. PICK y, w, c, d : /\ y = [z EXCEPT !.txn = m] /\ w = TxnRestore(y) /\ c = Commit(w) /\ d = DropLogits(c)
            OBVIOUS
        <3>3. o.s = d
            BY <2>3, <2>11, <2>13, <3>1, <3>2
        <3>4. IsSession(y) /\ y.txn = m /\ y.rows = z.rows
            BY <2>11, <3>2 DEF IsSession
        <3>5. IsSession(w) /\ w.mtp = s.mtp /\ w.kvLen = k /\ w.rows = z.rows
            <4>1. m.active /\ m.mtp = s.mtp /\ m.base = k
                BY <1>6, <1>7, <3>1
            <4>2. PICK r, h, l : r = m.rec /\ h = m.mtp /\ l = m.base
                OBVIOUS
            <4>3. w = [y EXCEPT !.rec = r, !.mtp = h, !.kvLen = l]
                BY <3>2, <3>4, <4>1, <4>2 DEF TxnRestore, IsSession
            <4> QED
                BY <3>4, <4>1, <4>2, <4>3 DEF IsSession
        <3>6. IsSession(c) /\ c.mtp = s.mtp /\ c.kvLen = k /\ c.rows = z.rows
            BY <3>2, <3>5, CommitFields, HeadFields DEF SameText
        <3>7. d.mtp = s.mtp /\ d.kvLen = k /\ d.rows = z.rows
            BY <3>2, <3>6, DropLogitsFields, HeadFields DEF SameText
        <3>8. z.rows \in Seq(Tokens) /\ k <= Len(z.rows) /\ \A i \in 1 .. k : z.rows[i] = s.rows[i]
            BY <2>5, <2>10, <2>11, <2>13 DEF Core, Typed
        <3>9. Heads(z.rows, k) = Heads(s.rows, k)
            <4>1. k \in 0 .. Len(z.rows) /\ k <= Len(s.rows)
                BY <1>8, <3>8
            <4> QED
                BY <1>8, <3>8, <4>1, HeadsAgree
        <3> QED
            BY <1>7, <3>3, <3>7, <3>9
    <2> QED
        BY <2>12, <2>13
<1> QED
    BY <1>11, <1>12

\* The model's predictions for a verify's rows are tokens.
LEMMA VerifiedTokens ==
    ASSUME NEW s, Core(s), NEW ids \in Seq(Tokens), RoomFor(s, Len(ids)), NEW a \in 1 .. Len(ids)
    PROVE  Predict(Content(s) \o SubSeq(ids, 1, a)) \in Tokens
<1>1. PICK k, n \in Nat : k = s.kvLen /\ n = Len(ids)
    BY DEF Core, Typed
<1>2. Content(s) \in Seq(Tokens) /\ Len(Content(s)) = k
    BY <1>1, ContentTyped DEF Core
<1>3. SubSeq(ids, 1, a) \in Seq(Tokens) /\ Len(SubSeq(ids, 1, a)) = a
    <2>1. a \in 0 .. Len(ids)
        OBVIOUS
    <2> QED
        BY <2>1, CutText
<1>4. PICK t : t = Content(s) \o SubSeq(ids, 1, a)
    OBVIOUS
<1>5. t \in Seq(Tokens) /\ Len(t) = k + a
    BY <1>2, <1>3, <1>4, ConcatProperties
<1>6. s.maxLen \in MaxLens /\ k + n <= s.maxLen /\ s.maxLen \in Nat
    <2>1. s.maxLen \in MaxLens /\ k + n <= s.maxLen
        BY <1>1 DEF RoomFor, Core, Typed
    <2>2. PICK m \in Models : s.maxLen = m.maxLen
        BY <2>1 DEF MaxLens
    <2> QED
        BY <2>1, <2>2, SessionConstants
<1>7. Len(t) <= s.maxLen
    BY <1>1, <1>5, <1>6
<1> QED
    BY <1>4, <1>5, <1>6, <1>7, PredictTyped

\* What spec_verify returns are tokens.
LEMMA SpecVerifyTyped ==
    ASSUME NEW s, Rest(s), NEW drafts \in Seq(Tokens), drafts # <<>>, NEW canFail,
           NEW o \in SpecVerify(s, drafts, canFail), o.st = "OK"
    PROVE  o.toks \in Seq(Tokens) /\ o.toks # <<>>
<1>1. PICK v \in VerifyForward(s, drafts, canFail) :
              /\ v.st # "OK" => o = v
              /\ v.st = "OK" => \E k \in KeptOuts(s, drafts, v, canFail) : \E x :
                                   SpecSteps(s, drafts, canFail, v, k, x, o)
    BY SpecVerifySplit
<1>2. Core(s) /\ ~s.txn.active
    BY DEF Rest
<1>3. v.st = "OK" /\ v.faults = 0
    BY <1>1, VerifyForwardCounted DEF Counted, Tallied
<1>4. /\ RoomFor(s, Len(drafts))
      /\ v.toks = [i \in 1 .. Len(drafts) |-> Predict(Content(s) \o SubSeq(drafts, 1, i))]
    BY <1>2, <1>3, VerifyForwardCore DEF VerifyDone
<1>5. PICK n \in Nat : n = Len(drafts) /\ n > 0
    <2>1. Len(drafts) \in Nat /\ (Len(drafts) = 0 => drafts = <<>>)
        BY EmptySeq
    <2> QED
        BY <2>1
<1>6. PICK a \in 0 .. n - 1 : a = Accepted(drafts, v.toks)
    BY <1>5, AcceptedRange
<1>7. PICK b \in 1 .. Len(drafts) : b = a + 1
    BY <1>5
<1>8. v.toks[b] \in Tokens
    BY <1>2, <1>4, VerifiedTokens
<1>9. PICK k \in KeptOuts(s, drafts, v, canFail) : \E x : SpecSteps(s, drafts, canFail, v, k, x, o)
    BY <1>1, <1>3
<1>10. PICK x : SpecSteps(s, drafts, canFail, v, k, x, o)
    BY <1>9
<1>11. o.st = x.st
    BY <1>10 DEF SpecSteps
<1>12. PICK y : y = SubSeq(drafts, 1, b) \o <<v.toks[b]>>
    OBVIOUS
<1>14. o.toks = y
    BY <1>6, <1>7, <1>10, <1>11, <1>12 DEF SpecSteps
<1>15. PICK q, z \in Seq(Tokens) : q = SubSeq(drafts, 1, b) /\ z = <<v.toks[b]>> /\ Len(z) = 1
    <2>1. b \in 0 .. Len(drafts)
        OBVIOUS
    <2>2. SubSeq(drafts, 1, b) \in Seq(Tokens)
        BY <2>1, CutText
    <2>3. <<v.toks[b]>> \in Seq(Tokens) /\ Len(<<v.toks[b]>>) = 1
        BY <1>8
    <2> QED
        BY <2>2, <2>3
<1>16. y \in Seq(Tokens) /\ Len(y) = Len(q) + Len(z)
    BY <1>12, <1>15, ConcatProperties
<1>17. Len(y) # 0
    BY <1>15, <1>16
<1>18. y # <<>>
    BY <1>17
<1> QED
    BY <1>14, <1>16, <1>18

\* spec_verify leaves the head level.
LEMMA SpecVerifyHead ==
    ASSUME NEW s, Rest(s), HeadLevel(s), NEW drafts \in Seq(Tokens), drafts # <<>>, NEW canFail,
           NEW o \in SpecVerify(s, drafts, canFail), o.faults = 0
    PROVE  HeadLevel(o.s)
<1>1. PICK v \in VerifyForward(s, drafts, canFail) :
              /\ v.st # "OK" => o = v
              /\ v.st = "OK" => \E k \in KeptOuts(s, drafts, v, canFail) : \E x :
                                   SpecSteps(s, drafts, canFail, v, k, x, o)
    BY SpecVerifySplit
<1>2. Core(s) /\ ~s.txn.active
    BY DEF Rest
<1>3. CASE v.st # "OK"
    <2>1. o = v /\ v.faults = 0
        BY <1>1, <1>3
    <2>2. VerifyDone(s, drafts, v)
        BY <1>2, <2>1, VerifyForwardCore
    <2> QED
        BY <1>3, <2>1, <2>2 DEF VerifyDone
<1>4. CASE v.st = "OK"
    <2>1. v.faults = 0
        BY <1>4, VerifyForwardCounted DEF Counted, Tallied
    <2>2. /\ RoomFor(s, Len(drafts)) /\ Verified(s, drafts, v.s)
          /\ v.toks = [i \in 1 .. Len(drafts) |-> Predict(Content(s) \o SubSeq(drafts, 1, i))]
        BY <1>2, <1>4, <2>1, VerifyForwardCore DEF VerifyDone
    <2>3. HeadVerified(s, v.s)
        BY <1>2, <1>4, <2>1, VerifyForwardHead
    <2>4. PICK n \in Nat : n = Len(drafts) /\ n > 0
        <3>1. Len(drafts) \in Nat /\ (Len(drafts) = 0 => drafts = <<>>)
            BY EmptySeq
        <3> QED
            BY <3>1
    <2>5. PICK a \in 0 .. n - 1 : a = Accepted(drafts, v.toks)
        BY <2>4, AcceptedRange
    <2>6. PICK c : c = v.toks[a + 1]
        OBVIOUS
    <2>7. c \in Tokens
        <3>1. PICK b \in 1 .. Len(drafts) : b = a + 1
            BY <2>4
        <3> QED
            BY <1>2, <2>2, <2>6, <3>1, VerifiedTokens
    <2>8. PICK k \in KeptOuts(s, drafts, v, canFail) : \E x : SpecSteps(s, drafts, canFail, v, k, x, o)
        BY <1>1, <1>4
    <2>9. PICK x : SpecSteps(s, drafts, canFail, v, k, x, o)
        BY <2>8
    <2>10. IF k.st = "OK" THEN x \in PrefillOnce(k.s, <<c>>, canFail) ELSE x = k
        BY <2>5, <2>6, <2>9 DEF SpecSteps
    <2>11. o.s = x.s /\ x.faults = 0 /\ k.faults = 0
        BY <2>9 DEF SpecSteps
    <2>13. Typed(k.s) /\ HeadLevel(k.s)
        <3>1. CASE a = Len(drafts) - 1
            <4>1. k = Ok(v.s)
                BY <2>5, <3>1 DEF KeptOuts
            <4> QED
                BY <2>2, <2>3, <4>1, OkCounted DEF Verified, HeadVerified, Core
        <3>2. CASE a # Len(drafts) - 1
            <4>1. k \in KvTruncate(v.s, s.kvLen + a + 1, canFail)
                BY <2>5, <3>2 DEF KeptOuts
            <4>2. PICK b \in 1 .. Len(drafts) - 1 : b = a + 1
                BY <2>4, <3>2
            <4>3. s.kvLen + a + 1 = s.kvLen + b
                <5>1. PICK l \in Nat : l = s.kvLen
                    BY <1>2 DEF Core, Typed
                <5>2. l + a + 1 = l + b
                    BY <2>4, <4>2
                <5> QED
                    BY <5>1, <5>2
            <4>4. k \in KvTruncate(v.s, s.kvLen + b, canFail)
                BY <4>1, <4>3
            <4>5. RolledBack(s, b, k) /\ HeadLevel(k.s)
                BY <1>2, <2>2, <2>3, <2>11, <4>4, KvTruncateCore, KvTruncateHead
            <4> QED
                BY <4>5 DEF RolledBack, Core
        <3> QED
            BY <3>1, <3>2
    <2>14. CASE k.st # "OK"
        BY <2>10, <2>11, <2>13, <2>14
    <2>15. CASE k.st = "OK"
        <3>1. PICK p : p = <<c>> /\ p \in Seq(Tokens)
            <4>1. <<c>> \in Seq(Tokens)
                BY <2>7
            <4> QED
                BY <4>1
        <3>2. x \in PrefillOnce(k.s, p, canFail)
            BY <2>10, <2>15, <3>1
        <3>3. p \in Seq(Tokens) /\ x.faults = 0
            BY <2>11, <3>1
        <3>4. HeadLevel(x.s)
            BY <2>13, <3>2, <3>3, PrefillOnceHead
        <3> QED
            BY <2>11, <3>4
    <2> QED
        BY <2>14, <2>15
<1> QED
    BY <1>3, <1>4

-----------------------------------------------------------------------------
(* The target's part of a call. *)

\* No backend operation of the target fails here: it stays as Session has it
\* then, its head level, and what the call does to the text is a conversation's step.
Sound(s, o) == /\ Good(o.s) /\ HeadLevel(o.s) /\ Speaks(s, o)
               /\ o.st = "OK" => o.toks \in Seq(Tokens)

\* A call that begins with a settle.
LEMMA SettledSound ==
    ASSUME NEW s, Good(s), HeadLevel(s), NEW o \in Settle(s, FALSE)
    PROVE  /\ Good(o.s) /\ HeadLevel(o.s) /\ SameView(s, o.s) /\ (o.st = "OK" => Paid(o.s))
           /\ \A r : Sound(o.s, r) => Sound(s, r)
<1>1. Good(o.s) /\ SameView(s, o.s) /\ (o.st = "OK" => Paid(o.s))
    BY SettleGood
<1>2. HeadLevel(o.s)
    <2>1. PICK f : f = FALSE
        OBVIOUS
    <2>2. o \in Settle(s, f) /\ o.faults = 0 /\ Held(s)
        BY <2>1, SettleSure DEF Good
    <2> QED
        BY <2>2, SettleHead
<1>3. ASSUME NEW r, Sound(o.s, r)
      PROVE  Sound(s, r)
    BY <1>1, <1>3, UnseenThenSpeaks DEF Sound
<1> QED
    BY <1>1, <1>2, <1>3

LEMMA DecodeSound ==
    ASSUME NEW s, Good(s), HeadLevel(s), NEW o \in DecodeStep(s, FALSE)
    PROVE  Sound(s, o)
<1>1. PICK f : f = FALSE
    OBVIOUS
<1>2. o \in DecodeStep(s, f) /\ o.faults = 0 /\ Held(s)
    BY <1>1, DecodeStepSure DEF Good
<1>3. HeadLevel(o.s) /\ (o.st = "OK" => o.toks \in Seq(Tokens))
    BY <1>2, DecodeStepHead, DecodeTyped
<1>4. Good(o.s) /\ Speaks(s, o)
    BY DecodeGood
<1> QED
    BY <1>3, <1>4 DEF Sound

\* The seed and the guesses are verified from the second token on.
LEMMA Drafted ==
    ASSUME NEW y \in Tokens, NEW guesses \in Seq(Tokens), NEW p, p = <<y>> \o guesses
    PROVE  p \in Seq(Tokens) /\ p # <<>> /\ p[1] = y
<1>1. PICK q \in Seq(Tokens) : q = <<y>> /\ Len(q) = 1 /\ q[1] = y
    <2>1. <<y>> \in Seq(Tokens) /\ Len(<<y>>) = 1 /\ <<y>>[1] = y
        OBVIOUS
    <2> QED
        BY <2>1
<1>2. /\ q \o guesses \in Seq(Tokens) /\ Len(q \o guesses) = Len(q) + Len(guesses)
      /\ \A i \in 1 .. Len(q) + Len(guesses) : (q \o guesses)[i] = IF i <= Len(q) THEN q[i] ELSE guesses[i - Len(q)]
    BY ConcatProperties
<1>3. PICK g \in Nat : g = Len(guesses)
    OBVIOUS
<1>4. p \in Seq(Tokens) /\ Len(p) = 1 + g /\ p[1] = y
    <2>1. 1 \in 1 .. Len(q) + Len(guesses) /\ 1 <= Len(q)
        BY <1>1, <1>3
    <2>2. (q \o guesses)[1] = q[1]
        BY <1>2, <2>1
    <2> QED
        BY <1>1, <1>2, <1>3, <2>2
<1>5. Len(p) # 0
    BY <1>3, <1>4
<1> QED
    BY <1>4, <1>5

\* The verify of any guesses.
LEMMA VerifySound ==
    ASSUME NEW s, Good(s), Paid(s), s.logitsValid, HeadLevel(s), NEW guesses \in Seq(Tokens),
           NEW o \in SpecVerify(s, <<PendingToken(s)>> \o guesses, FALSE)
    PROVE  Sound(s, o) /\ (o.st = "OK" => o.toks # <<>>)
<1>1. Rest(s) /\ Held(s) /\ Current(s) /\ ~s.deferred
    BY DEF Good, Paid, Rest
<1>2. PICK y \in Tokens : y = PendingToken(s)
    BY <1>1 DEF Held, Owes
<1>3. PICK p : p = <<y>> \o guesses
    OBVIOUS
<1>4. p \in Seq(Tokens) /\ p # <<>> /\ p[1] = PendingToken(s)
    BY <1>2, <1>3, Drafted
<1>5. o \in SpecVerify(s, p, FALSE)
    BY <1>2, <1>3
<1>6. PICK f : f = FALSE
    OBVIOUS
<1>7. o \in SpecVerify(s, p, f) /\ o.faults = 0
    BY <1>5, <1>6, SpecVerifySure
<1>8. Rest(o.s) /\ HeadLevel(o.s)
    BY <1>1, <1>4, <1>7, SpecVerifyRest, SpecVerifyHead
<1>9. Promise(s, o) /\ Speaks(s, o)
    BY <1>1, <1>4, <1>7, SpecVerifySpeaks
<1>10. o.s.deferred = s.deferred
    BY <1>1, <1>4, <1>5, SpecVerifyDebt
<1>11. Good(o.s)
    BY <1>8, <1>9, <1>10 DEF Good, Promise, Settles, Paid
<1>12. o.st = "OK" => o.toks \in Seq(Tokens) /\ o.toks # <<>>
    BY <1>1, <1>4, <1>7, SpecVerifyTyped
<1> QED
    BY <1>8, <1>9, <1>11, <1>12 DEF Sound

\* A call that only returns an error.
LEMMA ErrorSound ==
    ASSUME NEW s, Good(s), HeadLevel(s), NEW st, st # "OK"
    PROVE  Sound(s, Out(s, st, <<>>, 0))
<1>1. PICK o : o = Out(s, st, <<>>, 0)
    OBVIOUS
<1>2. o.s = s /\ o.st = st
    BY <1>1, OutCounted
<1>3. Text(s) \in Seq(Tokens)
    BY TextTyped DEF Good, Held
<1>4. Extends(s, o)
    BY <1>2, <1>3, StartSelf DEF Extends, SaidBy
<1> QED
    BY <1>1, <1>2, <1>4 DEF Sound, Speaks

\* Chain by its members.
ChainOf(x, r, o) == o = [r EXCEPT !.toks = x.toks \o @, !.faults = @ + x.faults]

LEMMA ChainedFields ==
    ASSUME NEW x, NEW r, IsOut(r), NEW o, ChainOf(x, r, o)
    PROVE  IsOut(o) /\ o.s = r.s /\ o.st = r.st /\ o.toks = x.toks \o r.toks /\ o.faults = r.faults + x.faults
<1>1. PICK t, f : t = x.toks \o r.toks /\ f = r.faults + x.faults
    OBVIOUS
<1>2. o = [r EXCEPT !.toks = t, !.faults = f]
    BY <1>1 DEF ChainOf, IsOut
<1> QED
    BY <1>1, <1>2 DEF IsOut

\* geist_session_prefill_tokens, of the target.
LEMMA FeedSound ==
    ASSUME NEW s, Good(s), HeadLevel(s), NEW ids \in Seq(Tokens), NEW o \in Feed(s, ids)
    PROVE  Good(o.s) /\ HeadLevel(o.s) /\ StartOf(Text(s), Text(o.s)) /\ Pin(o.s) = Pin(s)
<1>1. PICK x \in Settle(s, FALSE) : IF x.st = "OK" THEN \E r \in PrefillOnce(x.s, ids, FALSE) : ChainOf(x, r, o)
                                    ELSE o = x
    BY DEF Feed, Chain, ChainOf
<1>2. /\ Good(x.s) /\ HeadLevel(x.s) /\ SameView(s, x.s) /\ (x.st = "OK" => Paid(x.s))
    BY SettledSound
<1>3. Text(x.s) = Text(s) /\ Pin(x.s) = Pin(s)
    BY <1>2 DEF SameView
<1>4. CASE x.st # "OK"
    <2>1. Text(s) \in Seq(Tokens)
        BY TextTyped DEF Good, Held
    <2> QED
        BY <1>1, <1>2, <1>3, <1>4, <2>1, StartSelf
<1>5. CASE x.st = "OK"
    <2>1. PICK r \in PrefillOnce(x.s, ids, FALSE) : ChainOf(x, r, o)
        BY <1>1, <1>5
    <2>2. o.s = r.s
        BY <2>1, ChainedFields, PrefillOnceCounted DEF Counted, Tallied
    <2>3. Good(r.s) /\ Extends(x.s, r)
        BY <1>2, <1>5, FedGood
    <2>4. PICK f : f = FALSE
        OBVIOUS
    <2>5. r \in PrefillOnce(x.s, ids, f) /\ r.faults = 0 /\ Typed(x.s)
        BY <1>2, <2>4, PrefillOnceSure DEF Good, Held
    <2>6. HeadLevel(r.s)
        BY <1>2, <2>5, PrefillOnceHead
    <2> QED
        BY <1>3, <2>2, <2>3, <2>6 DEF Extends
<1> QED
    BY <1>4, <1>5

-----------------------------------------------------------------------------
(* The draft session: SessionOpsProofs again, of the draft's models. *)

DP == INSTANCE SessionOpsProofs WITH Predict <- DraftPredict, Models <- DraftModels

\* What SessionOpsProofs assumes.
LEMMA DraftConstants ==
    /\ MMax \in Nat \ {0} /\ Slots \in Nat \ {0} /\ RowSlots \in Nat
    /\ DraftModels \subseteq [recurrent : BOOLEAN, keepsRows : BOOLEAN,
                              mtp : BOOLEAN, maxLen : Nat]
    /\ \A m \in DraftModels : m.mtp => m.recurrent
    /\ Tokens # {}
    /\ \A m \in DraftModels : \A n \in 0 .. m.maxLen : \A t \in [1 .. n -> Tokens] : DraftPredict(t) \in Tokens
BY SessionConstants, SpeculationConstants

\* The draft's operations are those of the proofs.
LEMMA SameOk == \A s : D!Ok(s) = DP!Ok(s)
    BY DEF D!Ok, DP!Ok, D!Out, DP!Out

LEMMA SameFailed == \A s : D!Failed(s) = DP!Failed(s)
    BY DEF D!Failed, DP!Failed, D!Out, DP!Out

LEMMA SameRefused == \A s, st : D!Refused(s, st) = DP!Refused(s, st)
    BY DEF D!Refused, DP!Refused, D!Out, DP!Out

LEMMA SameCommit == \A s : D!Commit(s) = DP!Commit(s)
    BY DEF D!Commit, DP!Commit, D!NoTxn, DP!NoTxn, D!NoMtp, DP!NoMtp

LEMMA SameForwarded == \A s, ids : D!Forwarded(s, ids) = DP!Forwarded(s, ids)
    BY DEF D!Forwarded, DP!Forwarded, D!MtpSync, DP!MtpSync, D!MtpRows, DP!MtpRows, D!Content,
       DP!Content

LEMMA SameBroken == \A s, ids : D!Broken(s, ids) = DP!Broken(s, ids)
    BY SameForwarded DEF D!Broken, DP!Broken

LEMMA SameFinalized == \A s : D!Finalized(s) = DP!Finalized(s)
    BY DEF D!Finalized, DP!Finalized, D!Content, DP!Content

LEMMA SamePending == \A s : D!PendingToken(s) = DP!PendingToken(s)
    BY DEF D!PendingToken, DP!PendingToken

LEMMA SameRunStep == \A s, t, f : D!RunStep(s, t, f) = DP!RunStep(s, t, f)
<1> TAKE s, t, f
<1>1. PICK c : c = D!Commit(s) /\ c = DP!Commit(s)
    BY SameCommit
<1>2. PICK w : w = D!Forwarded(c, <<t>>) /\ w = DP!Forwarded(c, <<t>>)
    BY SameForwarded
<1>3. PICK u : u = [w EXCEPT !.kvLen = @ + 1]
    OBVIOUS
<1>4. PICK z, b : z = D!Finalized(u) /\ z = DP!Finalized(u) /\ b = D!Broken(c, <<t>>) /\ b = DP!Broken(c, <<t>>)
    BY SameFinalized, SameBroken
<1>5. D!RunStep(s, t, f) = IF ~D!RoomFor(s, 1) THEN D!Refused(c, "TOO_MANY_TOKENS")
                           ELSE {D!Ok(z)} \cup (IF f THEN {D!Failed(x) : x \in b} ELSE {})
    BY <1>1, <1>2, <1>3, <1>4 DEF D!RunStep
<1>6. DP!RunStep(s, t, f) = IF ~DP!RoomFor(s, 1) THEN DP!Refused(c, "TOO_MANY_TOKENS")
                            ELSE {DP!Ok(z)} \cup (IF f THEN {DP!Failed(x) : x \in b} ELSE {})
    BY <1>1, <1>2, <1>3, <1>4 DEF DP!RunStep
<1>7. {D!Failed(x) : x \in b} = {DP!Failed(x) : x \in b}
    BY SameFailed
<1> QED
    BY <1>5, <1>6, <1>7, SameRefused, SameOk DEF D!RoomFor, DP!RoomFor

LEMMA SameSettle == \A s, f : D!Settle(s, f) = DP!Settle(s, f)
<1> TAKE s, f
<1>1. PICK y : y = D!PendingToken(s) /\ y = DP!PendingToken(s)
    BY SamePending
<1>2. PICK r : r = D!RunStep(s, y, f) /\ r = DP!RunStep(s, y, f)
    BY SameRunStep
<1> QED
    BY <1>1, <1>2 DEF D!Settle, DP!Settle, D!Then, DP!Then, D!Ok, DP!Ok, D!Out, DP!Out

LEMMA SameDecodeStep == \A s, f : D!DecodeStep(s, f) = DP!DecodeStep(s, f)
<1> TAKE s, f
<1>1. PICK r : r = D!Settle(s, f) /\ r = DP!Settle(s, f)
    BY SameSettle
<1> QED
    BY <1>1 DEF D!DecodeStep, DP!DecodeStep, D!DecodeSettled, DP!DecodeSettled, D!Then, DP!Then,
       D!Cancelled, DP!Cancelled, D!Refused, DP!Refused, D!Out, DP!Out, D!RoomFor, DP!RoomFor, D!Commit,
       DP!Commit, D!NoTxn, DP!NoTxn, D!NoMtp, DP!NoMtp, D!PendingToken, DP!PendingToken

LEMMA SamePrefillOnce == \A s, ids, f : D!PrefillOnce(s, ids, f) = DP!PrefillOnce(s, ids, f)
<1> TAKE s, ids, f
<1>1. PICK c : c = D!Commit(s) /\ c = DP!Commit(s)
    BY SameCommit
<1>2. PICK w : w = D!Forwarded(c, ids) /\ w = DP!Forwarded(c, ids)
    BY SameForwarded
<1>3. PICK u : u = [w EXCEPT !.kvLen = @ + Len(ids)]
    OBVIOUS
<1>4. PICK z, b : z = D!Finalized(u) /\ z = DP!Finalized(u) /\ b = D!Broken(c, ids) /\ b = DP!Broken(c, ids)
    BY SameFinalized, SameBroken
<1>5. D!PrefillChunk(c, ids, TRUE, f) = IF c.cancel THEN D!Cancelled([c EXCEPT !.logitsValid = FALSE])
          ELSE {D!Ok(z)} \cup (IF f THEN {D!Failed(x) : x \in b} ELSE {}) \cup (IF f THEN {D!Failed(u)} ELSE {})
    BY <1>2, <1>3, <1>4 DEF D!PrefillChunk
<1>6. DP!PrefillChunk(c, ids, TRUE, f) = IF c.cancel THEN DP!Cancelled([c EXCEPT !.logitsValid = FALSE])
          ELSE {DP!Ok(z)} \cup (IF f THEN {DP!Failed(x) : x \in b} ELSE {}) \cup (IF f THEN {DP!Failed(u)} ELSE {})
    BY <1>2, <1>3, <1>4 DEF DP!PrefillChunk
<1>7. {D!Failed(x) : x \in b} = {DP!Failed(x) : x \in b}
    BY SameFailed
<1>8. \A x : D!Cancelled(x) = DP!Cancelled(x)
    BY SameRefused DEF D!Cancelled, DP!Cancelled
<1>9. D!PrefillChunk(c, ids, TRUE, f) = DP!PrefillChunk(c, ids, TRUE, f)
    BY <1>5, <1>6, <1>7, <1>8, SameOk, SameFailed
<1> QED
    BY <1>1, <1>9, SameRefused DEF D!PrefillOnce, DP!PrefillOnce, D!RoomFor, DP!RoomFor

LEMMA SameCheckpoint == \A s, f : D!Checkpoint(s, f) = DP!Checkpoint(s, f)
<1> TAKE s, f
<1>1. PICK r : r = D!Settle(s, f) /\ r = DP!Settle(s, f)
    BY SameSettle
<1> QED
    BY <1>1 DEF D!Checkpoint, DP!Checkpoint, D!CheckpointSettled, DP!CheckpointSettled, D!Then, DP!Then,
       D!Ok, DP!Ok, D!Failed, DP!Failed, D!Refused, DP!Refused, D!Out, DP!Out, D!Commit, DP!Commit,
       D!NoTxn, DP!NoTxn, D!NoMtp, DP!NoMtp, D!Evicted, DP!Evicted, D!CkptSlot, DP!CkptSlot

LEMMA SameTruncate == \A s, n, f : D!Truncate(s, n, f) = DP!Truncate(s, n, f)
<1> TAKE s, n, f
<1>1. PICK r : r = D!Settle(s, f) /\ r = DP!Settle(s, f)
    BY SameSettle
<1> QED
    BY <1>1 DEF D!Truncate, DP!Truncate, D!TruncateSettled, DP!TruncateSettled, D!Then, DP!Then, D!Ok,
       DP!Ok, D!Failed, DP!Failed, D!Refused, DP!Refused, D!Out, DP!Out, D!Commit, DP!Commit, D!NoTxn,
       DP!NoTxn, D!NoMtp, DP!NoMtp, D!Reset, DP!Reset, D!DropLogits, DP!DropLogits, D!NoPending,
       DP!NoPending, D!CkptAt, DP!CkptAt, D!CheckpointRestore, DP!CheckpointRestore, D!CkptSlot,
       DP!CkptSlot, D!Pruned, DP!Pruned, D!Cut, DP!Cut

LEMMA SameReset == \A s : D!Reset(s) = DP!Reset(s)
    BY DEF D!Reset, DP!Reset, D!DropLogits, DP!DropLogits, D!NoPending, DP!NoPending, D!Commit,
       DP!Commit, D!NoTxn, DP!NoTxn, D!NoMtp, DP!NoMtp

LEMMA SameNewSession == \A s : D!NewSession(s) = DP!NewSession(s)
    BY DEF D!NewSession, DP!NewSession, D!NoMtp, DP!NoMtp, D!NoTxn, DP!NoTxn, D!NoPending, DP!NoPending

LEMMA SameContent == \A s : DP!Content(s) = D!Content(s)
    BY DEF DP!Content, D!Content

LEMMA DraftText == \A s : D!Text(s) = D!Content(s) \o (IF s.deferred THEN <<D!PendingToken(s)>> ELSE <<>>)
    BY DEF D!Text

LEMMA ProofText == \A s : DP!Text(s) = DP!Content(s) \o (IF s.deferred THEN <<DP!PendingToken(s)>> ELSE <<>>)
    BY DEF DP!Text

LEMMA SameTexts == \A s : D!Text(s) = DP!Text(s)
    BY DraftText, ProofText, SameContent, SamePending

\* At rest as long as c, and held in any case.
AtRest(c, d) == DP!Held(d) /\ (c => DP!Rest(d))

\* An outcome of the draft, which was at rest before as long as c.
DraftOut(c, o) == /\ IsOut(o) /\ o.faults \in Nat
                  /\ AtRest(c /\ o.faults = 0, o.s)
                  /\ o.st = "OK" => o.toks \in Seq(Tokens)

LEMMA DraftOk ==
    ASSUME NEW c, NEW d, AtRest(c, d)
    PROVE  DraftOut(c, Ok(d))
<1>1. PICK o : o = Ok(d)
    OBVIOUS
<1>2. Counted(o) /\ o.s = d /\ o.toks = <<>> /\ o.faults = 0
    BY <1>1, OkCounted
<1>3. <<>> \in Seq(Tokens)
    OBVIOUS
<1> QED
    BY <1>1, <1>2, <1>3 DEF DraftOut, AtRest, Counted, Tallied

\* Two operations of the draft one after the other.
LEMMA DraftChained ==
    ASSUME NEW c, NEW x, DraftOut(c, x), x.st = "OK", NEW r, DraftOut(c /\ x.faults = 0, r),
           NEW o, ChainOf(x, r, o)
    PROVE  DraftOut(c, o)
<1>1. IsOut(o) /\ o.s = r.s /\ o.st = r.st /\ o.toks = x.toks \o r.toks /\ o.faults = r.faults + x.faults
    BY ChainedFields DEF DraftOut
<1>2. x.faults \in Nat /\ r.faults \in Nat
    BY DEF DraftOut
<1>3. o.faults \in Nat /\ (o.faults = 0 => x.faults = 0 /\ r.faults = 0)
    BY <1>1, <1>2
<1>4. AtRest(c /\ o.faults = 0, o.s)
    BY <1>1, <1>3 DEF DraftOut, AtRest
<1>5. ASSUME o.st = "OK"
      PROVE  o.toks \in Seq(Tokens)
    <2>1. x.toks \in Seq(Tokens) /\ r.toks \in Seq(Tokens)
        BY <1>1, <1>5 DEF DraftOut
    <2> QED
        BY <1>1, <2>1, ConcatProperties
<1> QED
    BY <1>1, <1>3, <1>4, <1>5 DEF DraftOut

LEMMA SameOut == \A o : DP!IsOut(o) <=> IsOut(o)
    BY DEF DP!IsOut, IsOut

\* A settle of the draft, as SessionOpsProofs has it.
LEMMA DraftSettled ==
    ASSUME NEW c, NEW d, AtRest(c, d), NEW f, NEW o \in D!Settle(d, f)
    PROVE  DraftOut(c, o) /\ (o.st = "OK" => ~o.s.deferred)
<1>1. o \in DP!Settle(d, f) /\ DP!Held(d) /\ (c => DP!Rest(d))
    BY SameSettle DEF AtRest
<1>2. DP!SettledAs(d, o)
    BY <1>1, DraftConstants, DP!SettleUnseen
<1>3. IsOut(o) /\ o.faults \in Nat
    BY <1>1, SameOut, DraftConstants, DP!SettleCounted DEF DP!Counted, DP!Tallied
<1>4. DP!SaidBy(o) = <<>>
    BY <1>1, DraftConstants, DP!SettleSays
<1>5. c /\ o.faults = 0 => DP!Rest(o.s)
    BY <1>1, DraftConstants, DP!SettleRest
<1>6. DP!Held(o.s) /\ (o.st = "OK" => ~o.s.deferred)
    BY <1>2 DEF DP!SettledAs
<1>7. o.st = "OK" => o.toks \in Seq(Tokens)
    <2>1. <<>> \in Seq(Tokens)
        OBVIOUS
    <2> QED
        BY <1>4, <2>1 DEF DP!SaidBy
<1> QED
    BY <1>3, <1>5, <1>6, <1>7 DEF DraftOut, AtRest

\* A prefill of the settled draft.
LEMMA DraftFed ==
    ASSUME NEW c, NEW d, AtRest(c, d), ~d.deferred, NEW ids \in Seq(Tokens), NEW f, NEW o \in D!PrefillOnce(d, ids, f)
    PROVE  DraftOut(c, o)
<1>1. o \in DP!PrefillOnce(d, ids, f) /\ DP!Held(d) /\ (c => DP!Rest(d))
    BY SamePrefillOnce DEF AtRest
<1>2. DP!Typed(d) /\ DP!Owes(d)
    BY <1>1 DEF DP!Held
<1>3. DP!Fed(d, ids, o)
    BY <1>1, <1>2, DraftConstants, DP!PrefillOnceFed
<1>4. IsOut(o) /\ o.faults \in Nat
    BY <1>1, SameOut, DraftConstants, DP!PrefillOnceCounted DEF DP!Counted, DP!Tallied
<1>5. DP!Held(o.s) /\ DP!SaidBy(o) = <<>> /\ ~o.s.deferred
    BY <1>3 DEF DP!Held, DP!Fed
<1>6. ASSUME c, o.faults = 0
      PROVE  DP!Rest(o.s)
    <2>1. DP!Core(d) /\ DP!Current(d)
        BY <1>1, <1>6 DEF DP!Rest
    <2>2. DP!Core(o.s) /\ ~o.s.txn.active /\ o.s.deferred = d.deferred /\ (DP!Current(d) => DP!Current(o.s))
        BY <1>1, <1>6, <2>1, DraftConstants, DP!PrefillOnceCore
    <2> QED
        BY <1>5, <2>1, <2>2 DEF DP!Rest
<1>7. o.st = "OK" => o.toks \in Seq(Tokens)
    <2>1. <<>> \in Seq(Tokens)
        OBVIOUS
    <2> QED
        BY <1>5, <2>1 DEF DP!SaidBy
<1> QED
    BY <1>4, <1>5, <1>6, <1>7 DEF DraftOut, AtRest

\* A decode_step, a checkpoint and a truncate of the draft.
LEMMA DraftStepped ==
    ASSUME NEW c, NEW d, AtRest(c, d), NEW f, NEW o \in D!DecodeStep(d, f)
    PROVE  DraftOut(c, o)
<1>1. o \in DP!DecodeStep(d, f) /\ DP!Held(d) /\ (c => DP!Rest(d))
    BY SameDecodeStep DEF AtRest
<1>2. DP!Held(o.s)
    BY <1>1, DraftConstants, DP!DecodeStepSpeaks DEF DP!Promise
<1>3. IsOut(o) /\ o.faults \in Nat
    BY <1>1, SameOut, DraftConstants, DP!DecodeStepCounted DEF DP!Counted, DP!Tallied
<1>4. c /\ o.faults = 0 => DP!Rest(o.s)
    BY <1>1, DraftConstants, DP!DecodeStepRest
<1>5. o.st = "OK" => o.toks \in Seq(Tokens)
    BY <1>1, DraftConstants, DP!DecodeTyped
<1> QED
    BY <1>2, <1>3, <1>4, <1>5 DEF DraftOut, AtRest

LEMMA DraftCheckpointed ==
    ASSUME NEW c, NEW d, AtRest(c, d), NEW f, NEW o \in D!Checkpoint(d, f)
    PROVE  DraftOut(c, o)
<1>1. o \in DP!Checkpoint(d, f) /\ DP!Held(d) /\ (c => DP!Rest(d))
    BY SameCheckpoint DEF AtRest
<1>2. DP!Held(o.s)
    BY <1>1, DraftConstants, DP!CheckpointSpeaks DEF DP!Promise
<1>3. IsOut(o) /\ o.faults \in Nat
    BY <1>1, SameOut, DraftConstants, DP!CheckpointCounted DEF DP!Counted, DP!Tallied
<1>4. c /\ o.faults = 0 => DP!Rest(o.s)
    BY <1>1, DraftConstants, DP!CheckpointRest
<1>5. o.st = "OK" => o.toks \in Seq(Tokens)
    <2>1. <<>> \in Seq(Tokens) /\ DP!SaidBy(o) = <<>>
        BY <1>1, DraftConstants, DP!CheckpointSays
    <2> QED
        BY <2>1 DEF DP!SaidBy
<1> QED
    BY <1>2, <1>3, <1>4, <1>5 DEF DraftOut, AtRest

LEMMA DraftTruncated ==
    ASSUME NEW c, NEW d, AtRest(c, d), NEW n \in Nat, NEW f, NEW o \in D!Truncate(d, n, f)
    PROVE  DraftOut(c, o)
<1>1. o \in DP!Truncate(d, n, f) /\ DP!Held(d) /\ (c => DP!Rest(d))
    BY SameTruncate DEF AtRest
<1>2. DP!Held(o.s)
    BY <1>1, DraftConstants, DP!TruncateSpeaks DEF DP!Promise
<1>3. IsOut(o) /\ o.faults \in Nat
    BY <1>1, SameOut, DraftConstants, DP!TruncateCounted DEF DP!Counted, DP!Tallied
<1>4. c /\ o.faults = 0 => DP!Rest(o.s)
    BY <1>1, DraftConstants, DP!TruncateRest
<1>5. o.st = "OK" => o.toks \in Seq(Tokens)
    <2>1. <<>> \in Seq(Tokens) /\ DP!SaidBy(o) = <<>>
        BY <1>1, DraftConstants, DP!TruncateSays
    <2> QED
        BY <2>1 DEF DP!SaidBy
<1> QED
    BY <1>2, <1>3, <1>4, <1>5 DEF DraftOut, AtRest

\* The reset that starts the draft over, after a truncate that failed f times.
LEMMA DraftReset ==
    ASSUME NEW c, NEW x, DraftOut(c, x), NEW o, o = [Ok(D!Reset(x.s)) EXCEPT !.faults = x.faults]
    PROVE  DraftOut(c, o)
<1>1. DP!Held(x.s) /\ x.faults \in Nat /\ (c /\ x.faults = 0 => DP!Rest(x.s))
    BY DEF DraftOut, AtRest
<1>2. PICK t : t = D!Reset(x.s)
    OBVIOUS
<1>3. t = DP!Reset(x.s)
    BY <1>2, SameReset
<1>4. PICK r : r = Ok(t) /\ r = DP!Ok(t)
    <2>1. Ok(t) = DP!Ok(t)
        BY DEF Ok, DP!Ok, Out, DP!Out
    <2> QED
        BY <2>1
<1>5. r.s = t /\ IsOut(r) /\ r.toks = <<>>
    BY <1>4, OkCounted DEF Counted, Tallied
<1>6. DP!Held(t)
    BY <1>1, <1>3, <1>4, <1>5, DraftConstants, DP!ResetSpeaks DEF DP!Promise
<1>7. c /\ x.faults = 0 => DP!Rest(t)
    <2>1. ASSUME DP!Core(x.s)
          PROVE  DP!Rest(t)
        BY <1>3, <2>1, DraftConstants, DP!ResetRest
    <2> QED
        BY <1>1, <2>1 DEF DP!Rest
<1>8. o = [r EXCEPT !.faults = x.faults]
    BY <1>2, <1>4
<1>9. IsOut(o) /\ o.s = t /\ o.toks = <<>> /\ o.faults = x.faults
    BY <1>5, <1>8 DEF IsOut
<1>10. <<>> \in Seq(Tokens)
    OBVIOUS
<1> QED
    BY <1>1, <1>6, <1>7, <1>9, <1>10 DEF DraftOut, AtRest

-----------------------------------------------------------------------------
(* What the drafters guess. *)

\* A part of a text is a text.
LEMMA PartTyped ==
    ASSUME NEW h \in Seq(Tokens), NEW m \in Nat \ {0}, NEW n \in Int, n <= Len(h)
    PROVE  SubSeq(h, m, n) \in Seq(Tokens)
<1>1. \A i \in m .. n : h[i] \in Tokens
    <2>1. \A i \in m .. n : i \in 1 .. Len(h)
        OBVIOUS
    <2> QED
        BY <2>1, ElementOfSeq
<1> QED
    BY <1>1, SubSeqProperties

LEMMA FromTyped ==
    ASSUME NEW h \in Seq(Tokens), NEW n \in Nat
    PROVE  From(h, n) \in Seq(Tokens)
<1>1. n + 1 \in Nat \ {0} /\ Len(h) \in Int /\ Len(h) <= Len(h)
    OBVIOUS
<1> QED
    BY <1>1, PartTyped DEF From

\* The draft's prefill.
LEMMA FeedDraftOut ==
    ASSUME NEW c, NEW d, AtRest(c, d), NEW ids \in Seq(Tokens), NEW f, NEW o \in FeedDraft(d, ids, f)
    PROVE  DraftOut(c, o)
<1>1. CASE ids = <<>>
    BY <1>1, DraftOk DEF FeedDraft
<1>2. CASE ids # <<>>
    <2>1. PICK x \in D!Settle(d, f) : IF x.st = "OK" THEN \E r \in D!PrefillOnce(x.s, ids, f) : ChainOf(x, r, o)
                                      ELSE o = x
        BY <1>2 DEF FeedDraft, Chain, ChainOf
    <2>2. DraftOut(c, x) /\ (x.st = "OK" => ~x.s.deferred)
        BY DraftSettled
    <2>3. CASE x.st = "OK"
        <3>1. PICK r \in D!PrefillOnce(x.s, ids, f) : ChainOf(x, r, o)
            BY <2>1, <2>3
        <3>2. PICK b : b = (c /\ x.faults = 0)
            OBVIOUS
        <3>3. AtRest(b, x.s)
            BY <2>2, <3>2 DEF DraftOut
        <3>4. DraftOut(b, r)
            BY <2>2, <2>3, <3>1, <3>3, DraftFed
        <3> QED
            BY <2>2, <2>3, <3>1, <3>2, <3>4, DraftChained
    <2> QED
        BY <2>1, <2>2, <2>3
<1> QED
    BY <1>1, <1>2

\* The draft back to the history, or started over.
LEMMA NotAheadOut ==
    ASSUME NEW c, NEW d, AtRest(c, d), NEW h \in Seq(Tokens), NEW f, NEW o \in NotAhead(d, h, f)
    PROVE  DraftOut(c, o)
<1>1. CASE Len(D!Text(d)) <= Len(h)
    BY <1>1, DraftOk DEF NotAhead
<1>2. CASE ~(Len(D!Text(d)) <= Len(h))
    <2>1. PICK x \in D!Truncate(d, Len(h), f) :
              o = IF x.st = "OK" THEN x ELSE [Ok(D!Reset(x.s)) EXCEPT !.faults = x.faults]
        BY <1>2 DEF NotAhead
    <2>2. DraftOut(c, x)
        BY DraftTruncated
    <2> QED
        BY <2>1, <2>2, DraftReset
<1> QED
    BY <1>1, <1>2

\* Its text is a text.
LEMMA DraftTextTyped ==
    ASSUME NEW c, NEW d, AtRest(c, d)
    PROVE  Len(D!Text(d)) \in Nat
<1>1. DP!Typed(d) /\ DP!Owes(d)
    BY DEF AtRest, DP!Held
<1>2. DP!Text(d) \in Seq(Tokens)
    BY <1>1, DraftConstants, DP!TextTyped
<1>3. D!Text(d) \in Seq(Tokens)
    BY <1>2, SameTexts
<1> QED
    BY <1>3

\* Brought level with the history.
LEMMA LevelWithOut ==
    ASSUME NEW c, NEW d, AtRest(c, d), NEW h \in Seq(Tokens), NEW f, NEW o \in LevelWith(d, h, f)
    PROVE  DraftOut(c, o)
<1>1. PICK x \in NotAhead(d, h, f) :
          IF x.st = "OK" THEN \E r \in FeedDraft(x.s, From(h, Len(D!Text(x.s))), f) : ChainOf(x, r, o) ELSE o = x
    BY DEF LevelWith, Chain, ChainOf
<1>2. DraftOut(c, x)
    BY NotAheadOut
<1>3. CASE x.st = "OK"
    <2>1. PICK r \in FeedDraft(x.s, From(h, Len(D!Text(x.s))), f) : ChainOf(x, r, o)
        BY <1>1, <1>3
    <2>2. PICK b : b = (c /\ x.faults = 0)
        OBVIOUS
    <2>3. AtRest(b, x.s)
        BY <1>2, <2>2 DEF DraftOut
    <2>4. PICK q \in Seq(Tokens) : q = From(h, Len(D!Text(x.s)))
        BY <2>3, DraftTextTyped, FromTyped
    <2>5. DraftOut(b, r)
        BY <2>1, <2>3, <2>4, FeedDraftOut
    <2> QED
        BY <1>2, <1>3, <2>1, <2>2, <2>5, DraftChained
<1> QED
    BY <1>1, <1>2, <1>3

\* The seed fed to it.
Seeded(d, h, y, f) == Chain(LevelWith(d, h, f), LAMBDA e : FeedDraft(e, <<y>>, f))

LEMMA SeededOut ==
    ASSUME NEW c, NEW d, AtRest(c, d), NEW h \in Seq(Tokens), NEW y \in Tokens, NEW f,
           NEW o \in Seeded(d, h, y, f)
    PROVE  DraftOut(c, o)
<1>1. PICK x \in LevelWith(d, h, f) :
          IF x.st = "OK" THEN \E r \in FeedDraft(x.s, <<y>>, f) : ChainOf(x, r, o) ELSE o = x
    BY DEF Seeded, Chain, ChainOf
<1>2. DraftOut(c, x)
    BY LevelWithOut
<1>3. CASE x.st = "OK"
    <2>1. PICK r \in FeedDraft(x.s, <<y>>, f) : ChainOf(x, r, o)
        BY <1>1, <1>3
    <2>2. PICK b : b = (c /\ x.faults = 0)
        OBVIOUS
    <2>3. AtRest(b, x.s)
        BY <1>2, <2>2 DEF DraftOut
    <2>4. PICK q \in Seq(Tokens) : q = <<y>>
        <3>1. <<y>> \in Seq(Tokens)
            OBVIOUS
        <3> QED
            BY <3>1
    <2>5. DraftOut(b, r)
        BY <2>1, <2>3, <2>4, FeedDraftOut
    <2> QED
        BY <1>2, <1>3, <2>1, <2>2, <2>5, DraftChained
<1> QED
    BY <1>1, <1>2, <1>3

\* Outcomes of the draft, marked and made to guess.
DraftOuts(c, outs) == \A o \in outs : DraftOut(c, o)

LEMMA MarkedOuts ==
    ASSUME NEW c, NEW outs, DraftOuts(c, outs), NEW f
    PROVE  DraftOuts(c, Marked(outs, f))
<1>1. SUFFICES ASSUME NEW o \in Marked(outs, f)
               PROVE  DraftOut(c, o)
    BY DEF DraftOuts
<1>2. PICK x \in outs :
          IF x.st = "OK"
          THEN \E r \in IF x.s.usesMtp THEN {Ok(x.s)} ELSE D!Checkpoint(x.s, f) : ChainOf(x, r, o)
          ELSE o = x
    BY DEF Marked, Chain, ChainOf
<1>3. DraftOut(c, x)
    BY DEF DraftOuts
<1>4. CASE x.st = "OK"
    <2>1. PICK r \in IF x.s.usesMtp THEN {Ok(x.s)} ELSE D!Checkpoint(x.s, f) : ChainOf(x, r, o)
        BY <1>2, <1>4
    <2>2. PICK b : b = (c /\ x.faults = 0)
        OBVIOUS
    <2>3. AtRest(b, x.s)
        BY <1>3, <2>2 DEF DraftOut
    <2>4. DraftOut(b, r)
        <3>1. CASE x.s.usesMtp
            BY <2>1, <2>3, <3>1, DraftOk
        <3>2. CASE ~x.s.usesMtp
            BY <2>1, <2>3, <3>2, DraftCheckpointed
        <3> QED
            BY <3>1, <3>2
    <2> QED
        BY <1>3, <1>4, <2>1, <2>2, <2>4, DraftChained
<1> QED
    BY <1>2, <1>3, <1>4

LEMMA GuessingOuts ==
    ASSUME NEW c, NEW outs, DraftOuts(c, outs), NEW f
    PROVE  DraftOuts(c, Guessing(outs, f))
<1>1. SUFFICES ASSUME NEW o \in Guessing(outs, f)
               PROVE  DraftOut(c, o)
    BY DEF DraftOuts
<1>2. PICK x \in outs :
          IF x.st = "OK" THEN \E r \in D!DecodeStep(x.s, f) : ChainOf(x, r, o) ELSE o = x
    BY DEF Guessing, Chain, ChainOf
<1>3. DraftOut(c, x)
    BY DEF DraftOuts
<1>4. CASE x.st = "OK"
    <2>1. PICK r \in D!DecodeStep(x.s, f) : ChainOf(x, r, o)
        BY <1>2, <1>4
    <2>2. PICK b : b = (c /\ x.faults = 0)
        OBVIOUS
    <2>3. AtRest(b, x.s)
        BY <1>3, <2>2 DEF DraftOut
    <2>4. DraftOut(b, r)
        BY <2>1, <2>3, DraftStepped
    <2> QED
        BY <1>3, <1>4, <2>1, <2>2, <2>4, DraftChained
<1> QED
    BY <1>2, <1>3, <1>4

\* The guesses, step by step: `b` after the mark, the last one is not marked.
GuessAfter(k, f, i, x) == IF i < k - 1 THEN Marked(Guessing(x, f), f) ELSE Guessing(x, f)
Guessed(k, f, b, m, g) ==
    g = [i \in 0 .. m |-> IF i = 0 THEN Marked(b, f) ELSE GuessAfter(k, f, i, g[i - 1])]

LEMMA ProposeGuessed ==
    ASSUME NEW d, NEW h, NEW y, NEW k, NEW f, NEW b, b = Seeded(d, h, y, f)
    PROVE  DraftModelPropose(d, h, y, k, f) = (CHOOSE g : Guessed(k, f, b, k - 1, g))[k - 1]
BY DEF DraftModelPropose, Seeded, Guessed, GuessAfter

\* There are such guesses, however many.
LEMMA GuessedExists ==
    ASSUME NEW k, NEW f, NEW b, NEW m \in Nat
    PROVE  \E g : Guessed(k, f, b, m, g)
<1> DEFINE Bad == {n \in Nat : ~\E g : Guessed(k, f, b, n, g)}
<1>1. SUFFICES ASSUME Bad # {}
               PROVE  FALSE
    OBVIOUS
<1>2. PICK n \in Bad : \A i \in Bad : n <= i
    <2>1. Bad \in SUBSET Nat
        OBVIOUS
    <2> HIDE DEF Bad
    <2> QED
        BY <1>1, <2>1, LeastNumber
<1>3. n \in Nat /\ ~\E g : Guessed(k, f, b, n, g)
    BY <1>2
<1>4. CASE n = 0
    <2>1. PICK g : g = [i \in 0 .. 0 |-> Marked(b, f)]
        OBVIOUS
    <2>2. g = [i \in 0 .. 0 |-> IF i = 0 THEN Marked(b, f) ELSE GuessAfter(k, f, i, g[i - 1])]
        <3>1. \A i \in 0 .. 0 : i = 0
            OBVIOUS
        <3> QED
            BY <2>1, <3>1
    <2> QED
        BY <1>3, <1>4, <2>2 DEF Guessed
<1>5. CASE n # 0
    <2>1. n - 1 \in Nat /\ n - 1 \notin Bad
        BY <1>2, <1>3, <1>5
    <2>2. PICK h : Guessed(k, f, b, n - 1, h)
        BY <2>1
    <2>3. PICK last : last = GuessAfter(k, f, n, h[n - 1])
        OBVIOUS
    <2>4. PICK g : g = [i \in 0 .. n |-> IF i = n THEN last ELSE h[i]]
        OBVIOUS
    <2>5. \A i \in 0 .. n - 1 : g[i] = h[i]
        BY <1>3, <2>4
    <2>6. ASSUME NEW i \in 0 .. n
          PROVE  g[i] = IF i = 0 THEN Marked(b, f) ELSE GuessAfter(k, f, i, g[i - 1])
        <3>1. CASE i = n
            <4>1. g[n - 1] = h[n - 1] /\ i # 0
                BY <1>3, <1>5, <2>1, <2>5, <3>1
            <4> QED
                BY <2>3, <2>4, <3>1, <4>1
        <3>2. CASE i # n
            <4>1. i \in 0 .. n - 1
                BY <1>3, <3>2
            <4>2. h[i] = IF i = 0 THEN Marked(b, f) ELSE GuessAfter(k, f, i, h[i - 1])
                BY <2>2, <4>1 DEF Guessed
            <4>3. g[i] = h[i] /\ (i # 0 => g[i - 1] = h[i - 1])
                <5>1. i # 0 => i - 1 \in 0 .. n - 1
                    BY <1>3, <4>1
                <5> QED
                    BY <2>5, <4>1, <5>1
            <4> QED
                BY <4>2, <4>3
        <3> QED
            BY <3>1, <3>2
    <2>7. g = [i \in 0 .. n |-> IF i = 0 THEN Marked(b, f) ELSE GuessAfter(k, f, i, g[i - 1])]
        <3> DEFINE z == [i \in 0 .. n |-> IF i = 0 THEN Marked(b, f) ELSE GuessAfter(k, f, i, g[i - 1])]
        <3>1. \A i \in 0 .. n : z[i] = g[i]
            BY <2>6
        <3>2. DOMAIN z = 0 .. n /\ DOMAIN g = 0 .. n
            BY <2>4
        <3>3. g = [i \in 0 .. n |-> g[i]] /\ z = [i \in 0 .. n |-> z[i]]
            BY <2>4
        <3> HIDE DEF z
        <3>4. [i \in 0 .. n |-> g[i]] = [i \in 0 .. n |-> z[i]]
            BY <3>1
        <3>5. g = z
            BY <3>3, <3>4
        <3> QED
            BY <3>5 DEF z
    <2> QED
        BY <1>3, <2>7 DEF Guessed
<1> QED
    BY <1>4, <1>5

\* Each is an outcome of the draft.
LEMMA GuessedOuts ==
    ASSUME NEW c, NEW k, NEW f, NEW b, DraftOuts(c, b), NEW m \in Nat, NEW g, Guessed(k, f, b, m, g)
    PROVE  \A i \in 0 .. m : DraftOuts(c, g[i])
<1> DEFINE Bad == {n \in 0 .. m : ~DraftOuts(c, g[n])}
<1>1. SUFFICES ASSUME Bad # {}
               PROVE  FALSE
    OBVIOUS
<1>2. PICK n \in Bad : \A i \in Bad : n <= i
    <2>1. Bad \in SUBSET Nat
        OBVIOUS
    <2> HIDE DEF Bad
    <2> QED
        BY <1>1, <2>1, LeastNumber
<1>3. n \in 0 .. m /\ ~DraftOuts(c, g[n])
    BY <1>2
<1>4. g[n] = IF n = 0 THEN Marked(b, f) ELSE GuessAfter(k, f, n, g[n - 1])
    BY <1>3 DEF Guessed
<1>5. CASE n = 0
    BY <1>3, <1>4, <1>5, MarkedOuts
<1>6. CASE n # 0
    <2>1. n - 1 \in 0 .. m /\ n - 1 \notin Bad
        BY <1>2, <1>3, <1>6
    <2>2. DraftOuts(c, g[n - 1])
        BY <2>1
    <2>3. PICK x : x = Guessing(g[n - 1], f) /\ DraftOuts(c, x)
        BY <2>2, GuessingOuts
    <2>4. DraftOuts(c, Marked(x, f))
        BY <2>3, MarkedOuts
    <2>5. g[n] = Marked(x, f) \/ g[n] = x
        BY <1>4, <1>6, <2>3 DEF GuessAfter
    <2> QED
        BY <1>3, <2>3, <2>4, <2>5
<1> QED
    BY <1>5, <1>6

\* draft_model_propose.
LEMMA ProposeOut ==
    ASSUME NEW c, NEW d, AtRest(c, d), NEW h \in Seq(Tokens), NEW y \in Tokens, NEW k \in Nat \ {0}, NEW f,
           NEW o \in DraftModelPropose(d, h, y, k, f)
    PROVE  DraftOut(c, o)
<1>1. PICK b : b = Seeded(d, h, y, f)
    OBVIOUS
<1>2. DraftOuts(c, b)
    <2>1. \A x \in Seeded(d, h, y, f) : DraftOut(c, x)
        BY SeededOut
    <2> QED
        BY <1>1, <2>1 DEF DraftOuts
<1>3. PICK m \in Nat : m = k - 1
    OBVIOUS
<1>4. PICK g : g = CHOOSE z : Guessed(k, f, b, m, z)
    OBVIOUS
<1>5. Guessed(k, f, b, m, g)
    <2>1. \E z : Guessed(k, f, b, m, z)
        BY GuessedExists
    <2> QED
        BY <1>4, <2>1
<1>6. DraftModelPropose(d, h, y, k, f) = g[m]
    <2>1. DraftModelPropose(d, h, y, k, f) = (CHOOSE z : Guessed(k, f, b, k - 1, z))[k - 1]
        BY <1>1, ProposeGuessed
    <2> QED
        BY Zenon, <1>3, <1>4, <2>1
<1>7. DraftOuts(c, g[m])
    <2>1. m \in 0 .. m
        OBVIOUS
    <2> QED
        BY <1>2, <1>5, <2>1, GuessedOuts
<1> QED
    BY <1>6, <1>7 DEF DraftOuts

\* draft_model_rollback.
LEMMA RollbackOut ==
    ASSUME NEW c, NEW d, AtRest(c, d), NEW h \in Seq(Tokens), NEW g \in Int, NEW n \in Nat, n > 0, NEW f,
           NEW o \in DraftModelRollback(d, h, g, n, f)
    PROVE  DraftOut(c, o)
<1>1. CASE n - 2 < g
    <2>1. Len(h) + n - 1 \in Nat
        OBVIOUS
    <2>2. o \in D!Truncate(d, Len(h) + n - 1, f)
        BY <1>1 DEF DraftModelRollback
    <2> QED
        BY <2>1, <2>2, DraftTruncated
<1>2. CASE ~(n - 2 < g)
    BY <1>2, DraftOk DEF DraftModelRollback
<1> QED
    BY <1>1, <1>2

\* transformer_mtp_draft, guess by guess.
HeadGuess(c, y, x) == Append(x, DraftPredict(c \o <<y>> \o x))
HeadGuessed(c, y, m, g) == g = [i \in 0 .. m |-> IF i = 0 THEN <<>> ELSE HeadGuess(c, y, g[i - 1])]

LEMMA MtpGuessed ==
    ASSUME NEW s, NEW y, NEW k, NEW c, c = s.mtp.carry
    PROVE  MtpGuesses(s, y, k) = (CHOOSE g : HeadGuessed(c, y, k - 1, g))[k - 1]
BY DEF MtpGuesses, HeadGuessed, HeadGuess

LEMMA HeadGuessedExists ==
    ASSUME NEW c, NEW y, NEW m \in Nat
    PROVE  \E g : HeadGuessed(c, y, m, g)
<1> DEFINE Bad == {n \in Nat : ~\E g : HeadGuessed(c, y, n, g)}
<1>1. SUFFICES ASSUME Bad # {}
               PROVE  FALSE
    OBVIOUS
<1>2. PICK n \in Bad : \A i \in Bad : n <= i
    <2>1. Bad \in SUBSET Nat
        OBVIOUS
    <2> HIDE DEF Bad
    <2> QED
        BY <1>1, <2>1, LeastNumber
<1>3. n \in Nat /\ ~\E g : HeadGuessed(c, y, n, g)
    BY <1>2
<1>4. CASE n = 0
    <2>1. PICK e : e = <<>>
        OBVIOUS
    <2>2. PICK g : g = [i \in 0 .. 0 |-> e]
        OBVIOUS
    <2>3. g = [i \in 0 .. 0 |-> IF i = 0 THEN e ELSE HeadGuess(c, y, g[i - 1])]
        <3>1. \A i \in 0 .. 0 : i = 0
            OBVIOUS
        <3> QED
            BY <2>2, <3>1
    <2> QED
        BY <1>3, <1>4, <2>1, <2>3 DEF HeadGuessed
<1>5. CASE n # 0
    <2>0. PICK e : e = <<>>
        OBVIOUS
    <2>1. n - 1 \in Nat /\ n - 1 \notin Bad
        BY <1>2, <1>3, <1>5
    <2>2. PICK h : HeadGuessed(c, y, n - 1, h)
        BY <2>1
    <2>3. PICK last : last = HeadGuess(c, y, h[n - 1])
        OBVIOUS
    <2>4. PICK g : g = [i \in 0 .. n |-> IF i = n THEN last ELSE h[i]]
        OBVIOUS
    <2>5. \A i \in 0 .. n - 1 : g[i] = h[i]
        BY <1>3, <2>4
    <2>6. ASSUME NEW i \in 0 .. n
          PROVE  g[i] = IF i = 0 THEN e ELSE HeadGuess(c, y, g[i - 1])
        <3>1. CASE i = n
            <4>1. g[n - 1] = h[n - 1] /\ i # 0
                BY <1>3, <1>5, <2>1, <2>5, <3>1
            <4> QED
                BY <2>3, <2>4, <3>1, <4>1
        <3>2. CASE i # n
            <4>1. i \in 0 .. n - 1
                BY <1>3, <3>2
            <4>2. h[i] = IF i = 0 THEN e ELSE HeadGuess(c, y, h[i - 1])
                BY <2>0, <2>2, <4>1 DEF HeadGuessed
            <4>3. g[i] = h[i] /\ (i # 0 => g[i - 1] = h[i - 1])
                <5>1. i # 0 => i - 1 \in 0 .. n - 1
                    BY <1>3, <4>1
                <5> QED
                    BY <2>5, <4>1, <5>1
            <4> QED
                BY <4>2, <4>3
        <3> QED
            BY <3>1, <3>2
    <2>7. g = [i \in 0 .. n |-> IF i = 0 THEN e ELSE HeadGuess(c, y, g[i - 1])]
        <3> DEFINE z == [i \in 0 .. n |-> IF i = 0 THEN e ELSE HeadGuess(c, y, g[i - 1])]
        <3>1. \A i \in 0 .. n : z[i] = g[i]
            BY <2>6
        <3>2. g = [i \in 0 .. n |-> g[i]] /\ z = [i \in 0 .. n |-> z[i]]
            BY <2>4
        <3> HIDE DEF z
        <3>3. [i \in 0 .. n |-> g[i]] = [i \in 0 .. n |-> z[i]]
            BY <3>1
        <3>4. g = z
            BY <3>2, <3>3
        <3> QED
            BY <3>4 DEF z
    <2> QED
        BY <1>3, <2>0, <2>7 DEF HeadGuessed
<1> QED
    BY <1>4, <1>5

\* The head, or the draft model, predicts a token of any text a model holds.
LEMMA DraftPredictTyped ==
    ASSUME NEW t \in Seq(Tokens), NEW M \in MaxLens, Len(t) <= M
    PROVE  DraftPredict(t) \in Tokens
<1>1. PICK m \in Models : M = m.maxLen
    BY DEF MaxLens
<1>2. M \in Nat
    BY <1>1, SessionConstants
<1>3. PICK n \in Nat : n = Len(t)
    OBVIOUS
<1>4. t \in [1 .. n -> Tokens] /\ n \in 0 .. m.maxLen
    BY <1>1, <1>2, <1>3
<1>5. \A x \in [1 .. n -> Tokens] : DraftPredict(x) \in Tokens
    BY <1>4, SpeculationConstants
<1> QED
    BY <1>4, <1>5

\* As long as the context holds them, the guesses are tokens.
LEMMA HeadGuessedTyped ==
    ASSUME NEW c \in Seq(Tokens), NEW y \in Tokens, NEW m \in Nat, NEW M \in MaxLens, Len(c) + m <= M,
           NEW g, HeadGuessed(c, y, m, g)
    PROVE  \A i \in 0 .. m : g[i] \in Seq(Tokens) /\ Len(g[i]) = i
<1> DEFINE Bad == {n \in 0 .. m : ~(g[n] \in Seq(Tokens) /\ Len(g[n]) = n)}
<1>1. SUFFICES ASSUME Bad # {}
               PROVE  FALSE
    OBVIOUS
<1>2. PICK n \in Bad : \A i \in Bad : n <= i
    <2>1. Bad \in SUBSET Nat
        OBVIOUS
    <2> HIDE DEF Bad
    <2> QED
        BY <1>1, <2>1, LeastNumber
<1>3. n \in 0 .. m /\ ~(g[n] \in Seq(Tokens) /\ Len(g[n]) = n)
    BY <1>2
<1>4. g[n] = IF n = 0 THEN <<>> ELSE HeadGuess(c, y, g[n - 1])
    BY <1>3 DEF HeadGuessed
<1>5. CASE n = 0
    <2>1. g[n] = <<>>
        BY <1>4, <1>5
    <2>2. <<>> \in Seq(Tokens) /\ Len(<<>>) = 0
        OBVIOUS
    <2> QED
        BY <1>3, <1>5, <2>1, <2>2
<1>6. CASE n # 0
    <2>1. n - 1 \in 0 .. m /\ n - 1 \notin Bad
        BY <1>2, <1>3, <1>6
    <2>2. PICK x \in Seq(Tokens) : x = g[n - 1] /\ Len(x) = n - 1
        BY <2>1
    <2>3. PICK q \in Seq(Tokens) : q = <<y>> /\ Len(q) = 1
        <3>1. <<y>> \in Seq(Tokens) /\ Len(<<y>>) = 1
            OBVIOUS
        <3> QED
            BY <3>1
    <2>4. PICK a \in Seq(Tokens) : a = c \o q /\ Len(a) = Len(c) + 1
        <3>1. c \o q \in Seq(Tokens) /\ Len(c \o q) = Len(c) + Len(q)
            BY ConcatProperties
        <3> QED
            BY <2>3, <3>1
    <2>5. PICK t \in Seq(Tokens) : t = a \o x /\ Len(t) = Len(c) + 1 + (n - 1)
        <3>1. a \o x \in Seq(Tokens) /\ Len(a \o x) = Len(a) + Len(x)
            BY ConcatProperties
        <3> QED
            BY <2>2, <2>4, <3>1
    <2>6. Len(t) <= M
        <3>1. M \in Nat
            BY SessionConstants DEF MaxLens
        <3>2. PICK l \in Nat : l = Len(c)
            OBVIOUS
        <3> QED
            BY <1>3, <2>5, <3>1, <3>2
    <2>7. DraftPredict(t) \in Tokens
        BY <2>6, DraftPredictTyped
    <2>8. g[n] = Append(x, DraftPredict(t))
        BY <1>4, <1>6, <2>2, <2>3, <2>4, <2>5 DEF HeadGuess
    <2>9. g[n] \in Seq(Tokens) /\ Len(g[n]) = Len(x) + 1
        BY <2>7, <2>8, AppendProperties
    <2> QED
        BY <1>3, <2>2, <2>9
<1> QED
    BY <1>5, <1>6

\* The draft head's guesses of a target whose head is level.
LEMMA MtpGuessesTyped ==
    ASSUME NEW s, Good(s), HeadLevel(s), s.usesMtp, NEW y \in Tokens, NEW k \in Nat \ {0}, MtpInStep(s, k)
    PROVE  MtpGuesses(s, y, k) \in Seq(Tokens)
<1>1. Typed(s)
    BY DEF Good, Held
<1>2. PICK c \in Seq(Tokens) : c = Content(s) /\ Len(c) = s.kvLen
    BY <1>1, ContentTyped
<1>3. c = s.mtp.carry
    BY <1>2 DEF HeadLevel, Heads, Content
<1>4. PICK m \in Nat : m = k - 1
    OBVIOUS
<1>5. PICK g : g = CHOOSE z : HeadGuessed(c, y, m, z)
    OBVIOUS
<1>6. HeadGuessed(c, y, m, g)
    <2>1. \E z : HeadGuessed(c, y, m, z)
        BY HeadGuessedExists
    <2> QED
        BY <1>5, <2>1
<1>7. MtpGuesses(s, y, k) = g[m]
    <2>1. MtpGuesses(s, y, k) = (CHOOSE z : HeadGuessed(c, y, k - 1, z))[k - 1]
        BY <1>3, MtpGuessed
    <2> QED
        BY Zenon, <1>4, <1>5, <2>1
<1>8. PICK M \in MaxLens : M = s.maxLen
    BY <1>1 DEF Typed
<1>9. Len(c) + m <= M
    <2>1. M \in Nat /\ s.kvLen \in Nat /\ s.kvLen + k <= M
        BY <1>1, <1>8, SessionConstants DEF MtpInStep, Typed, MaxLens
    <2> QED
        BY <1>2, <1>4, <2>1
<1>10. m \in 0 .. m
    OBVIOUS
<1> QED
    BY <1>6, <1>7, <1>9, <1>10, HeadGuessedTyped

\* A bounded set of numbers has a greatest one.
LEMMA GreatestNumber ==
    ASSUME NEW n \in Nat, NEW A, A \subseteq 0 .. n, A # {}
    PROVE  \E m \in A : \A i \in A : i <= m
<1>1. PICK f : f = [i \in A |-> n - i]
    OBVIOUS
<1>2. PICK B : B = {f[i] : i \in A}
    OBVIOUS
<1>3. \A i \in A : i \in Nat /\ f[i] = n - i /\ f[i] \in Nat
    <2>1. TAKE i \in A
    <2>2. i \in 0 .. n /\ f[i] = n - i
        BY <1>1
    <2> QED
        BY <2>2
<1>4. B \in SUBSET Nat /\ B # {}
    BY <1>2, <1>3
<1>5. PICK b \in B : \A x \in B : b <= x
    BY <1>4, LeastNumber
<1>6. PICK m \in A : b = f[m]
    BY <1>2, <1>5
<1>7. \A i \in A : i <= m
    <2>1. TAKE i \in A
    <2>2. f[m] <= f[i]
        BY <1>2, <1>5, <1>6
    <2>3. n - m <= n - i /\ i \in Nat /\ m \in Nat
        BY <1>3, <2>2
    <2> QED
        BY <2>3
<1> QED
    BY <1>7

\* The parts of propose_drafts_ngram.
Lengths(h, y) == {L \in 1 .. MaxSuffix : Occurrences(h, y, L) # {}}
Longest(h, y) == CHOOSE L \in Lengths(h, y) : \A l \in Lengths(h, y) : l <= L
Follow(h, k, L, p) == IF Len(h) - (p + L - 1) < k - 1 THEN Len(h) - (p + L - 1) ELSE k - 1
Best(h, y, k, L) == CHOOSE p \in Occurrences(h, y, L) :
                       \A q \in Occurrences(h, y, L) :
                           Follow(h, k, L, q) < Follow(h, k, L, p) \/ (Follow(h, k, L, q) = Follow(h, k, L, p) /\ q <= p)

NgramPart(h, k, L, b) == SubSeq(h, b + L, b + L + Follow(h, k, L, b) - 1)

LEMMA NgramIs ==
    ASSUME NEW h, NEW y, NEW k
    PROVE  NgramGuesses(h, y, k) = IF k = 1 \/ Lengths(h, y) = {} \/ Longest(h, y) < MinMatch THEN <<>>
                                   ELSE NgramPart(h, k, Longest(h, y), Best(h, y, k, Longest(h, y)))
BY DEF NgramGuesses, Lengths, Longest, Follow, Best, NgramPart

LEMMA NgramParts ==
    ASSUME NEW h, NEW y, NEW k, NEW L, L = Longest(h, y), NEW b, b = Best(h, y, k, L)
    PROVE  \/ NgramGuesses(h, y, k) = <<>>
           \/ Lengths(h, y) # {} /\ NgramGuesses(h, y, k) = NgramPart(h, k, L, b)
BY NgramIs

\* The longest occurrence is one.
LEMMA LongestFound ==
    ASSUME NEW h, NEW y, Lengths(h, y) # {}
    PROVE  Longest(h, y) \in Lengths(h, y)
<1>1. PICK A : A = Lengths(h, y)
    OBVIOUS
<1>2. MaxSuffix \in Nat
    BY SpeculationConstants
<1>3. A \subseteq 0 .. MaxSuffix
    BY <1>1, <1>2 DEF Lengths
<1>4. \E m \in A : \A i \in A : i <= m
    BY <1>1, <1>2, <1>3, GreatestNumber
<1>5. PICK m : m = CHOOSE L \in A : \A l \in A : l <= L
    OBVIOUS
<1>6. m \in A
    BY <1>4, <1>5
<1>7. m = Longest(h, y)
    BY <1>1, <1>5 DEF Longest
<1> QED
    BY <1>1, <1>6, <1>7

\* The best place has the longest continuation, and is the last of those.
LEMMA BestFound ==
    ASSUME NEW h \in Seq(Tokens), NEW y, NEW k \in Nat \ {0}, NEW L \in Lengths(h, y)
    PROVE  Best(h, y, k, L) \in Occurrences(h, y, L)
<1>1. PICK A : A = Occurrences(h, y, L)
    OBVIOUS
<1>2. PICK n \in Nat : n = Len(h)
    OBVIOUS
<1>3. L \in Nat \ {0} /\ A # {}
    BY <1>1, SpeculationConstants DEF Lengths
<1>4. A \subseteq 1 .. n - L
    BY <1>1, <1>2 DEF Occurrences
<1>5. PICK fw : fw = [p \in A |-> Follow(h, k, L, p)]
    OBVIOUS
<1>6. \A p \in A : fw[p] \in 0 .. n
    <2>1. TAKE p \in A
    <2>2. p \in 1 .. n - L
        BY <1>4
    <2>3. fw[p] = IF n - (p + L - 1) < k - 1 THEN n - (p + L - 1) ELSE k - 1
        BY <1>2, <1>5 DEF Follow
    <2> QED
        BY <1>3, <2>2, <2>3
<1>7. PICK F \in {fw[p] : p \in A} : \A i \in {fw[p] : p \in A} : i <= F
    <2>1. PICK B : B = {fw[p] : p \in A}
        OBVIOUS
    <2>2. B \subseteq 0 .. n /\ B # {}
        BY <1>3, <1>6, <2>1
    <2> QED
        BY <2>1, <2>2, GreatestNumber
<1>8. PICK b \in {p \in A : fw[p] = F} : \A q \in {p \in A : fw[p] = F} : q <= b
    <2>1. PICK B : B = {p \in A : fw[p] = F}
        OBVIOUS
    <2>2. B # {}
        BY <1>7, <2>1
    <2>3. B \subseteq 0 .. n
        <3>1. 1 .. n - L \subseteq 0 .. n /\ B \subseteq A
            BY <1>3, <2>1
        <3> QED
            BY <1>4, <3>1
    <2> QED
        BY <2>1, <2>2, <2>3, GreatestNumber
<1>9. b \in A /\ \A q \in A : fw[q] < fw[b] \/ (fw[q] = fw[b] /\ q <= b)
    <2>1. b \in A /\ fw[b] = F
        BY <1>8
    <2>2. ASSUME NEW q \in A
          PROVE  fw[q] < fw[b] \/ (fw[q] = fw[b] /\ q <= b)
        <3>1. fw[q] <= F /\ fw[q] \in Int /\ F \in Int
            BY <1>6, <1>7
        <3>2. fw[q] = F => q <= b
            BY <1>8
        <3> QED
            BY <2>1, <3>1, <3>2
    <2> QED
        BY <2>1, <2>2
<1>10. b \in A /\ \A q \in A : Follow(h, k, L, q) < Follow(h, k, L, b) \/ (Follow(h, k, L, q) = Follow(h, k, L, b) /\ q <= b)
    <2>1. \A p \in A : fw[p] = Follow(h, k, L, p)
        BY <1>5
    <2> HIDE <1>5
    <2> QED
        BY Zenon, <1>9, <2>1
<1>11. \E p \in Occurrences(h, y, L) : \A q \in Occurrences(h, y, L) :
           Follow(h, k, L, q) < Follow(h, k, L, p) \/ (Follow(h, k, L, q) = Follow(h, k, L, p) /\ q <= p)
    BY Zenon, <1>1, <1>10
<1> QED
    BY <1>11 DEF Best

\* The n-grams' guesses are a part of the history.
LEMMA NgramGuessesTyped ==
    ASSUME NEW h \in Seq(Tokens), NEW y, NEW k \in Nat \ {0}
    PROVE  NgramGuesses(h, y, k) \in Seq(Tokens)
<1>1. PICK L : L = Longest(h, y)
    OBVIOUS
<1>2. PICK b : b = Best(h, y, k, L)
    OBVIOUS
<1>3. \/ NgramGuesses(h, y, k) = <<>>
      \/ Lengths(h, y) # {} /\ NgramGuesses(h, y, k) = NgramPart(h, k, L, b)
    BY <1>1, <1>2, NgramParts
<1>4. <<>> \in Seq(Tokens)
    OBVIOUS
<1>5. ASSUME Lengths(h, y) # {}
      PROVE  NgramPart(h, k, L, b) \in Seq(Tokens)
    <2>1. L \in Lengths(h, y)
        BY <1>1, <1>5, LongestFound
    <2>2. b \in Occurrences(h, y, L)
        BY <1>2, <2>1, BestFound
    <2>3. PICK n \in Nat : n = Len(h)
        OBVIOUS
    <2>4. L \in Nat \ {0} /\ b \in 1 .. n - L
        BY <2>1, <2>2, <2>3, SpeculationConstants DEF Lengths, Occurrences
    <2>5. PICK e : e = Follow(h, k, L, b)
        OBVIOUS
    <2>6. e = IF n - (b + L - 1) < k - 1 THEN n - (b + L - 1) ELSE k - 1
        BY <2>3, <2>5 DEF Follow
    <2>7. e \in Int /\ e <= n - (b + L - 1)
        BY <2>4, <2>6
    <2>8. b + L \in Nat \ {0} /\ b + L + e - 1 \in Int /\ b + L + e - 1 <= Len(h)
        BY <2>3, <2>4, <2>7
    <2> QED
        BY <2>5, <2>8, PartTyped DEF NgramPart
<1> QED
    BY <1>3, <1>4, <1>5

-----------------------------------------------------------------------------
(* The calls, and the theorems. *)

\* The target and the caller's history.
TargetInv == /\ Good(sess) /\ HeadLevel(sess) /\ Pin(sess) = <<>>
             /\ history \in Seq(Tokens)

\* The draft is at rest as long as none of its operations has failed.
DraftInv == faults \in Nat /\ AtRest(faults = 0, draft)

\* What is good after the step is so in the next state.
LEMMA TargetNext ==
    ASSUME Good(sess'), HeadLevel(sess'), Pin(sess') = <<>>, history' \in Seq(Tokens)
    PROVE  TargetInv'
<1>1. PICK t : t = sess'
    OBVIOUS
<1>2. Good(t) /\ HeadLevel(t) /\ Pin(t) = <<>>
    BY <1>1
<1>3. Good(sess)'
    BY <1>1, <1>2 DEF Good, Settles, Rest, Core, Typed, Absorbed, Checkpoints, Current, IsSession, Content, CkptSlot,
       Held, Owes, PendingToken
<1>4. HeadLevel(sess)'
    BY <1>1, <1>2 DEF HeadLevel, Heads
<1>5. (Pin(sess) = <<>>)'
    BY <1>1, <1>2 DEF Pin
<1> QED
    BY <1>3, <1>4, <1>5 DEF TargetInv

LEMMA DraftNext ==
    ASSUME faults' \in Nat, AtRest(faults' = 0, draft')
    PROVE  DraftInv'
<1>1. PICK d : d = draft'
    OBVIOUS
<1>2. DP!Held(d) /\ (faults' = 0 => DP!Rest(d))
    BY <1>1 DEF AtRest
<1>3. DP!Held(draft)'
    BY <1>1, <1>2 DEF DP!Held, DP!Typed, DP!IsSession, DP!Owes, DP!PendingToken
<1>4. faults' = 0 => DP!Rest(draft)'
    BY <1>1, <1>2 DEF DP!Rest, DP!Core, DP!Typed, DP!Absorbed, DP!Checkpoints, DP!Current, DP!IsSession, DP!Content,
       DP!CkptSlot
<1> QED
    BY <1>3, <1>4 DEF DraftInv, AtRest

\* What a call says is a step of the conversation.
LEMMA SpeaksNext ==
    ASSUME Pin(sess) = <<>>, NEW o, sess' = o.s, Pin(o.s) = <<>>, Speaks(sess, o),
           NEW q, q = (IF out.st = "OK" THEN out.toks ELSE <<>>)', q = SaidBy(o)
    PROVE  Contract!Next
<1>1. PICK s, t : s = sess /\ t = sess'
    OBVIOUS
<1>2. /\ Text(sess)' = Text(t) /\ (sess.logitsValid)' = t.logitsValid
      /\ (IF out.st = "OK" THEN out.toks ELSE <<>>)' = q
    BY <1>1 DEF Text, Content, PendingToken
<1>3. o.s = t /\ Speaks(s, o) /\ Pin(s) = <<>>
    BY <1>1
<1>4. CASE Extends(s, o)
    <2>1. Contract!Extend
        BY <1>1, <1>2, <1>3, <1>4 DEF Extends, StartOf, Contract!Extend, Contract!Begins
    <2> QED
        BY <2>1 DEF Contract!Next
<1>5. CASE Emits(s, o)
    <2>1. Contract!Emit
        BY <1>1, <1>2, <1>3, <1>5 DEF Emits, Contract!Emit
    <2> QED
        BY <2>1 DEF Contract!Next
<1>6. CASE Rewinds(s, o)
    <2>1. Contract!Rewind
        BY <1>1, <1>2, <1>3, <1>6 DEF Rewinds, StartOf, Contract!Rewind, Contract!Begins
    <2> QED
        BY <2>1 DEF Contract!Next
<1> QED
    BY <1>3, <1>4, <1>5, <1>6 DEF Speaks

\* Each kind of step leaves the pin.
LEMMA SpeaksPinned ==
    ASSUME NEW s, NEW o, Speaks(s, o)
    PROVE  Pin(o.s) = Pin(s)
BY DEF Speaks, Extends, Emits, Rewinds

\* A call on the target.
LEMMA ReturnsKeep ==
    ASSUME TargetInv, NEW o, Sound(sess, o), NEW k, Returns(o, k)
    PROVE  TargetInv' /\ Contract!Next
<1>1. Good(o.s) /\ HeadLevel(o.s) /\ Speaks(sess, o) /\ (o.st = "OK" => o.toks \in Seq(Tokens))
    BY DEF Sound
<1>2. Pin(sess) = <<>> /\ history \in Seq(Tokens)
    BY DEF TargetInv
<1>3. Pin(o.s) = <<>>
    BY <1>1, <1>2, SpeaksPinned
<1>4. sess' = o.s /\ out' = [st |-> o.st, toks |-> o.toks, k |-> k]
      /\ history' = IF o.st = "OK" THEN history \o o.toks ELSE history
    BY DEF Returns
<1>5. history' \in Seq(Tokens)
    BY <1>1, <1>2, <1>4, ConcatProperties
<1>6. PICK q : q = (IF out.st = "OK" THEN out.toks ELSE <<>>)'
    OBVIOUS
<1>7. q = SaidBy(o)
    BY <1>4, <1>6 DEF SaidBy
<1>8. Contract!Next
    BY <1>1, <1>2, <1>3, <1>4, <1>6, <1>7, SpeaksNext
<1>9. TargetInv'
    BY <1>1, <1>3, <1>4, <1>5, TargetNext
<1> QED
    BY <1>8, <1>9

\* The draft left alone.
LEMMA DraftKept ==
    ASSUME DraftInv, draft' = draft, faults' = faults
    PROVE  DraftInv'
<1>1. PICK d, n : d = draft /\ n = faults
    OBVIOUS
<1>2. n \in Nat /\ AtRest(n = 0, d)
    BY <1>1 DEF DraftInv
<1>3. faults' \in Nat /\ AtRest(faults' = 0, draft')
    BY <1>1, <1>2
<1> QED
    BY <1>3, DraftNext

\* geist_session_prefill_tokens.
LEMMA PrefillKeeps ==
    ASSUME TargetInv, DraftInv, Prefill
    PROVE  TargetInv' /\ DraftInv' /\ Contract!Next
<1>1. PICK n \in 1 .. MaxPrompt : \E ids \in [1 .. n -> Tokens] : \E o \in Feed(sess, ids) :
          /\ sess' = o.s
          /\ out' = [st |-> o.st, toks |-> <<>>, k |-> 0]
          /\ history' = IF o.st = "OK" THEN history \o ids ELSE history
    BY DEF Prefill
<1>2. PICK ids \in [1 .. n -> Tokens] : \E o \in Feed(sess, ids) :
          /\ sess' = o.s
          /\ out' = [st |-> o.st, toks |-> <<>>, k |-> 0]
          /\ history' = IF o.st = "OK" THEN history \o ids ELSE history
    BY <1>1
<1>3. PICK o \in Feed(sess, ids) :
          /\ sess' = o.s
          /\ out' = [st |-> o.st, toks |-> <<>>, k |-> 0]
          /\ history' = IF o.st = "OK" THEN history \o ids ELSE history
    BY <1>2
<1>4. ids \in Seq(Tokens)
    <2>1. n \in Nat
        OBVIOUS
    <2> QED
        BY <2>1, FunctionSeq
<1>5. Good(sess) /\ HeadLevel(sess) /\ Pin(sess) = <<>> /\ history \in Seq(Tokens)
    BY DEF TargetInv
<1>6. Good(o.s) /\ HeadLevel(o.s) /\ StartOf(Text(sess), Text(o.s)) /\ Pin(o.s) = Pin(sess)
    BY <1>3, <1>4, <1>5, FeedSound
<1>7. history' \in Seq(Tokens)
    BY <1>3, <1>4, <1>5, ConcatProperties
<1>8. TargetInv'
    BY <1>3, <1>5, <1>6, <1>7, TargetNext
<1>9. PICK q : q = (IF out.st = "OK" THEN out.toks ELSE <<>>)'
    OBVIOUS
<1>10. q = <<>>
    BY <1>3, <1>9
<1>11. PICK x : x = Out(o.s, "OK", q, 0)
    OBVIOUS
<1>12. x.s = o.s /\ SaidBy(x) = q
    BY <1>11, OutCounted DEF SaidBy
<1>13. Speaks(sess, x)
    BY <1>6, <1>10, <1>12 DEF Speaks, Extends
<1>14. Contract!Next
    BY <1>3, <1>5, <1>6, <1>9, <1>12, <1>13, SpeaksNext
<1>15. DraftInv'
    BY DraftKept DEF Prefill
<1> QED
    BY <1>8, <1>14, <1>15

\* geist_session_decode_step.
LEMMA DecodeKeeps ==
    ASSUME TargetInv, DraftInv, Decode
    PROVE  TargetInv' /\ DraftInv' /\ Contract!Next
<1>1. PICK o \in DecodeStep(sess, FALSE) : Returns(o, 0)
    BY DEF Decode
<1>2. Sound(sess, o)
    BY DecodeSound DEF TargetInv
<1>3. TargetInv' /\ Contract!Next
    <2>1. PICK k : k = 0
        OBVIOUS
    <2>2. Returns(o, k)
        BY <1>1, <2>1
    <2> QED
        BY <1>2, <2>2, ReturnsKeep
<1>4. DraftInv'
    BY DraftKept DEF Decode
<1> QED
    BY <1>3, <1>4

\* A step that only touches what neither the conversation nor the draft sees.
LEMMA SetDraftKeeps ==
    ASSUME TargetInv, DraftInv, SetDraft
    PROVE  TargetInv' /\ DraftInv' /\ UNCHANGED Contract!vars
<1>1. sess' = sess /\ history' = history /\ out' = out /\ draft' = draft /\ faults' = faults
    BY DEF SetDraft
<1>2. TargetInv'
    <2>1. PICK s, h : s = sess /\ h = history
        OBVIOUS
    <2>2. Good(s) /\ HeadLevel(s) /\ Pin(s) = <<>> /\ h \in Seq(Tokens)
        BY <2>1 DEF TargetInv
    <2> QED
        BY <1>1, <2>1, <2>2, TargetNext
<1>3. UNCHANGED Contract!vars
    BY <1>1 DEF Contract!vars, Text, Content, PendingToken
<1> QED
    BY <1>1, <1>2, <1>3, DraftKept

\* geist_session_cancel.
LEMMA CancelKeeps ==
    ASSUME TargetInv, DraftInv, Cancel
    PROVE  TargetInv' /\ DraftInv' /\ UNCHANGED Contract!vars
<1>1. sess' = [sess EXCEPT !.cancel = TRUE] /\ history' = history /\ out' = out /\ draft' = draft /\ faults' = faults
    BY DEF Cancel
<1>2. PICK s, h, x : s = sess /\ h = history /\ x = TRUE
    OBVIOUS
<1>3. Good(s) /\ HeadLevel(s) /\ Pin(s) = <<>> /\ h \in Seq(Tokens)
    BY <1>2 DEF TargetInv
<1>4. PICK t : t = [s EXCEPT !.cancel = x]
    OBVIOUS
<1>5. Good(t) /\ Text(t) = Text(s) /\ Pin(t) = Pin(s) /\ t.logitsValid = s.logitsValid /\ t.cancel = x
    BY SMTT(30), <1>3, <1>4, RequestGood
<1>6. HeadLevel(t)
    <2>1. IsSession(s)
        BY <1>3 DEF Good, Held, Typed
    <2>2. HeadLevel([s EXCEPT !.cancel = x])
        BY <1>3, <2>1, FlagsHead
    <2> QED
        BY <1>4, <2>2
<1>7. sess' = t
    BY <1>1, <1>2, <1>4
<1>8. TargetInv'
    BY <1>1, <1>2, <1>3, <1>5, <1>6, <1>7, TargetNext
<1>9. UNCHANGED Contract!vars
    <2>1. Text(sess)' = Text(t) /\ (sess.logitsValid)' = t.logitsValid
        BY <1>7 DEF Text, Content, PendingToken
    <2>2. Text(sess)' = Text(sess) /\ (sess.logitsValid)' = sess.logitsValid
        BY <1>2, <1>5, <2>1
    <2> QED
        BY <1>1, <2>2 DEF Contract!vars
<1> QED
    BY <1>1, <1>8, <1>9, DraftKept

\* A call of the target alone, from the settled session s.
Settledly(s) == /\ Good(s) /\ HeadLevel(s) /\ \A r : Sound(s, r) => Sound(sess, r)

LEMMA SingleKeeps ==
    ASSUME TargetInv, DraftInv, NEW s, Settledly(s), Single(s)
    PROVE  TargetInv' /\ DraftInv' /\ Contract!Next
<1>1. PICK o \in DecodeStep(s, FALSE) : SpeculativeReturn(o, 0) /\ UNCHANGED <<draft, faults>>
    BY DEF Single
<1>2. Sound(sess, o)
    BY DecodeSound DEF Settledly
<1>3. TargetInv' /\ Contract!Next
    <2>1. PICK k : k = 0
        OBVIOUS
    <2>2. Returns(o, k)
        BY <1>1, <2>1 DEF SpeculativeReturn
    <2> QED
        BY <1>2, <2>2, ReturnsKeep
<1>4. DraftInv'
    BY <1>1, DraftKept
<1> QED
    BY <1>3, <1>4

LEMMA WithGuessesKeeps ==
    ASSUME TargetInv, DraftInv, NEW s, Settledly(s), Paid(s), s.logitsValid,
           NEW guesses \in Seq(Tokens), NEW k, WithGuesses(s, guesses, k)
    PROVE  TargetInv' /\ DraftInv' /\ Contract!Next
<1>1. CASE guesses = <<>>
    BY <1>1, SingleKeeps DEF WithGuesses
<1>2. CASE guesses # <<>>
    <2>1. PICK v \in SpecVerify(s, <<PendingToken(s)>> \o guesses, FALSE) :
              SpeculativeReturn(v, k) /\ UNCHANGED <<draft, faults>>
        BY <1>2 DEF WithGuesses
    <2>2. Sound(sess, v)
        BY VerifySound DEF Settledly
    <2>3. TargetInv' /\ Contract!Next
        BY <2>1, <2>2, ReturnsKeep DEF SpeculativeReturn
    <2>4. DraftInv'
        BY <2>1, DraftKept
    <2> QED
        BY <2>3, <2>4
<1> QED
    BY <1>1, <1>2

\* The seed is a token.
LEMMA SeedTyped ==
    ASSUME NEW s, Good(s)
    PROVE  PendingToken(s) \in Tokens
BY DEF Good, Held, Owes

LEMMA WithMtpKeeps ==
    ASSUME TargetInv, DraftInv, NEW s, Settledly(s), Paid(s), s.logitsValid, s.usesMtp,
           NEW k \in Nat \ {0}, WithMtp(s, k)
    PROVE  TargetInv' /\ DraftInv' /\ Contract!Next
<1>1. Good(s) /\ HeadLevel(s)
    BY DEF Settledly
<1>2. CASE MtpInStep(s, k)
    <2>1. PICK y \in Tokens : y = PendingToken(s)
        BY <1>1, SeedTyped
    <2>2. PICK g \in Seq(Tokens) : g = MtpGuesses(s, y, k)
        BY <1>1, <1>2, MtpGuessesTyped
    <2>3. WithGuesses(s, g, k)
        BY <1>2, <2>1, <2>2 DEF WithMtp
    <2> QED
        BY <2>3, WithGuessesKeeps
<1>3. CASE ~MtpInStep(s, k)
    <2>1. PICK st : st = "INVALID_STATE" /\ st # "OK"
        OBVIOUS
    <2>2. PICK o : o = Out(s, st, <<>>, 0)
        OBVIOUS
    <2>3. SpeculativeReturn(o, k) /\ UNCHANGED <<draft, faults>>
        BY <1>3, <2>1, <2>2 DEF WithMtp
    <2>4. Sound(s, o)
        BY <1>1, <2>1, <2>2, ErrorSound
    <2>5. Sound(sess, o)
        BY <2>4 DEF Settledly
    <2>6. TargetInv' /\ Contract!Next
        BY <2>3, <2>5, ReturnsKeep DEF SpeculativeReturn
    <2>7. DraftInv'
        BY <2>3, DraftKept
    <2> QED
        BY <2>6, <2>7
<1> QED
    BY <1>2, <1>3

\* The draft session's guesses, their verify, and the draft's rollback.
LEMMA WithDraftModelKeeps ==
    ASSUME TargetInv, DraftInv, NEW s, Settledly(s), Paid(s), s.logitsValid,
           NEW k \in Nat \ {0}, WithDraftModel(s, k)
    PROVE  TargetInv' /\ DraftInv' /\ Contract!Next
<1>1. Good(s) /\ HeadLevel(s) /\ history \in Seq(Tokens)
    BY DEF Settledly, TargetInv
<1>2. PICK y \in Tokens : y = PendingToken(s)
    BY <1>1, SeedTyped
<1>3. PICK p \in DraftModelPropose(draft, history, y, k, CanFail) :
          IF p.st # "OK"
          THEN /\ SpeculativeReturn(Out(s, p.st, <<>>, 0), k)
               /\ draft' = p.s
               /\ faults' = faults + p.faults
          ELSE \E v \in SpecVerify(s, <<y>> \o p.toks, FALSE) :
                 /\ SpeculativeReturn(v, k)
                 /\ \E r \in IF v.st = "OK"
                             THEN DraftModelRollback(p.s, history, k - 1, Len(v.toks),
                                                     CanFail /\ p.faults = 0)
                             ELSE {Ok(p.s)} :
                      /\ draft' = r.s
                      /\ faults' = faults + p.faults + r.faults
    BY <1>2 DEF WithDraftModel
<1>4. PICK c : c = (faults = 0)
    OBVIOUS
<1>5. DraftOut(c, p)
    <2>1. AtRest(c, draft)
        BY <1>4 DEF DraftInv
    <2> QED
        BY <1>1, <1>3, <2>1, ProposeOut
<1>6. p.faults \in Nat /\ faults \in Nat
    BY <1>5 DEF DraftOut, DraftInv
<1>7. CASE p.st # "OK"
    <2>1. PICK o : o = Out(s, p.st, <<>>, 0)
        OBVIOUS
    <2>2. SpeculativeReturn(o, k) /\ draft' = p.s /\ faults' = faults + p.faults
        BY <1>3, <1>7, <2>1
    <2>3. Sound(s, o)
        BY <1>1, <1>7, <2>1, ErrorSound
    <2>4. TargetInv' /\ Contract!Next
        BY <2>2, <2>3, ReturnsKeep DEF SpeculativeReturn, Settledly
    <2>5. faults' \in Nat /\ (faults' = 0 => faults = 0 /\ p.faults = 0)
        BY <1>6, <2>2
    <2>6. AtRest(faults' = 0, p.s)
        BY <1>4, <1>5, <2>5 DEF DraftOut, AtRest
    <2>7. DraftInv'
        BY <2>2, <2>5, <2>6, DraftNext
    <2> QED
        BY <2>4, <2>7
<1>8. CASE p.st = "OK"
    <2>1. PICK v \in SpecVerify(s, <<y>> \o p.toks, FALSE) :
              /\ SpeculativeReturn(v, k)
              /\ \E r \in IF v.st = "OK"
                          THEN DraftModelRollback(p.s, history, k - 1, Len(v.toks), CanFail /\ p.faults = 0)
                          ELSE {Ok(p.s)} :
                   /\ draft' = r.s
                   /\ faults' = faults + p.faults + r.faults
        BY <1>3, <1>8
    <2>2. p.toks \in Seq(Tokens)
        BY <1>5, <1>8 DEF DraftOut
    <2>3. Sound(s, v) /\ (v.st = "OK" => v.toks # <<>>)
        BY <1>1, <1>2, <2>1, <2>2, VerifySound
    <2>4. TargetInv' /\ Contract!Next
        BY <2>1, <2>3, ReturnsKeep DEF SpeculativeReturn, Settledly
    <2>5. PICK r \in IF v.st = "OK"
                     THEN DraftModelRollback(p.s, history, k - 1, Len(v.toks), CanFail /\ p.faults = 0)
                     ELSE {Ok(p.s)} :
              draft' = r.s /\ faults' = faults + p.faults + r.faults
        BY <2>1
    <2>6. PICK b : b = (c /\ p.faults = 0)
        OBVIOUS
    <2>7. AtRest(b, p.s)
        BY <1>5, <2>6 DEF DraftOut
    <2>8. DraftOut(b, r)
        <3>1. CASE v.st # "OK"
            BY <2>5, <2>7, <3>1, DraftOk
        <3>2. CASE v.st = "OK"
            <4>1. v.toks \in Seq(Tokens) /\ v.toks # <<>>
                BY <2>3, <3>2 DEF Sound
            <4>2. PICK n \in Nat : n = Len(v.toks) /\ n > 0
                <5>1. Len(v.toks) \in Nat /\ (Len(v.toks) = 0 => v.toks = <<>>)
                    BY <4>1, EmptySeq
                <5> QED
                    BY <4>1, <5>1
            <4>3. PICK g \in Int : g = k - 1
                OBVIOUS
            <4>4. r \in DraftModelRollback(p.s, history, g, n, CanFail /\ p.faults = 0)
                BY <2>5, <3>2, <4>2, <4>3
            <4> QED
                BY <1>1, <2>7, <4>2, <4>4, RollbackOut
        <3> QED
            BY <3>1, <3>2
    <2>9. r.faults \in Nat
        BY <2>8 DEF DraftOut
    <2>10. faults' \in Nat /\ (faults' = 0 => faults = 0 /\ p.faults = 0 /\ r.faults = 0)
        BY <1>6, <2>5, <2>9
    <2>11. AtRest(faults' = 0, r.s)
        BY <1>4, <2>6, <2>8, <2>10 DEF DraftOut, AtRest
    <2>12. DraftInv'
        BY <2>5, <2>10, <2>11, DraftNext
    <2> QED
        BY <2>4, <2>12
<1> QED
    BY <1>7, <1>8

\* geist_session_decode_speculative.
LEMMA SpeculativeKeeps ==
    ASSUME TargetInv, DraftInv, DecodeSpeculative
    PROVE  TargetInv' /\ DraftInv' /\ Contract!Next
<1>1. PICK k \in 1 .. KMax : \E o \in Settle(sess, FALSE) :
          \/ /\ o.st # "OK" \/ ~o.s.logitsValid
             /\ Single(o.s)
          \/ /\ o.st = "OK" /\ o.s.logitsValid
             /\ \/ attached /\ WithDraftModel(o.s, k)
                \/ ~attached /\ o.s.usesMtp /\ WithMtp(o.s, k)
                \/ /\ ~attached /\ ~o.s.usesMtp
                   /\ WithGuesses(o.s, NgramGuesses(history, PendingToken(o.s), k), k)
    BY DEF DecodeSpeculative
<1>2. PICK o \in Settle(sess, FALSE) :
          \/ /\ o.st # "OK" \/ ~o.s.logitsValid
             /\ Single(o.s)
          \/ /\ o.st = "OK" /\ o.s.logitsValid
             /\ \/ attached /\ WithDraftModel(o.s, k)
                \/ ~attached /\ o.s.usesMtp /\ WithMtp(o.s, k)
                \/ /\ ~attached /\ ~o.s.usesMtp
                   /\ WithGuesses(o.s, NgramGuesses(history, PendingToken(o.s), k), k)
    BY <1>1
<1>3. k \in Nat \ {0}
    OBVIOUS
<1>4. Good(sess) /\ HeadLevel(sess) /\ history \in Seq(Tokens)
    BY DEF TargetInv
<1>5. /\ Good(o.s) /\ HeadLevel(o.s) /\ SameView(sess, o.s) /\ (o.st = "OK" => Paid(o.s))
      /\ \A r : Sound(o.s, r) => Sound(sess, r)
    BY <1>4, SettledSound
<1>6. PICK s : s = o.s
    OBVIOUS
<1>7. Settledly(s)
    BY <1>5, <1>6 DEF Settledly
<1>8. CASE Single(s)
    BY <1>7, <1>8, SingleKeeps
<1>9. CASE o.st = "OK" /\ s.logitsValid /\ WithDraftModel(s, k)
    BY <1>3, <1>5, <1>6, <1>7, <1>9, WithDraftModelKeeps
<1>10. CASE o.st = "OK" /\ s.logitsValid /\ s.usesMtp /\ WithMtp(s, k)
    BY <1>3, <1>5, <1>6, <1>7, <1>10, WithMtpKeeps
<1>11. CASE o.st = "OK" /\ s.logitsValid /\ WithGuesses(s, NgramGuesses(history, PendingToken(s), k), k)
    <2>1. PICK g \in Seq(Tokens) : g = NgramGuesses(history, PendingToken(s), k)
        BY <1>3, <1>4, NgramGuessesTyped
    <2>2. WithGuesses(s, g, k) /\ Paid(s) /\ s.logitsValid
        BY <1>5, <1>6, <1>11, <2>1
    <2> QED
        BY <1>7, <2>2, WithGuessesKeeps
<1> QED
    BY <1>2, <1>6, <1>8, <1>9, <1>10, <1>11

\* Every step keeps both sessions good and takes a step of the conversation.
LEMMA StepKeeps == TargetInv /\ DraftInv /\ [Next]_vars => TargetInv' /\ DraftInv' /\ [Contract!Next]_Contract!vars
<1> SUFFICES ASSUME TargetInv, DraftInv, [Next]_vars
             PROVE  TargetInv' /\ DraftInv' /\ [Contract!Next]_Contract!vars
    OBVIOUS
<1>1. CASE Prefill \/ Decode \/ DecodeSpeculative
    BY <1>1, PrefillKeeps, DecodeKeeps, SpeculativeKeeps
<1>2. CASE SetDraft
    BY <1>2, SetDraftKeeps
<1>3. CASE Cancel
    BY <1>3, CancelKeeps
<1>4. CASE UNCHANGED vars
    <2>1. /\ sess' = sess /\ history' = history /\ out' = out /\ draft' = draft /\ faults' = faults
        BY <1>4 DEF vars
    <2>2. TargetInv'
        <3>1. PICK s, h : s = sess /\ h = history
            OBVIOUS
        <3>2. Good(s) /\ HeadLevel(s) /\ Pin(s) = <<>> /\ h \in Seq(Tokens)
            BY <3>1 DEF TargetInv
        <3> QED
            BY <2>1, <3>1, <3>2, TargetNext
    <2>3. UNCHANGED Contract!vars
        BY <2>1 DEF Contract!vars, Text, Content, PendingToken
    <2> QED
        BY <2>1, <2>2, <2>3, DraftKept
<1> QED
    BY <1>1, <1>2, <1>3, <1>4 DEF Next

\* A new session's head is level.
LEMMA NewSessionHead ==
    ASSUME NEW d \in Models
    PROVE  HeadLevel(NewSession(d))
<1>1. PICK s : s = NewSession(d)
    OBVIOUS
<1>2. s.recurrent = d.recurrent /\ s.usesMtp = d.mtp /\ s.mtp = NoMtp /\ s.rows = <<>> /\ s.kvLen = 0
    BY <1>1 DEF NewSession
<1>3. s.usesMtp => s.recurrent
    BY <1>2, SessionConstants
<1>4. PICK z : z = [p \in 1 .. 0 |-> SubSeq(s.rows, 1, p)]
    OBVIOUS
<1>5. z = <<>> /\ SubSeq(s.rows, 1, 0) = <<>>
    BY <1>2, <1>4
<1>6. Heads(s.rows, s.kvLen) = NoMtp
    BY <1>2, <1>4, <1>5 DEF Heads, NoMtp
<1> QED
    BY <1>1, <1>2, <1>3, <1>6 DEF HeadLevel

\* At the start.
LEMMA InitGood == Init => TargetInv /\ DraftInv /\ Contract!Init
<1> SUFFICES ASSUME Init PROVE TargetInv /\ DraftInv /\ Contract!Init
    OBVIOUS
<1>1. PICK m \in Models : sess = NewSession(m)
    BY DEF Init
<1>2. PICK d \in DraftModels : draft = D!NewSession(d)
    <2>1. PICK d \in DraftModels : draft = NewSession(d)
        BY DEF Init
    <2>2. \A x : NewSession(x) = D!NewSession(x)
        BY DEF NewSession, D!NewSession, NoMtp, D!NoMtp, NoTxn, D!NoTxn, NoPending, D!NoPending
    <2> QED
        BY <2>1, <2>2
<1>3. history = <<>> /\ faults = 0 /\ out = [st |-> "OK", toks |-> <<>>, k |-> 0]
    BY DEF Init
<1>4. Good(sess) /\ Text(sess) = <<>> /\ Pin(sess) = <<>> /\ sess.logitsValid = FALSE
    BY <1>1, NewSessionGood
<1>5. TargetInv
    BY <1>1, <1>3, <1>4, NewSessionHead DEF TargetInv
<1>6. DP!Good(draft)
    BY <1>2, SameNewSession, DraftConstants, DP!NewSessionGood
<1>7. DraftInv
    BY <1>3, <1>6 DEF DraftInv, AtRest, DP!Good
<1>8. Contract!Init
    BY <1>3, <1>4 DEF Contract!Init, Contract!NoImage
<1> QED
    BY <1>5, <1>7, <1>8

\* The state of both sessions.
THEOREM SessionsStayGood == Spec => [](TargetInv /\ DraftInv)
<1>1. Init => TargetInv /\ DraftInv
    BY InitGood
<1>2. TargetInv /\ DraftInv /\ [Next]_vars => (TargetInv /\ DraftInv)'
    BY StepKeeps
<1> QED
    BY <1>1, <1>2, PTL DEF Spec

\* Neither session's recurrence ever parts from its cache, nor does the draft head's.
THEOREM RecurrencesAlwaysMatch == Spec => []RecurrencesMatch
<1>1. TargetInv /\ DraftInv => RecurrencesMatch
    <2> SUFFICES ASSUME TargetInv, DraftInv PROVE RecurrencesMatch
        OBVIOUS
    <2>1. Core(sess) /\ HeadLevel(sess)
        BY DEF TargetInv, Good, Rest
    <2>2. sess.recurrent => sess.rec = Content(sess)
        BY <2>1 DEF Core, Absorbed
    <2>3. sess.usesMtp => /\ sess.mtp.rows = [p \in 1 .. sess.kvLen |-> SubSeq(sess.rows, 1, p)]
                          /\ sess.mtp.carry = Content(sess)
        <3>1. PICK a, b : a = [p \in 1 .. sess.kvLen |-> SubSeq(sess.rows, 1, p)] /\ b = Content(sess)
            OBVIOUS
        <3>2. Heads(sess.rows, sess.kvLen) = [rows |-> a, carry |-> b]
            BY <3>1 DEF Heads, Content
        <3>3. sess.usesMtp => sess.mtp = [rows |-> a, carry |-> b]
            BY <2>1, <3>2 DEF HeadLevel
        <3>4. [rows |-> a, carry |-> b].rows = a /\ [rows |-> a, carry |-> b].carry = b
            OBVIOUS
        <3> QED
            BY <3>1, <3>3, <3>4
    <2>4. faults = 0 /\ draft.recurrent => draft.rec = D!Content(draft)
        <3>1. faults = 0 => DP!Core(draft)
            BY DEF DraftInv, AtRest, DP!Rest
        <3>2. faults = 0 /\ draft.recurrent => draft.rec = DP!Content(draft)
            BY <3>1 DEF DP!Core, DP!Absorbed
        <3> QED
            BY <3>2, SameContent
    <2> QED
        BY <2>2, <2>3, <2>4 DEF RecurrencesMatch
<1> QED
    BY <1>1, SessionsStayGood, PTL

\* Whatever the drafter guesses and wherever the draft session fails, the stream is
\* the target model's own greedy one.
THEOREM SpeculationIsGreedy == Spec => StreamIsGreedy
<1>1. Init => Contract!Init
    BY InitGood
<1>2. TargetInv /\ DraftInv /\ [Next]_vars => [Contract!Next]_Contract!vars
    BY StepKeeps
<1> QED
    BY <1>1, <1>2, SessionsStayGood, PTL DEF Spec, StreamIsGreedy, Contract!Spec
=============================================================================
