------------------------------ MODULE VkProofs ------------------------------
(***************************************************************************)
(* Proofs about the Vulkan backend, for any kernels, weights and bounds:     *)
(* that kernels see program order, that the host reads results and that a    *)
(* dropped submission reaches the first readback after it (VkSequence), and  *)
(* that the values signalled on tl_comp rise (VkStream).                     *)
(*                                                                           *)
(* A dropped submission: the flag that one failed is up from the failure to  *)
(* the readback that takes it.                                               *)
(*                                                                           *)
(* The values on tl_comp: a value is handed out to the open command buffer,  *)
(* whose submission puts its signal behind all those before; so what is      *)
(* handed out last bounds what is submitted, in its order, and that bounds   *)
(* what is signalled.                                                        *)
(*                                                                           *)
(* Program order: the commands that are pending, submitted or not, are in    *)
(* the order of their numbers on the queue, and two of them that touch a     *)
(* cell in conflict have a barrier between them (Separated).  So one that    *)
(* may start has no conflicting one before it that is still pending, and     *)
(* what it finds in memory is what program order has there (SeesOrder,       *)
(* ProgramIsNext).  A barrier is left out only when the hazard table does    *)
(* not have the cell, and what the table forgot is behind a barrier already  *)
(* (TableKnows).  The host's own reads and writes come after a flush, or at  *)
(* a fence nothing is behind, or after the wait for the mark that covers the *)
(* cell (Guarded, in what is left of the call).  All this as long as no      *)
(* submission was lost (MInv).                                               *)
(***************************************************************************)
EXTENDS VkStream, SequenceTheorems, FiniteSetTheorems, TLAPS

SequenceFields ==
    DOMAIN seq = {"open", "cmd", "inCmd", "n", "failed", "dirty", "batch", "waitCopy", "signalComp"}
CountFields == DOMAIN count = {"calls", "ids", "lost", "unreported"}

-----------------------------------------------------------------------------
(* A dropped submission is reported by the first readback. *)

FailureKept == count.unreported => seq.failed
FInv == SequenceFields /\ CountFields /\ FailureKept /\ FailureReachesReadback

LEMMA FailureInit == Init => FInv
    BY DEF Init, SequenceInit, FInv, SequenceFields, CountFields, FailureKept,
           FailureReachesReadback, NoAnswer

LEMMA FailureSame ==
    FInv /\ UNCHANGED <<seq, answer, count>> => FInv'
    BY DEF FInv, SequenceFields, CountFields, FailureKept, FailureReachesReadback

\* What a submission makes of the count.
LEMMA SubmitCounts ==
    ASSUME FInv, NEW ok \in BOOLEAN, Submit(ok)
    PROVE  CountFields' /\ (count'.unreported => count.unreported \/ ~ok)
    BY DEF FInv, CountFields, Submit

LEMMA RecordKeepsFailure ==
    ASSUME FInv, NEW a, Record(a), UNCHANGED answer
    PROVE  FInv'
<1>1. SequenceFields' /\ seq'.failed = seq.failed
    BY DEF FInv, SequenceFields, Record, Recorded, Opened
<1>2. CountFields' /\ count'.unreported = count.unreported
    BY DEF FInv, CountFields, Record
<1> QED
    BY <1>1, <1>2 DEF FInv, FailureKept, FailureReachesReadback

LEMMA RollKeepsFailure ==
    ASSUME FInv, NEW ok \in BOOLEAN, RollSubmit(ok)
    PROVE  FInv'
<1>1. SequenceFields' /\ seq'.failed = (seq.failed \/ ~ok)
    BY DEF FInv, SequenceFields, RollSubmit, Rolled
<1>2. CountFields' /\ (count'.unreported => count.unreported \/ ~ok)
    BY SubmitCounts DEF RollSubmit
<1> QED
    BY <1>1, <1>2 DEF FInv, FailureKept, FailureReachesReadback, RollSubmit

LEMMA FlushKeepsFailure ==
    ASSUME FInv, SeqFlush
    PROVE  FInv'
<1>1. CASE seq.open
  <2>1. PICK ok \in BOOLEAN : Submit(ok) /\ seq' = Closed(seq, ok)
      BY <1>1 DEF SeqFlush
  <2>2. SequenceFields' /\ seq'.failed = (seq.failed \/ ~ok)
      BY <2>1 DEF FInv, SequenceFields, Closed
  <2>3. CountFields' /\ (count'.unreported => count.unreported \/ ~ok)
      BY <2>1, SubmitCounts
  <2> QED
      BY <2>2, <2>3 DEF FInv, FailureKept, FailureReachesReadback, SeqFlush
<1>2. CASE ~seq.open
    BY <1>2, FailureSame DEF SeqFlush
<1> QED
    BY <1>1, <1>2

LEMMA ReadTakesFailure ==
    ASSUME FInv, ReadBack
    PROVE  FInv'
<1>1. CASE seq.failed
    BY <1>1 DEF ReadBack, FInv, SequenceFields, CountFields, FailureKept,
                FailureReachesReadback, NoAnswer
<1>2. CASE ~seq.failed
    BY <1>2 DEF ReadBack, FInv, SequenceFields, CountFields, FailureKept, FailureReachesReadback
<1> QED
    BY <1>1, <1>2

\* A call begins without an answer.
LEMMA BeginKeepsFailure ==
    ASSUME FInv, NEW es, Begin(es)
    PROVE  FInv'
    BY DEF Begin, FInv, SequenceFields, CountFields, FailureKept, FailureReachesReadback, NoAnswer

LEMMA CallsKeepFailure == FInv /\ Calls => FInv'
    BY BeginKeepsFailure
       DEF Calls, Kernel, CopyBuffer, Linear, RowsGather, Argmax, Download, Upload, MapMarked,
           Submission, SubmitMark

LEMMA HostKeepsFailure == FInv /\ HostStep => FInv'
<1> SUFFICES ASSUME FInv, HostStep PROVE FInv'
    OBVIOUS
<1>1. CASE DispatchAcc
    BY <1>1, RecordKeepsFailure, FailureSame DEF DispatchAcc
<1>2. CASE BufferCopy
    BY <1>2, RecordKeepsFailure DEF BufferCopy
<1>3. CASE Roll
    BY <1>3, RollKeepsFailure, FailureSame DEF Roll
<1>4. CASE SeqFlush
    BY <1>4, FlushKeepsFailure
<1>5. CASE SeqCut
    BY <1>5, RollKeepsFailure, FailureSame DEF SeqCut
<1>6. CASE SetMark
    BY <1>6 DEF SetMark, FInv, SequenceFields, CountFields, FailureKept, FailureReachesReadback
<1>7. CASE Write
    BY <1>7 DEF Write, HostStore, FInv, SequenceFields, CountFields, FailureKept,
                FailureReachesReadback
<1>8. CASE ReadBack
    BY <1>8, ReadTakesFailure
<1>9. CASE AwaitFence \/ ResetRings \/ SeqMark \/ WaitMarkBegin \/ FlushMark \/ Spin
           \/ StageX \/ GemmResident \/ ReserveU
    BY <1>9, FailureSame
       DEF AwaitFence, ResetRings, SeqMark, WaitMarkBegin, FlushMark, Spin, StageX, GemmResident,
           ReserveU
<1> QED
    BY <1>1, <1>2, <1>3, <1>4, <1>5, <1>6, <1>7, <1>8, <1>9 DEF HostStep

\* Between a submission that was dropped and the readback that says so the host is handed
\* nothing: no roll, flush, cut or mark in between takes the failure away.
THEOREM FailureAlwaysReported == Spec => []FailureReachesReadback
<1>1. FInv /\ [Next]_vars => FInv'
    BY CallsKeepFailure, HostKeepsFailure, FailureSame DEF Next, vars, hostVars
<1>2. FInv => FailureReachesReadback
    BY DEF FInv
<1> QED
    BY FailureInit, <1>1, <1>2, PTL DEF Spec

-----------------------------------------------------------------------------
(* Sequences of entries: what the compute queue and the open command buffer hold. *)

Entries(s) == {s[i] : i \in DOMAIN s}
Listed(s) == s \in Seq(Entries(s)) /\ \A i \in DOMAIN s : "kind" \in DOMAIN s[i]
Silent(s) == \A i \in DOMAIN s : s[i].kind # "signal"

LEMMA OwnEntries ==
    ASSUME NEW E, NEW s \in Seq(E)
    PROVE  s \in Seq(Entries(s))
<1>1. s = [i \in 1 .. Len(s) |-> s[i]] /\ Len(s) \in Nat /\ DOMAIN s = 1 .. Len(s)
    OBVIOUS
<1>2. \A i \in 1 .. Len(s) : s[i] \in Entries(s)
    BY <1>1 DEF Entries
<1>3. [i \in 1 .. Len(s) |-> s[i]] \in Seq(Entries(s))
    BY <1>1, <1>2
<1> QED
    BY <1>1, <1>3

LEMMA Join ==
    ASSUME NEW s, NEW t, Listed(s), Listed(t)
    PROVE  /\ Listed(s \o t) /\ Len(s) \in Nat /\ Len(t) \in Nat
           /\ DOMAIN s = 1 .. Len(s) /\ DOMAIN t = 1 .. Len(t)
           /\ DOMAIN (s \o t) = 1 .. Len(s) + Len(t)
           /\ \A i \in DOMAIN (s \o t) :
                \/ i \in DOMAIN s /\ (s \o t)[i] = s[i]
                \/ i - Len(s) \in DOMAIN t /\ (s \o t)[i] = t[i - Len(s)]
<1> DEFINE E == Entries(s) \cup Entries(t)
<1>1. s \in Seq(E) /\ t \in Seq(E)
    BY DEF Listed
<1>2. s \o t \in Seq(E) /\ Len(s \o t) = Len(s) + Len(t)
    BY <1>1
<1>3. /\ Len(s) \in Nat /\ Len(t) \in Nat
      /\ DOMAIN s = 1 .. Len(s) /\ DOMAIN t = 1 .. Len(t)
      /\ DOMAIN (s \o t) = 1 .. Len(s) + Len(t)
    BY <1>1, <1>2
<1>4. ASSUME NEW i \in DOMAIN (s \o t)
      PROVE  \/ i \in DOMAIN s /\ (s \o t)[i] = s[i]
             \/ i - Len(s) \in DOMAIN t /\ (s \o t)[i] = t[i - Len(s)]
  <2>1. CASE i <= Len(s)
      BY <2>1, <1>1, <1>3
  <2>2. CASE i > Len(s)
      BY <2>2, <1>1, <1>3
  <2> QED
      BY <2>1, <2>2, <1>3
<1>5. s \o t \in Seq(Entries(s \o t))
    BY <1>2, OwnEntries
<1> QED
    BY <1>3, <1>4, <1>5 DEF Listed

LEMMA One ==
    ASSUME NEW e, "kind" \in DOMAIN e
    PROVE  Listed(<<e>>) /\ DOMAIN <<e>> = 1 .. 1 /\ <<e>>[1] = e /\ Len(<<e>>) = 1
<1>1. <<e>> \in Seq({e})
    OBVIOUS
<1>2. <<e>> \in Seq(Entries(<<e>>))
    BY <1>1, OwnEntries
<1> QED
    BY <1>2 DEF Listed

LEMMA None == Listed(<<>>) /\ Silent(<<>>) /\ DOMAIN <<>> = {} /\ Len(<<>>) = 0
<1>1. <<>> \in Seq(Entries(<<>>))
    OBVIOUS
<1> QED
    BY <1>1 DEF Listed, Silent

LEMMA AppendedSilent ==
    ASSUME NEW s, Listed(s), Silent(s), NEW e, "kind" \in DOMAIN e, e.kind # "signal"
    PROVE  Listed(Append(s, e)) /\ Silent(Append(s, e))
<1>1. Listed(s \o <<e>>) /\ Silent(s \o <<e>>)
    BY One, Join DEF Silent
<1>2. Append(s, e) = s \o <<e>>
    BY DEF Listed
<1> QED
    BY <1>1, <1>2

\* Where entry j of what is left without entry i was.
Old(i, j) == IF j < i THEN j ELSE j + 1

\* What is left when entry i is gone keeps its order.
LEMMA Removed ==
    ASSUME NEW s, Listed(s), NEW i \in DOMAIN s
    PROVE  /\ Listed(RemoveAt(s, i))
           /\ DOMAIN RemoveAt(s, i) \subseteq Nat
           /\ \A j \in DOMAIN RemoveAt(s, i) :
                Old(i, j) \in DOMAIN s /\ RemoveAt(s, i)[j] = s[Old(i, j)] /\ Old(i, j) # i
<1>0. PICK r, low, high : /\ r = RemoveAt(s, i) /\ r = low \o high
                          /\ low = SubSeq(s, 1, i - 1) /\ high = SubSeq(s, i + 1, Len(s))
    BY DEF RemoveAt
<1>1. s \in Seq(Entries(s)) /\ Len(s) \in Nat /\ DOMAIN s = 1 .. Len(s) /\ i \in 1 .. Len(s)
    BY DEF Listed
<1>2. /\ low \in Seq(Entries(s)) /\ Len(low) = i - 1
      /\ \A j \in 1 .. i - 1 : low[j] = s[j]
    BY <1>0, <1>1
<1>3. /\ high \in Seq(Entries(s)) /\ Len(high) = Len(s) - i
      /\ \A j \in 1 .. Len(s) - i : high[j] = s[i + j]
  <2>1. high \in Seq(Entries(s)) /\ Len(high) = Len(s) - i
      BY <1>0, <1>1
  <2>2. ASSUME NEW j \in 1 .. Len(s) - i PROVE high[j] = s[i + j]
    <3>1. high[j] = s[(i + 1) + j - 1]
      <4>1. \A n \in i + 1 .. Len(s) : s[n] \in Entries(s)
          BY <1>1, ElementOfSeq
      <4>2. i + 1 \in Int /\ Len(s) \in Int /\ j \in 1 .. Len(s) - (i + 1) + 1
          BY <1>1
      <4>3. SubSeq(s, i + 1, Len(s))[j] = s[(i + 1) + j - 1]
          BY <4>1, <4>2, SubSeqProperties
      <4> QED
          BY <4>3, <1>0
    <3>2. (i + 1) + j - 1 = i + j
        BY <1>1
    <3> QED
        BY <3>1, <3>2
  <2> QED
      BY <2>1, <2>2
<1>4. /\ r \in Seq(Entries(s)) /\ Len(r) = Len(s) - 1 /\ DOMAIN r = 1 .. Len(s) - 1
      /\ \A j \in 1 .. i - 1 : r[j] = low[j]
      /\ \A j \in i .. Len(s) - 1 : r[j] = high[j - (i - 1)]
  <2>1. r \in Seq(Entries(s)) /\ Len(r) = Len(low) + Len(high)
      BY SMTT(30), <1>0, <1>2, <1>3
  <2>2. Len(low) + Len(high) = Len(s) - 1
      BY <1>1, <1>2, <1>3
  <2>3. \A j \in 1 .. Len(low) + Len(high) :
            r[j] = IF j <= Len(low) THEN low[j] ELSE high[j - Len(low)]
    <3>1. \A j \in 1 .. Len(low) + Len(high) :
              (low \o high)[j] = IF j <= Len(low) THEN low[j] ELSE high[j - Len(low)]
        BY <1>2, <1>3, ConcatProperties
    <3> QED
        BY <3>1, <1>0
  <2> QED
      BY <2>1, <2>2, <2>3, <1>1, <1>2
<1>5. ASSUME NEW j \in DOMAIN r
      PROVE  Old(i, j) \in DOMAIN s /\ r[j] = s[Old(i, j)] /\ Old(i, j) # i
  <2>1. CASE j < i
      BY <2>1, <1>1, <1>2, <1>4 DEF Old
  <2>2. CASE j >= i
    <3>1. r[j] = high[j - (i - 1)] /\ j - (i - 1) \in 1 .. Len(s) - i
        BY <2>2, <1>1, <1>4
    <3>2. high[j - (i - 1)] = s[i + (j - (i - 1))]
        BY <3>1, <1>3
    <3>3. i + (j - (i - 1)) = j + 1
        BY <1>1, <1>4
    <3> QED
        BY <2>2, <3>1, <3>2, <3>3, <1>1, <1>4 DEF Old
  <2> QED
      BY <2>1, <2>2, <1>1, <1>4
<1>6. r \in Seq(Entries(r))
    BY <1>4, OwnEntries
<1>7. Listed(r)
    BY <1>5, <1>6 DEF Listed
<1>8. DOMAIN r \subseteq Nat
    BY <1>1, <1>4
<1> QED
    BY <1>0, <1>5, <1>7, <1>8

-----------------------------------------------------------------------------
(* The values on tl_comp rise. *)

Timelines == DOMAIN tl = {"copy", "comp"} /\ DOMAIN tlVal = {"copy", "comp"}
Queued == Listed(gpu) /\ Listed(seq.batch) /\ Silent(seq.batch)
HandedOut(v) == v \in Nat /\ v <= tlVal.comp
Bounded ==
    /\ tlVal.comp \in Nat
    /\ HandedOut(tl.comp) /\ HandedOut(seq.signalComp)
    /\ \A i \in DOMAIN gpu : gpu[i].kind = "signal" => HandedOut(gpu[i].val)

SInv == SequenceFields /\ Timelines /\ Queued /\ Bounded /\ SignalsRise

LEMMA SignalsInit == StreamInit => SInv
<1> SUFFICES ASSUME StreamInit PROVE SInv
    OBVIOUS
<1>1. SequenceFields /\ seq.batch = <<>> /\ seq.signalComp = 0
    BY DEF StreamInit, SequenceInit, SequenceFields
<1>2. Timelines /\ gpu = <<>> /\ tl.comp = 0 /\ tlVal.comp = 0
    BY DEF StreamInit, DeviceInit, Timelines
<1>3. Queued
    BY <1>1, <1>2, None DEF Queued
<1>4. Bounded /\ SignalsRise
    BY <1>1, <1>2, None DEF Bounded, HandedOut, SignalsRise
<1> QED
    BY <1>1, <1>2, <1>3, <1>4 DEF SInv

\* A step that leaves the queue, the values and the signal to attach alone.
LEMMA NothingSignalled ==
    ASSUME SInv, SequenceFields', Timelines', UNCHANGED gpu,
           tl'.comp = tl.comp, tlVal'.comp = tlVal.comp, seq'.signalComp = seq.signalComp,
           Listed(seq'.batch), Silent(seq'.batch)
    PROVE  SInv'
<1>1. Queued'
    BY DEF SInv, Queued
<1>2. Bounded'
    BY DEF SInv, Bounded, HandedOut
<1>3. SignalsRise'
    BY DEF SInv, SignalsRise
<1> QED
    BY <1>1, <1>2, <1>3 DEF SInv

LEMMA SignalsSame == SInv /\ UNCHANGED <<gpu, tl, tlVal, seq>> => SInv'
    BY NothingSignalled DEF SInv, SequenceFields, Timelines, Queued

\* The next value goes to the open command buffer.
LEMMA NextHandedOut ==
    ASSUME SInv, SequenceFields', Timelines', UNCHANGED <<gpu, tl>>,
           tlVal'.comp = tlVal.comp + 1, seq'.signalComp = tlVal.comp + 1,
           seq'.batch = seq.batch
    PROVE  SInv'
<1>1. Queued'
    BY DEF SInv, Queued
<1>2. Bounded'
    BY DEF SInv, Bounded, HandedOut
<1>3. SignalsRise'
    BY DEF SInv, Bounded, HandedOut, SignalsRise
<1> QED
    BY <1>1, <1>2, <1>3 DEF SInv

LEMMA RecordSignalsNothing ==
    ASSUME SInv, NEW a, Record(a), UNCHANGED <<gpu, tl, tlVal>>
    PROVE  SInv'
<1>1. PICK e, acc : /\ "kind" \in DOMAIN e /\ e.kind = "command"
                    /\ seq' = Recorded(Opened(seq), e, acc)
  <2>1. PICK id, sees, acc :
            seq' = Recorded(Opened(seq), Command(id, sees, a.out, a.transfer), acc)
      BY DEF Record
  <2>2. LET e == Command(id, sees, a.out, a.transfer)
        IN  "kind" \in DOMAIN e /\ e.kind = "command"
      BY DEF Command
  <2> QED
      BY <2>1, <2>2
<1>2. /\ DOMAIN Opened(seq) = DOMAIN seq /\ Opened(seq).signalComp = seq.signalComp
      /\ Opened(seq).batch \in {<<>>, seq.batch}
    BY DEF SInv, SequenceFields, Opened
<1>3. PICK bar : /\ SequenceFields' /\ seq'.signalComp = seq.signalComp
                 /\ seq'.batch = Append(Opened(seq).batch, [e EXCEPT !.bar = bar])
    BY <1>1, <1>2 DEF SInv, SequenceFields, Recorded
<1>4. "kind" \in DOMAIN [e EXCEPT !.bar = bar] /\ [e EXCEPT !.bar = bar].kind = "command"
    BY <1>1
<1>5. Listed(Opened(seq).batch) /\ Silent(Opened(seq).batch)
    BY <1>2, None DEF SInv, Queued
<1>6. Listed(seq'.batch) /\ Silent(seq'.batch)
    BY <1>3, <1>4, <1>5, AppendedSilent
<1> QED
    BY <1>3, <1>6, NothingSignalled DEF SInv, Timelines

-----------------------------------------------------------------------------
(* Submitting *)

\* At most one signal is attached, with the value handed out to the command buffer.
LEMMA AttachedSignal ==
    ASSUME SInv
    PROVE  /\ Listed(Attach(seq))
           /\ \A i \in DOMAIN Attach(seq) : Attach(seq)[i].kind = "signal" =>
                seq.signalComp # 0 /\ Attach(seq)[i].val = seq.signalComp
           /\ \A i, j \in DOMAIN Attach(seq) :
                Attach(seq)[i].kind = "signal" /\ Attach(seq)[j].kind = "signal" => i = j
<1>1. PICK wait, sig :
        /\ wait = IF seq.waitCopy # 0 THEN <<AwaitCopy(seq.waitCopy)>> ELSE <<>>
        /\ sig = IF seq.signalComp # 0 THEN <<Signal(seq.signalComp)>> ELSE <<>>
        /\ Attach(seq) = (wait \o seq.batch) \o sig
    BY DEF Attach
<1>2. Listed(wait) /\ Silent(wait)
    BY <1>1, None, One DEF Silent, AwaitCopy
<1>3. /\ Listed(sig) /\ DOMAIN sig \subseteq {1}
      /\ \A i \in DOMAIN sig : seq.signalComp # 0 /\ sig[i].val = seq.signalComp
    BY <1>1, None, One DEF Signal
<1>4. PICK body : body = wait \o seq.batch
    OBVIOUS
<1>5. Listed(body) /\ Silent(body)
    BY <1>2, <1>4, Join DEF SInv, Queued, Silent
<1>6. /\ Listed(body \o sig) /\ Len(body) \in Nat /\ DOMAIN (body \o sig) \subseteq Nat
      /\ \A i \in DOMAIN (body \o sig) :
            \/ i \in DOMAIN body /\ (body \o sig)[i] = body[i]
            \/ i - Len(body) \in DOMAIN sig /\ (body \o sig)[i] = sig[i - Len(body)]
    BY <1>3, <1>5, Join
<1>7. ASSUME NEW i \in DOMAIN (body \o sig), (body \o sig)[i].kind = "signal"
      PROVE  i = Len(body) + 1 /\ seq.signalComp # 0 /\ (body \o sig)[i].val = seq.signalComp
  <2>1. i - Len(body) \in DOMAIN sig /\ (body \o sig)[i] = sig[i - Len(body)]
      BY <1>5, <1>6, <1>7 DEF Silent
  <2>2. i \in Nat /\ i - Len(body) = 1
      BY <2>1, <1>3, <1>6
  <2> QED
      BY <2>1, <2>2, <1>3, <1>6
<1>8. Attach(seq) = body \o sig
    BY <1>1, <1>4
<1>9. ASSUME NEW i \in DOMAIN (body \o sig), NEW j \in DOMAIN (body \o sig),
             (body \o sig)[i].kind = "signal", (body \o sig)[j].kind = "signal"
      PROVE  i = j
    BY <1>7, <1>9
<1> QED
    BY <1>6, <1>7, <1>8, <1>9

LEMMA SubmitSignals ==
    ASSUME SInv, NEW ok \in BOOLEAN, Submit(ok), UNCHANGED <<tl, tlVal>>,
           SequenceFields', seq'.batch = <<>>, seq'.signalComp = 0
    PROVE  SInv'
<1>1. Timelines'
    BY DEF SInv, Timelines
<1>2. HandedOut(tl.comp)' /\ HandedOut(seq.signalComp)' /\ tlVal'.comp \in Nat
    BY DEF SInv, Bounded, HandedOut
<1>3. CASE ok
  <2>1. PICK att : att = Attach(seq) /\ gpu' = gpu \o att
      BY <1>3 DEF Submit
  <2>2. /\ Listed(att)
        /\ \A i \in DOMAIN att : att[i].kind = "signal" =>
              seq.signalComp # 0 /\ att[i].val = seq.signalComp
        /\ \A i, j \in DOMAIN att :
              att[i].kind = "signal" /\ att[j].kind = "signal" => i = j
      BY <2>1, AttachedSignal
  <2>3. /\ Listed(gpu') /\ Len(gpu) \in Nat /\ DOMAIN gpu = 1 .. Len(gpu)
        /\ DOMAIN gpu' \subseteq Nat /\ DOMAIN att \subseteq Nat \ {0}
        /\ \A i \in DOMAIN gpu' :
              \/ i \in DOMAIN gpu /\ gpu'[i] = gpu[i]
              \/ i - Len(gpu) \in DOMAIN att /\ gpu'[i] = att[i - Len(gpu)]
    <3>1. /\ Listed(gpu \o att) /\ Len(gpu) \in Nat /\ Len(att) \in Nat
          /\ DOMAIN gpu = 1 .. Len(gpu)
          /\ DOMAIN att = 1 .. Len(att) /\ DOMAIN (gpu \o att) = 1 .. Len(gpu) + Len(att)
          /\ \A i \in DOMAIN (gpu \o att) :
                \/ i \in DOMAIN gpu /\ (gpu \o att)[i] = gpu[i]
                \/ i - Len(gpu) \in DOMAIN att /\ (gpu \o att)[i] = att[i - Len(gpu)]
        BY <2>2, Join DEF SInv, Queued
    <3> QED
        BY <2>1, <3>1
  <2>4. Queued'
      BY <2>3, None DEF Queued
  <2>5. ASSUME NEW i \in DOMAIN gpu', gpu'[i].kind = "signal"
        PROVE  HandedOut(gpu[i].val)' /\ tl'.comp < gpu'[i].val
    <3>1. CASE i \in DOMAIN gpu /\ gpu'[i] = gpu[i]
        BY <3>1, <2>5 DEF SInv, Bounded, HandedOut, SignalsRise
    <3>2. CASE i - Len(gpu) \in DOMAIN att /\ gpu'[i] = att[i - Len(gpu)]
        BY <3>2, <2>2, <2>5 DEF SInv, Bounded, HandedOut, SignalsRise
    <3> QED
        BY <3>1, <3>2, <2>3
  <2>6. ASSUME NEW i \in DOMAIN gpu', gpu'[i].kind = "signal",
               NEW j \in DOMAIN gpu', gpu'[j].kind = "signal", i < j
        PROVE  gpu'[i].val < gpu'[j].val
    <3>1. CASE j \in DOMAIN gpu /\ gpu'[j] = gpu[j]
      <4>1. i \in DOMAIN gpu /\ gpu'[i] = gpu[i]
          BY <3>1, <2>3, <2>6
      <4> QED
          BY <3>1, <4>1, <2>6 DEF SInv, SignalsRise
    <3>2. CASE j - Len(gpu) \in DOMAIN att /\ gpu'[j] = att[j - Len(gpu)]
      <4>1. CASE i \in DOMAIN gpu /\ gpu'[i] = gpu[i]
          BY <3>2, <4>1, <2>2, <2>6 DEF SInv, SignalsRise
      <4>2. CASE i - Len(gpu) \in DOMAIN att /\ gpu'[i] = att[i - Len(gpu)]
        <5>1. i - Len(gpu) = j - Len(gpu)
            BY <3>2, <4>2, <2>2, <2>6
        <5> QED
            BY <5>1, <2>3, <2>6
      <4> QED
          BY <4>1, <4>2, <2>3
    <3> QED
        BY <3>1, <3>2, <2>3
  <2>7. Bounded' /\ SignalsRise'
      BY <1>2, <2>5, <2>6 DEF Bounded, SignalsRise
  <2> QED
      BY <1>1, <2>4, <2>7 DEF SInv
<1>4. CASE ~ok
  <2>1. UNCHANGED gpu
      BY <1>4 DEF Submit
  <2>2. Queued'
      BY <2>1, None DEF SInv, Queued
  <2>3. Bounded' /\ SignalsRise'
      BY <2>1, <1>2 DEF SInv, Bounded, HandedOut, SignalsRise
  <2> QED
      BY <1>1, <2>2, <2>3 DEF SInv
<1> QED
    BY <1>3, <1>4

LEMMA RollSignals ==
    ASSUME SInv, NEW ok \in BOOLEAN, RollSubmit(ok), UNCHANGED tlVal
    PROVE  SInv'
<1>1. SequenceFields' /\ seq'.batch = <<>> /\ seq'.signalComp = 0
    BY DEF SInv, SequenceFields, RollSubmit, Rolled
<1> QED
    BY <1>1, SubmitSignals DEF RollSubmit

LEMMA FlushSignals ==
    ASSUME SInv, SeqFlush, UNCHANGED tlVal
    PROVE  SInv'
<1>1. CASE seq.open
  <2>1. PICK ok \in BOOLEAN : Submit(ok) /\ seq' = Closed(seq, ok)
      BY <1>1 DEF SeqFlush
  <2>2. SequenceFields' /\ seq'.batch = <<>> /\ seq'.signalComp = 0
      BY <2>1 DEF SInv, SequenceFields, Closed
  <2> QED
      BY <2>1, <2>2, SubmitSignals DEF SeqFlush
<1>2. CASE ~seq.open
    BY <1>2, SignalsSame DEF SeqFlush
<1> QED
    BY <1>1, <1>2

-----------------------------------------------------------------------------
(* The device *)

LEMMA StartSignalsNothing ==
    ASSUME SInv, NEW i \in DOMAIN gpu, Start(i), UNCHANGED <<seq, tlVal>>
    PROVE  SInv'
<1>1. /\ gpu \in Seq(Entries(gpu)) /\ Len(gpu) \in Nat /\ DOMAIN gpu = 1 .. Len(gpu)
      /\ "kind" \in DOMAIN gpu[i] /\ gpu[i].kind = "command"
    BY DEF SInv, Queued, Listed, Start, MayStart, IsCommand
<1>2. PICK e : /\ "kind" \in DOMAIN e /\ e.kind = "command"
               /\ gpu' = [gpu EXCEPT ![i] = e]
  <2>1. PICK right : gpu' = [gpu EXCEPT ![i].running = TRUE, ![i].right = right]
      BY DEF Start
  <2>2. PICK e : e = [gpu[i] EXCEPT !.running = TRUE, !.right = right]
      OBVIOUS
  <2>3. "kind" \in DOMAIN e /\ e.kind = "command"
      BY <1>1, <2>2
  <2>4. gpu' = [gpu EXCEPT ![i] = e]
      BY <1>1, <2>1, <2>2
  <2> QED
      BY <2>3, <2>4
<1>3. gpu' \in Seq(Entries(gpu) \cup {e}) /\ DOMAIN gpu' = DOMAIN gpu
    BY <1>1, <1>2
<1>4. \A j \in DOMAIN gpu : gpu'[j] = IF j = i THEN e ELSE gpu[j]
    BY <1>2
<1>5. Listed(gpu')
    BY <1>2, <1>3, <1>4, OwnEntries DEF SInv, Queued, Listed
<1>6. Queued' /\ Timelines' /\ SequenceFields'
    BY <1>5 DEF SInv, Queued, Timelines, SequenceFields, Start
<1>7. \A j \in DOMAIN gpu' : gpu'[j].kind = "signal" => gpu'[j] = gpu[j] /\ j \in DOMAIN gpu
    BY <1>2, <1>3, <1>4
<1>8. Bounded'
    BY <1>7 DEF SInv, Bounded, HandedOut, Start
<1>9. SignalsRise'
    BY <1>7 DEF SInv, SignalsRise, Start
<1> QED
    BY <1>6, <1>8, <1>9 DEF SInv

\* An entry goes; if it is a signal, it is the first.
LEMMA EntryGone ==
    ASSUME SInv, NEW i \in DOMAIN gpu, gpu' = RemoveAt(gpu, i), UNCHANGED <<seq, tlVal>>,
           Timelines',
           \/ tl'.comp = tl.comp
           \/ /\ gpu[i].kind = "signal" /\ tl'.comp = gpu[i].val
              /\ \A k \in 1 .. i - 1 : gpu[k].kind = "event"
    PROVE  SInv'
<1>1. DOMAIN gpu = 1 .. Len(gpu) /\ Len(gpu) \in Nat
    BY DEF SInv, Queued, Listed
<1>2. /\ Listed(gpu') /\ DOMAIN gpu' \subseteq Nat
      /\ \A j \in DOMAIN gpu' :
            Old(i, j) \in DOMAIN gpu /\ gpu'[j] = gpu[Old(i, j)] /\ Old(i, j) # i
    BY Removed DEF SInv, Queued
<1>3. Queued' /\ SequenceFields'
    BY <1>2 DEF SInv, Queued, SequenceFields
<1>4. HandedOut(tl.comp)'
    BY DEF SInv, Bounded, HandedOut
<1>5. Bounded'
    BY <1>2, <1>4 DEF SInv, Bounded, HandedOut
<1>6. ASSUME NEW j \in DOMAIN gpu', gpu'[j].kind = "signal"
      PROVE  tl'.comp < gpu'[j].val
  <2>1. CASE tl'.comp = tl.comp
      BY <2>1, <1>2, <1>6 DEF SInv, SignalsRise
  <2>2. CASE gpu[i].kind = "signal" /\ tl'.comp = gpu[i].val
             /\ \A k \in 1 .. i - 1 : gpu[k].kind = "event"
    <3>1. i < Old(i, j)
        BY <2>2, <1>1, <1>2, <1>6
    <3> QED
        BY <2>2, <3>1, <1>2, <1>6 DEF SInv, SignalsRise
  <2> QED
      BY <2>1, <2>2
<1>7. ASSUME NEW j \in DOMAIN gpu', gpu'[j].kind = "signal",
             NEW k \in DOMAIN gpu', gpu'[k].kind = "signal", j < k
      PROVE  gpu'[j].val < gpu'[k].val
  <2>1. Old(i, j) < Old(i, k)
      BY <1>1, <1>2, <1>7 DEF Old
  <2> QED
      BY <2>1, <1>2, <1>7 DEF SInv, SignalsRise
<1>8. seq'.signalComp # 0 => /\ tl'.comp < seq'.signalComp
                             /\ \A j \in DOMAIN gpu' : gpu'[j].kind = "signal" =>
                                    gpu'[j].val < seq'.signalComp
    BY <1>2 DEF SInv, SignalsRise
<1>9. SignalsRise'
    BY <1>6, <1>7, <1>8 DEF SignalsRise
<1> QED
    BY <1>3, <1>5, <1>9 DEF SInv

LEMMA ComputeSignals == SInv /\ ComputeRuns => SInv'
<1> SUFFICES ASSUME SInv, ComputeRuns PROVE SInv'
    OBVIOUS
<1>1. DOMAIN gpu = 1 .. Len(gpu)
    BY DEF SInv, Queued, Listed
<1>2. /\ UNCHANGED <<seq, tlVal>>
      /\ \E i \in DOMAIN gpu :
            Start(i) \/ Finish(i) \/ EventSet(i) \/ SignalComp(i) \/ PassWait(i)
    BY <1>1 DEF ComputeRuns, ComputeStep, hostVars, streamVars
<1>3. PICK i \in DOMAIN gpu :
        Start(i) \/ Finish(i) \/ EventSet(i) \/ SignalComp(i) \/ PassWait(i)
    BY <1>2
<1>4. CASE Start(i)
    BY <1>2, <1>4, StartSignalsNothing
<1>5. CASE Finish(i) \/ EventSet(i) \/ PassWait(i)
  <2>1. gpu' = RemoveAt(gpu, i) /\ UNCHANGED tl
      BY <1>5 DEF Finish, EventSet, PassWait
  <2> QED
      BY <2>1, <1>2, EntryGone DEF SInv, Timelines
<1>6. CASE SignalComp(i)
  <2>1. Timelines' /\ tl'.comp = gpu[i].val
      BY <1>2, <1>6 DEF SignalComp, SInv, Timelines
  <2> QED
      BY <2>1, <1>2, <1>6, EntryGone DEF SignalComp
<1> QED
    BY <1>3, <1>4, <1>5, <1>6

LEMMA CopiesSignalNothing == SInv /\ CopiesRun => SInv'
<1> SUFFICES ASSUME SInv, CopiesRun PROVE SInv'
    OBVIOUS
<1>1. UNCHANGED <<gpu, seq, tlVal>>
    BY DEF CopiesRun, TransferStep, CopyStart, CopyFinish, SignalCopy, hostVars, streamVars
<1>2. Timelines' /\ tl'.comp = tl.comp
    BY <1>1 DEF CopiesRun, TransferStep, CopyStart, CopyFinish, SignalCopy, SInv, Timelines
<1> QED
    BY <1>1, <1>2, NothingSignalled DEF SInv, SequenceFields, Queued

-----------------------------------------------------------------------------
(* The host *)

LEMMA HostSignals ==
    ASSUME SInv, SequenceStep
    PROVE  SInv'
<1>0. HostStep /\ UNCHANGED tlVal
    BY DEF SequenceStep
<1>1. CASE DispatchAcc
    BY <1>0, <1>1, RecordSignalsNothing, SignalsSame DEF DispatchAcc, deviceVars
<1>2. CASE BufferCopy
    BY <1>0, <1>2, RecordSignalsNothing DEF BufferCopy, deviceVars
<1>3. CASE Roll
    BY <1>0, <1>3, RollSignals, SignalsSame DEF Roll, deviceVars
<1>4. CASE SeqFlush
    BY <1>0, <1>4, FlushSignals
<1>5. CASE SeqCut
    BY <1>0, <1>5, RollSignals, SignalsSame DEF SeqCut, deviceVars
<1>6. CASE SetMark
  <2>1. UNCHANGED <<gpu, tl>> /\ seq' = [seq EXCEPT !.batch = Append(@, SetEvent)]
      BY <1>6 DEF SetMark, deviceVars
  <2>2. /\ SequenceFields' /\ seq'.signalComp = seq.signalComp
        /\ seq'.batch = Append(seq.batch, SetEvent)
      BY <2>1 DEF SInv, SequenceFields
  <2>3. Listed(seq'.batch) /\ Silent(seq'.batch)
      BY <2>2, AppendedSilent DEF SInv, Queued, SetEvent
  <2> QED
      BY <1>0, <2>1, <2>2, <2>3, NothingSignalled DEF SInv, Timelines
<1>7. CASE ReadBack
  <2>1. UNCHANGED <<gpu, tl>> /\ seq' \in {seq, [seq EXCEPT !.failed = FALSE]}
      BY <1>7 DEF ReadBack, deviceVars
  <2>2. SequenceFields' /\ seq'.signalComp = seq.signalComp /\ seq'.batch = seq.batch
      BY <2>1 DEF SInv, SequenceFields
  <2> QED
      BY <1>0, <2>1, <2>2, NothingSignalled DEF SInv, Timelines, Queued
<1>8. CASE AwaitFence \/ ResetRings \/ SeqMark \/ WaitMarkBegin \/ FlushMark \/ Spin
           \/ StageX \/ GemmResident \/ ReserveU \/ Write
    BY <1>0, <1>8, SignalsSame
       DEF AwaitFence, ResetRings, SeqMark, WaitMarkBegin, FlushMark, Spin, StageX, GemmResident,
           ReserveU, Write, deviceVars
<1> QED
    BY <1>0, <1>1, <1>2, <1>3, <1>4, <1>5, <1>6, <1>7, <1>8 DEF HostStep

\* A GEMM that read a streamed slot takes the next value, whatever it replaces.
LEMMA WeightDoneSignals == SInv /\ WeightDone => SInv'
<1> SUFFICES ASSUME SInv, WeightDone PROVE SInv'
    OBVIOUS
<1>1. UNCHANGED <<gpu, tl>>
    BY DEF WeightDone, DeviceStays, deviceVars
<1>2. CASE stream.reader < 0
    BY <1>1, <1>2, SignalsSame DEF WeightDone, streamVars
<1>3. CASE ~(stream.reader < 0)
  <2>1. /\ tlVal' = [tlVal EXCEPT !.comp = NextComp]
        /\ seq' = [seq EXCEPT !.signalComp = NextComp]
      BY <1>3 DEF WeightDone
  <2>2. /\ SequenceFields' /\ Timelines' /\ seq'.batch = seq.batch
        /\ tlVal'.comp = tlVal.comp + 1 /\ seq'.signalComp = tlVal.comp + 1
      BY <1>1, <2>1 DEF SInv, SequenceFields, Timelines, NextComp
  <2> QED
      BY <1>1, <2>2, NextHandedOut
<1> QED
    BY <1>2, <1>3

\* A GEMM on a staged weight adds to the value its command buffer has, or takes the next.
LEMMA StageReadSignals == SInv /\ StageRead => SInv'
<1> SUFFICES ASSUME SInv, StageRead PROVE SInv'
    OBVIOUS
<1>1. UNCHANGED <<gpu, tl>>
    BY DEF StageRead, DeviceStays, deviceVars
<1>2. PICK v, w :
        /\ v = IF seq.signalComp = 0 THEN NextComp ELSE seq.signalComp
        /\ tlVal' = [tlVal EXCEPT !.comp = IF seq.signalComp = 0 THEN v ELSE tlVal.comp]
        /\ seq' = [seq EXCEPT !.signalComp = v, !.waitCopy = w]
    BY DEF StageRead
<1>3. /\ SequenceFields' /\ Timelines' /\ seq'.batch = seq.batch /\ seq'.signalComp = v
      /\ tlVal'.comp = IF seq.signalComp = 0 THEN v ELSE tlVal.comp
    BY <1>1, <1>2 DEF SInv, SequenceFields, Timelines
<1>4. CASE seq.signalComp = 0
    BY <1>1, <1>2, <1>3, <1>4, NextHandedOut DEF NextComp
<1>5. CASE seq.signalComp # 0
    BY <1>1, <1>2, <1>3, <1>5, NothingSignalled DEF SInv, Queued
<1> QED
    BY <1>4, <1>5

LEMMA CopiesHandNothingOut == SInv /\ (XqCopyStep \/ StageCopy) => SInv'
<1> SUFFICES ASSUME SInv, XqCopyStep \/ StageCopy PROVE SInv'
    OBVIOUS
<1>1. /\ UNCHANGED <<gpu, tl, seq>>
      /\ \/ UNCHANGED tlVal
         \/ tlVal' = [tlVal EXCEPT !.copy = tlVal.copy + 1]
    BY DEF XqCopyStep, StageCopy
<1>2. Timelines' /\ tlVal'.comp = tlVal.comp
    BY <1>1 DEF SInv, Timelines
<1> QED
    BY <1>1, <1>2, NothingSignalled DEF SInv, SequenceFields, Queued

LEMMA BoundSignalsNothing == SInv /\ BoundStep => SInv'
<1> SUFFICES ASSUME SInv, BoundStep PROVE SInv'
    OBVIOUS
<1>1. UNCHANGED <<gpu, tl, tlVal>> /\ \E v : seq' = [seq EXCEPT !.waitCopy = v]
    BY DEF BoundStep, DeviceStays, deviceVars
<1>2. SequenceFields' /\ seq'.signalComp = seq.signalComp /\ seq'.batch = seq.batch
    BY <1>1 DEF SInv, SequenceFields
<1> QED
    BY <1>1, <1>2, NothingSignalled DEF SInv, Timelines, Queued

LEMMA StreamSignals == SInv /\ StreamStep => SInv'
<1>1. ASSUME SInv, \/ GemmStreamed \/ GemmOverBus \/ XqIdle \/ NewSlot \/ XqOffStep
                   \/ StageBegin \/ Staged \/ GemmStaged
      PROVE  SInv'
    BY <1>1, SignalsSame
       DEF GemmStreamed, GemmOverBus, XqIdle, NewSlot, XqOffStep, StageBegin, Staged, GemmStaged,
           DeviceStays, deviceVars, streamVars
<1> QED
    BY <1>1, WeightDoneSignals, StageReadSignals, CopiesHandNothingOut, BoundSignalsNothing
       DEF StreamStep

LEMMA StreamCallsSignalNothing == SInv /\ StreamCalls /\ UNCHANGED streamVars => SInv'
<1> SUFFICES ASSUME SInv, StreamCalls, UNCHANGED streamVars PROVE SInv'
    OBVIOUS
<1>1. \E es : Begin(es)
    BY DEF StreamCalls, SpilledLinear, StageWeights, Kernel, Download
<1> QED
    BY <1>1, SignalsSame DEF Begin, deviceVars, streamVars

\* The timeline semaphores' rule (a signal is of a value higher than all before it), for
\* streamed and staged GEMMs in any order, cuts, rolls, flushes and dropped submissions.
THEOREM SignalsAlwaysRise == StreamSpec => []SignalsRise
<1>1. SInv /\ [StreamNext]_allVars => SInv'
  <2> SUFFICES ASSUME SInv, [StreamNext]_allVars PROVE SInv'
      OBVIOUS
  <2>1. CASE UNCHANGED allVars
      BY <2>1, SignalsSame DEF allVars, vars, deviceVars, hostVars, streamVars
  <2>2. CASE StreamNext
      BY <2>2, StreamCallsSignalNothing, StreamSignals, HostSignals, ComputeSignals,
         CopiesSignalNothing
         DEF StreamNext, HostRuns
  <2> QED
      BY <2>1, <2>2
<1>2. SInv => SignalsRise
    BY DEF SInv
<1> QED
    BY SignalsInit, <1>1, <1>2, PTL DEF StreamSpec

-----------------------------------------------------------------------------
(* Program order: the commands that are pending, submitted or not, and what  *)
(* each will find in memory when its turn comes.                             *)

CommandsOf(s) == {s[i] : i \in {j \in DOMAIN s : IsCommand(s[j])}}
Pending == CommandsOf(gpu) \cup CommandsOf(seq.batch)

CommandFields ==
    \A a \in Pending :
        DOMAIN a = {"kind", "id", "sees", "writes", "transfer", "bar", "running", "right"}
Rising(s) ==
    \A i, j \in DOMAIN s : IsCommand(s[i]) /\ IsCommand(s[j]) /\ i < j => s[i].id < s[j].id
InLine == /\ Rising(gpu) /\ Rising(seq.batch)
          /\ \A a \in CommandsOf(gpu), b \in CommandsOf(seq.batch) : a.id < b.id
Numbered == \A a \in Pending : a.id \in 1 .. count.ids

\* A barrier lies between numbers m and n.
Barrier(m, n) == \E e \in Pending : e.bar /\ m < e.id /\ e.id <= n
Conflicting(a, b) ==
    \/ a.writes \cap (Inputs(b) \cup b.writes) # {}
    \/ Inputs(a) \cap b.writes # {}
Separated == \A a, b \in Pending : a.id < b.id /\ Conflicting(a, b) => Barrier(a.id, b.id)
Free(b) == \A a \in Pending : a.id < b.id => ~Barrier(a.id, b.id)
Alone == \A b \in Pending : b.running => b.right /\ Free(b)

\* Before number n cell c holds v, or will once what is pending has run.
LastWriter(w, c, n) ==
    /\ w \in Pending /\ c \in w.writes /\ w.id < n
    /\ \A v \in Pending : c \in v.writes /\ v.id < n => v.id <= w.id
NoWriter(c, n) == \A v \in Pending : c \in v.writes => ~(v.id < n)
Due(c, n, v) == \E w \in Pending : LastWriter(w, c, n) /\ w.id = v
Found(c, n, v) == Due(c, n, v) \/ (NoWriter(c, n) /\ mem[c] = v)
SeesOrder == \A a \in Pending : \A c \in Inputs(a) :
                c \in Cells /\ (Found(c, a.id, a.sees[c]) \/ (a.running /\ c \in a.writes))
ProgramIsNext == \A c \in Cells : Found(c, count.ids + 1, prog[c])

Memory == /\ mem \in [Cells -> Nat \cup {Torn}] /\ prog \in [Cells -> Nat]
          /\ count.ids \in Nat
          /\ CommandFields /\ InLine /\ Numbered /\ Separated /\ Alone /\ SeesOrder /\ ProgramIsNext

-----------------------------------------------------------------------------
(* The sequence, its hazard table, the upload ring and the mark *)

AtFence == todo # <<>> /\ Head(todo).f = "fence"

SequenceShape ==
    /\ SequenceFields /\ Listed(gpu) /\ Listed(seq.batch)
    /\ seq.n \in Nat /\ seq.open \in BOOLEAN
    /\ seq.open <=> seq.n # 0
    /\ ~seq.open => seq.batch = <<>>
    /\ seq.waitCopy = 0 /\ seq.signalComp = 0 /\ ~seq.failed
    /\ seq.dirty \in Seq(Entries(seq.dirty))
    /\ seq.n = 0 => Pending = {} \/ AtFence

InTable(c, write) == \E d \in DOMAIN seq.dirty :
                        seq.dirty[d].cell = c /\ (write => seq.dirty[d].write)
\* What the table no longer has is behind a barrier.
TableKnows ==
    seq.n # 0 => \A a \in Pending :
        \/ Barrier(a.id, count.ids)
        \/ /\ \A c \in Inputs(a) : InTable(c, FALSE)
           /\ \A c \in a.writes : InTable(c, TRUE)

Uploads == {U(i) : i \in 0 .. UCap - 1}
RingsInUse ==
    /\ DOMAIN ring = {"x", "u"} /\ ring.x \in 0 .. XCap /\ ring.u \in 0 .. UCap
    /\ \A a \in Pending, i \in 0 .. UCap - 1 :
        U(i) \notin a.writes /\ (U(i) \in Inputs(a) => i < ring.u)

IsEvent(e) == e.kind = "event"
HasEvent(s) == \E i \in DOMAIN s : IsEvent(s[i])
Behind(s) == {s[j] : j \in {k \in DOMAIN s : IsCommand(s[k]) /\ \E i \in DOMAIN s :
                                                i < k /\ IsEvent(s[i])}}
BehindMark == Behind(gpu) \cup Behind(seq.batch)
                \cup (IF HasEvent(gpu) THEN CommandsOf(seq.batch) ELSE {})
OneEvent(s) == \A i, j \in DOMAIN s : IsEvent(s[i]) /\ IsEvent(s[j]) => i = j
\* What is held clean of writes when the mark is reached.
MarkHeld ==
    /\ OneEvent(gpu) /\ OneEvent(seq.batch)
    /\ ~(HasEvent(gpu) /\ HasEvent(seq.batch))
    /\ event \/ ~mark.pending => ~HasEvent(gpu) /\ ~HasEvent(seq.batch)
    /\ ~mark.pending => ~event
    /\ DOMAIN mark = {"n", "pending", "inOpen"} /\ DOMAIN held = {"mark", "clean"}
    /\ held.clean \subseteq Tensors
    /\ mark.pending => held.mark = mark.n
    /\ \A a \in BehindMark : a.writes \cap held.clean = {}
    /\ event \/ ~mark.pending => \A a \in Pending : a.writes \cap held.clean = {}

-----------------------------------------------------------------------------
(* What is left of the call *)

Waiting == {"flush", "fence", "roll", "cut", "wait_mark", "flush mark", "spin", "rings"}
FiniteCells(C) == C \subseteq Cells /\ IsFiniteSet(C)
EntryFits(e) ==
    /\ "f" \in DOMAIN e
    /\ e.f \in {"dispatch", "copy"} =>
          /\ e.put = NoWeight /\ e.weight = <<>>
          /\ FiniteCells(e.in) /\ FiniteCells(e.out) /\ e.out \cap Uploads = {}
          /\ e.f = "copy" => e.in \cap Uploads = {}
    /\ e.f = "gemm" => {e.x, e.y} \subseteq Cells \ Uploads
    /\ e.f \in {"stage x", "reserve u"} => {e.x, e.y} \subseteq Tensors
    /\ e.f \in {"read", "write"} => e.cell \in Cells

Ready(e) == /\ e.f = "read" => \A a \in Pending : e.cell \notin a.writes
            /\ e.f = "write" => \A a \in Pending : e.cell \notin a.writes \cup Inputs(a)
            /\ e.f = "rings" => Pending = {}
\* A flush, and only waits after it, before entry k.
Settles(k) == \E j \in 1 .. k - 1 : /\ todo[j].f = "flush"
                                    /\ \A m \in j + 1 .. k - 1 : todo[m].f \in Waiting
Calm(k) == \A m \in 1 .. k - 1 : todo[m].f \in Waiting
\* Before entry k the host waits for the mark that tells that cell c is written.
Marked(k, c) ==
    /\ c \in held.clean
    /\ \E j \in 1 .. k - 1 : \/ todo[j].f = "spin"
                             \/ todo[j].f = "wait_mark" /\ todo[j].mark = held.mark
Guarded(k) ==
    todo[k].f \in {"read", "write", "rings"} =>
        \/ Settles(k)
        \/ Calm(k) /\ \/ k > 1 /\ AtFence
                      \/ Ready(todo[k])
                      \/ todo[k].f = "read" /\ Marked(k, todo[k].cell)
UsesUpload(e) == e.f = "dispatch" /\ e.in \cap Uploads # {}
\* A place of the upload ring is used where it is written, before the ring starts over.
Gathers(k) ==
    /\ todo[k].f = "reserve u" => k = Len(todo)
    /\ UsesUpload(todo[k]) =>
        /\ \A i \in 0 .. UCap - 1 : U(i) \in todo[k].in => i < ring.u
        /\ k = Len(todo)
        /\ \/ k = 1 /\ seq.n < MaxDispatch
           \/ k = 2 /\ todo[1].f = "write" /\ seq.n + 1 < MaxDispatch
Marks(k) ==
    /\ todo[k].f = "mark" => k = 1 /\ Len(todo) = 1 /\ ~mark.pending
    /\ todo[k].f = "set mark" =>
        /\ k = Len(todo) /\ ~mark.pending /\ seq.open
        /\ k # 1 => k = 2 /\ todo[1].f = "wait_mark"
    /\ todo[k].f = "fence" => k = 1 /\ ~seq.open

CallShape ==
    /\ todo \in Seq(Entries(todo))
    /\ \A k \in DOMAIN todo : EntryFits(todo[k]) /\ Guarded(k) /\ Gathers(k) /\ Marks(k)

Data == Memory /\ SequenceShape /\ TableKnows /\ RingsInUse /\ MarkHeld
Main == Data /\ CallShape
MInv == /\ CountFields /\ count.lost \in Nat
        /\ count.lost = 0 => Main /\ HostReadsResults

-----------------------------------------------------------------------------
(* What joining two sequences, and taking an entry out, does to them *)

LEMMA JoinPlaces ==
    ASSUME NEW s, NEW t, Listed(s), Listed(t)
    PROVE  /\ \A i \in DOMAIN s : i \in DOMAIN (s \o t) /\ (s \o t)[i] = s[i]
           /\ \A j \in DOMAIN t :
                Len(s) + j \in DOMAIN (s \o t) /\ (s \o t)[Len(s) + j] = t[j]
<1> DEFINE E == Entries(s) \cup Entries(t)
<1>1. s \in Seq(E) /\ t \in Seq(E)
    BY DEF Listed
<1>2. /\ Len(s) \in Nat /\ Len(t) \in Nat /\ DOMAIN s = 1 .. Len(s) /\ DOMAIN t = 1 .. Len(t)
      /\ DOMAIN (s \o t) = 1 .. Len(s) + Len(t)
    BY Join
<1>3. \A i \in 1 .. Len(s) + Len(t) :
        (s \o t)[i] = IF i <= Len(s) THEN s[i] ELSE t[i - Len(s)]
    BY <1>1, ConcatProperties
<1>4. ASSUME NEW j \in DOMAIN t
      PROVE  Len(s) + j \in DOMAIN (s \o t) /\ (s \o t)[Len(s) + j] = t[j]
  <2>1. Len(s) + j \in 1 .. Len(s) + Len(t) /\ ~(Len(s) + j <= Len(s))
      BY <1>2
  <2>2. Len(s) + j - Len(s) = j
      BY <1>2
  <2> QED
      BY <1>2, <1>3, <2>1, <2>2
<1> QED
    BY <1>2, <1>3, <1>4

LEMMA JoinCommands ==
    ASSUME NEW s, NEW t, Listed(s), Listed(t)
    PROVE  /\ CommandsOf(s \o t) = CommandsOf(s) \cup CommandsOf(t)
           /\ HasEvent(s \o t) = (HasEvent(s) \/ HasEvent(t))
<1>1. \A i \in DOMAIN (s \o t) :
        \/ i \in DOMAIN s /\ (s \o t)[i] = s[i]
        \/ i - Len(s) \in DOMAIN t /\ (s \o t)[i] = t[i - Len(s)]
    BY Join
<1>2. CommandsOf(s \o t) \subseteq CommandsOf(s) \cup CommandsOf(t)
    BY <1>1 DEF CommandsOf
<1>3. /\ \A i \in DOMAIN s : i \in DOMAIN (s \o t) /\ (s \o t)[i] = s[i]
      /\ \A j \in DOMAIN t :
            Len(s) + j \in DOMAIN (s \o t) /\ (s \o t)[Len(s) + j] = t[j]
    BY JoinPlaces
<1>4. HasEvent(s \o t) => HasEvent(s) \/ HasEvent(t)
    BY <1>1 DEF HasEvent
<1>5. HasEvent(s) \/ HasEvent(t) => HasEvent(s \o t)
  <2>1. ASSUME NEW i \in DOMAIN s, IsEvent(s[i]) PROVE HasEvent(s \o t)
      BY <1>3, <2>1 DEF HasEvent
  <2>2. ASSUME NEW j \in DOMAIN t, IsEvent(t[j]) PROVE HasEvent(s \o t)
    <3>1. Len(s) + j \in DOMAIN (s \o t) /\ IsEvent((s \o t)[Len(s) + j])
        BY <1>3, <2>2
    <3> QED
        BY <3>1 DEF HasEvent
  <2> QED
      BY <2>1, <2>2 DEF HasEvent
<1>6. CommandsOf(s) \subseteq CommandsOf(s \o t)
    BY <1>3 DEF CommandsOf
<1>7. CommandsOf(t) \subseteq CommandsOf(s \o t)
  <2> SUFFICES ASSUME NEW j \in DOMAIN t, IsCommand(t[j]) PROVE t[j] \in CommandsOf(s \o t)
      BY DEF CommandsOf
  <2>1. Len(s) + j \in DOMAIN (s \o t) /\ (s \o t)[Len(s) + j] = t[j]
      BY <1>3
  <2> QED
      BY <2>1 DEF CommandsOf
<1> QED
    BY <1>2, <1>4, <1>5, <1>6, <1>7 DEF HasEvent

LEMMA JoinRising ==
    ASSUME NEW s, NEW t, Listed(s), Listed(t), Rising(s), Rising(t),
           \A a \in CommandsOf(s), b \in CommandsOf(t) : a.id < b.id
    PROVE  Rising(s \o t)
<1> SUFFICES ASSUME NEW i \in DOMAIN (s \o t), NEW j \in DOMAIN (s \o t), i < j,
                    IsCommand((s \o t)[i]), IsCommand((s \o t)[j])
             PROVE  (s \o t)[i].id < (s \o t)[j].id
    BY DEF Rising
<1>1. /\ \A k \in DOMAIN (s \o t) :
            \/ k \in DOMAIN s /\ (s \o t)[k] = s[k]
            \/ k - Len(s) \in DOMAIN t /\ (s \o t)[k] = t[k - Len(s)]
      /\ DOMAIN (s \o t) = 1 .. Len(s) + Len(t) /\ DOMAIN s = 1 .. Len(s)
      /\ DOMAIN t = 1 .. Len(t) /\ Len(s) \in Nat /\ Len(t) \in Nat
    BY Join
<1>2. CASE j \in DOMAIN s /\ (s \o t)[j] = s[j]
  <2>1. i \in DOMAIN s /\ (s \o t)[i] = s[i]
      BY <1>1, <1>2
  <2> QED
      BY <1>2, <2>1 DEF Rising
<1>3. CASE j - Len(s) \in DOMAIN t /\ (s \o t)[j] = t[j - Len(s)]
  <2>1. CASE i \in DOMAIN s /\ (s \o t)[i] = s[i]
    <3>1. s[i] \in CommandsOf(s) /\ t[j - Len(s)] \in CommandsOf(t)
        BY <1>3, <2>1 DEF CommandsOf
    <3> QED
        BY <1>3, <2>1, <3>1
  <2>2. CASE i - Len(s) \in DOMAIN t /\ (s \o t)[i] = t[i - Len(s)]
    <3>1. i - Len(s) < j - Len(s)
        BY <1>1
    <3> QED
        BY <1>3, <2>2, <3>1 DEF Rising
  <2> QED
      BY <1>1, <2>1, <2>2
<1> QED
    BY <1>1, <1>2, <1>3

LEMMA JoinBehind ==
    ASSUME NEW s, NEW t, Listed(s), Listed(t)
    PROVE  Behind(s \o t) \subseteq
             Behind(s) \cup Behind(t) \cup (IF HasEvent(s) THEN CommandsOf(t) ELSE {})
<1> SUFFICES ASSUME NEW j \in DOMAIN (s \o t), IsCommand((s \o t)[j]),
                    NEW i \in DOMAIN (s \o t), i < j, IsEvent((s \o t)[i])
             PROVE  (s \o t)[j] \in
                      Behind(s) \cup Behind(t) \cup (IF HasEvent(s) THEN CommandsOf(t) ELSE {})
    BY DEF Behind
<1>1. /\ \A k \in DOMAIN (s \o t) :
            \/ k \in DOMAIN s /\ (s \o t)[k] = s[k]
            \/ k - Len(s) \in DOMAIN t /\ (s \o t)[k] = t[k - Len(s)]
      /\ DOMAIN (s \o t) = 1 .. Len(s) + Len(t) /\ DOMAIN s = 1 .. Len(s)
      /\ DOMAIN t = 1 .. Len(t) /\ Len(s) \in Nat /\ Len(t) \in Nat
    BY Join
<1>2. CASE j \in DOMAIN s /\ (s \o t)[j] = s[j]
  <2>1. i \in DOMAIN s /\ (s \o t)[i] = s[i]
      BY <1>1, <1>2
  <2> QED
      BY <1>2, <2>1 DEF Behind
<1>3. CASE j - Len(s) \in DOMAIN t /\ (s \o t)[j] = t[j - Len(s)]
  <2>1. CASE i \in DOMAIN s /\ (s \o t)[i] = s[i]
      BY <1>3, <2>1 DEF HasEvent, CommandsOf
  <2>2. CASE i - Len(s) \in DOMAIN t /\ (s \o t)[i] = t[i - Len(s)]
    <3>1. i - Len(s) < j - Len(s)
        BY <1>1
    <3> QED
        BY <1>3, <2>2, <3>1 DEF Behind
  <2> QED
      BY <1>1, <2>1, <2>2
<1> QED
    BY <1>1, <1>2, <1>3

LEMMA JoinOneEvent ==
    ASSUME NEW s, NEW t, Listed(s), Listed(t), OneEvent(s), OneEvent(t),
           ~(HasEvent(s) /\ HasEvent(t))
    PROVE  OneEvent(s \o t)
<1> SUFFICES ASSUME NEW i \in DOMAIN (s \o t), NEW j \in DOMAIN (s \o t),
                    IsEvent((s \o t)[i]), IsEvent((s \o t)[j])
             PROVE  i = j
    BY DEF OneEvent
<1>1. /\ \A k \in DOMAIN (s \o t) :
            \/ k \in DOMAIN s /\ (s \o t)[k] = s[k]
            \/ k - Len(s) \in DOMAIN t /\ (s \o t)[k] = t[k - Len(s)]
      /\ DOMAIN (s \o t) = 1 .. Len(s) + Len(t) /\ DOMAIN s = 1 .. Len(s)
      /\ Len(s) \in Nat /\ Len(t) \in Nat
    BY Join
<1>2. CASE i \in DOMAIN s /\ (s \o t)[i] = s[i]
    BY <1>1, <1>2 DEF OneEvent, HasEvent
<1>3. CASE i - Len(s) \in DOMAIN t /\ (s \o t)[i] = t[i - Len(s)]
  <2>1. j - Len(s) \in DOMAIN t /\ (s \o t)[j] = t[j - Len(s)]
      BY <1>1, <1>3 DEF HasEvent
  <2>2. i - Len(s) = j - Len(s)
      BY <1>3, <2>1 DEF OneEvent
  <2> QED
      BY <1>1, <2>2
<1> QED
    BY <1>1, <1>2, <1>3

\* Two sequences joined are as long as both.
LEMMA JoinSize ==
    ASSUME NEW T, NEW p \in Seq(T), NEW q \in Seq(T)
    PROVE  Len(p \o q) = Len(p) + Len(q) /\ DOMAIN (p \o q) = 1 .. Len(p) + Len(q)
<1>1. p \o q \in Seq(T) /\ Len(p \o q) = Len(p) + Len(q)
    BY ConcatProperties
<1> QED
    BY <1>1

\* All other entries are still there.
LEMMA RemovedPlaces ==
    ASSUME NEW s, Listed(s), NEW i \in DOMAIN s, NEW j \in DOMAIN s, j # i
    PROVE  \E k \in DOMAIN RemoveAt(s, i) : RemoveAt(s, i)[k] = s[j] /\ Old(i, k) = j
<1>1. PICK r, low, high : /\ r = RemoveAt(s, i) /\ r = low \o high
                          /\ low = SubSeq(s, 1, i - 1) /\ high = SubSeq(s, i + 1, Len(s))
    BY DEF RemoveAt
<1>2. s \in Seq(Entries(s)) /\ Len(s) \in Nat /\ DOMAIN s = 1 .. Len(s) /\ i \in 1 .. Len(s)
    BY DEF Listed
<1>3. low \in Seq(Entries(s)) /\ Len(low) = i - 1
    BY <1>1, <1>2
<1>4. high \in Seq(Entries(s)) /\ Len(high) = Len(s) - i
    BY <1>1, <1>2
<1>5. DOMAIN r = 1 .. Len(s) - 1
  <2>1. PICK T : T = Entries(s)
      OBVIOUS
  <2>2. low \in Seq(T) /\ high \in Seq(T)
      BY <1>3, <1>4, <2>1
  <2>3. Len(r) = Len(low) + Len(high) /\ DOMAIN r = 1 .. Len(low) + Len(high)
      BY <1>1, <2>2, JoinSize
  <2> QED
      BY <2>3, <1>2, <1>3, <1>4
<1>6. PICK k : k = IF j < i THEN j ELSE j - 1
    OBVIOUS
<1>7. k \in DOMAIN r /\ Old(i, k) = j
    BY <1>2, <1>5, <1>6 DEF Old
<1>8. r[k] = s[Old(i, k)]
  <2>1. \A m \in DOMAIN RemoveAt(s, i) : RemoveAt(s, i)[m] = s[Old(i, m)]
      BY Removed
  <2> QED
      BY <1>1, <1>7, <2>1
<1> QED
    BY <1>1, <1>7, <1>8

LEMMA RemovedOrder ==
    ASSUME NEW i \in Nat, NEW j \in Nat, NEW k \in Nat, j < k
    PROVE  Old(i, j) < Old(i, k)
    BY DEF Old

LEMMA RemovedKeeps ==
    ASSUME NEW s, Listed(s), NEW i \in DOMAIN s
    PROVE  /\ Rising(s) => Rising(RemoveAt(s, i))
           /\ OneEvent(s) => OneEvent(RemoveAt(s, i))
           /\ Behind(RemoveAt(s, i)) \subseteq Behind(s)
           /\ HasEvent(RemoveAt(s, i)) => HasEvent(s)
           /\ CommandsOf(RemoveAt(s, i)) \subseteq CommandsOf(s)
           /\ CommandsOf(s) \ {s[i]} \subseteq CommandsOf(RemoveAt(s, i))
<1>1. PICK r : r = RemoveAt(s, i)
    OBVIOUS
<1>2. DOMAIN s = 1 .. Len(s) /\ Len(s) \in Nat
    BY DEF Listed
<1>3. /\ DOMAIN r \subseteq Nat
      /\ \A j \in DOMAIN r : Old(i, j) \in DOMAIN s /\ r[j] = s[Old(i, j)] /\ Old(i, j) # i
    BY <1>1, Removed
<1>4. \A j, k \in DOMAIN r : j < k => Old(i, j) < Old(i, k)
    BY <1>2, <1>3, RemovedOrder
<1>5. Rising(s) => Rising(r)
    BY <1>3, <1>4 DEF Rising
<1>6. OneEvent(s) => OneEvent(r)
  <2> SUFFICES ASSUME OneEvent(s), NEW j \in DOMAIN r, NEW k \in DOMAIN r,
                      IsEvent(r[j]), IsEvent(r[k])
               PROVE  j = k
      BY DEF OneEvent
  <2>1. Old(i, j) = Old(i, k)
      BY <1>3 DEF OneEvent
  <2>2. ~(j < k) /\ ~(k < j)
      BY <2>1, <1>2, <1>3, <1>4
  <2> QED
      BY <2>2, <1>3
<1>7. Behind(r) \subseteq Behind(s)
  <2> SUFFICES ASSUME NEW k \in DOMAIN r, IsCommand(r[k]), NEW j \in DOMAIN r, j < k, IsEvent(r[j])
               PROVE  r[k] \in Behind(s)
      BY DEF Behind
  <2> QED
      BY <1>3, <1>4 DEF Behind
<1>8. HasEvent(r) => HasEvent(s)
    BY <1>3 DEF HasEvent
<1>9. CommandsOf(r) \subseteq CommandsOf(s)
    BY <1>3 DEF CommandsOf
<1>10. CommandsOf(s) \ {s[i]} \subseteq CommandsOf(r)
    BY <1>1, RemovedPlaces DEF CommandsOf
<1> QED
    BY <1>1, <1>5, <1>6, <1>7, <1>8, <1>9, <1>10

LEMMA RemovedCommand ==
    ASSUME NEW s, Listed(s), NEW i \in DOMAIN s, Rising(s), IsCommand(s[i]),
           \A a \in CommandsOf(s) : a.id \in Nat
    PROVE  CommandsOf(RemoveAt(s, i)) = CommandsOf(s) \ {s[i]}
<1>1. PICK r : r = RemoveAt(s, i)
    OBVIOUS
<1>2. DOMAIN s = 1 .. Len(s) /\ Len(s) \in Nat
    BY DEF Listed
<1>3. \A j \in DOMAIN r : Old(i, j) \in DOMAIN s /\ r[j] = s[Old(i, j)] /\ Old(i, j) # i
    BY <1>1, Removed
<1>4. ASSUME NEW j \in DOMAIN s, IsCommand(s[j]), j # i
      PROVE  s[j] # s[i]
  <2>1. s[j].id \in Nat /\ s[i].id \in Nat
      BY <1>4 DEF CommandsOf
  <2>2. j < i \/ i < j
      BY <1>2, <1>4
  <2>3. s[j].id < s[i].id \/ s[i].id < s[j].id
      BY <1>4, <2>2 DEF Rising
  <2> QED
      BY <2>1, <2>3
<1>5. s[i] \notin CommandsOf(r)
    BY <1>3, <1>4 DEF CommandsOf
<1> QED
    BY <1>1, <1>5, RemovedKeeps


-----------------------------------------------------------------------------
(* Memory: what starting, finishing, recording and storing make of it *)

LEMMA IdsApart ==
    ASSUME InLine, Numbered, count.ids \in Nat, Listed(gpu), Listed(seq.batch),
           NEW a \in Pending, NEW b \in Pending, a.id = b.id
    PROVE  a = b
<1>1. \A c \in Pending : c.id \in Nat
    BY DEF Numbered
<1>2. ASSUME NEW s, Listed(s), Rising(s), CommandsOf(s) \subseteq Pending,
             a \in CommandsOf(s), b \in CommandsOf(s)
      PROVE  a = b
  <2>1. PICK i \in DOMAIN s : IsCommand(s[i]) /\ s[i] = a
      BY <1>2 DEF CommandsOf
  <2>2. PICK j \in DOMAIN s : IsCommand(s[j]) /\ s[j] = b
      BY <1>2 DEF CommandsOf
  <2>3. ~(i < j) /\ ~(j < i)
      BY <1>1, <1>2, <2>1, <2>2 DEF Rising
  <2>4. i = j
      BY <2>3, <1>2 DEF Listed
  <2> QED
      BY <2>1, <2>2, <2>4
<1>3. \A c \in CommandsOf(gpu), d \in CommandsOf(seq.batch) : c.id # d.id
    BY <1>1 DEF InLine, Pending
<1>4. CommandsOf(gpu) \subseteq Pending /\ CommandsOf(seq.batch) \subseteq Pending
    BY DEF Pending
<1> QED
    BY <1>2, <1>3, <1>4 DEF Pending, InLine

LEMMA Apart ==
    ASSUME Memory, Listed(gpu), Listed(seq.batch)
    PROVE  \A a, b \in Pending : a.id = b.id => a = b
    BY IdsApart DEF Memory

\* A command nothing before it is ordered with.
LEMMA FreeIsFirst ==
    ASSUME Memory, NEW x \in Pending, Free(x)
    PROVE  \A a \in Pending : a.id < x.id => ~Conflicting(a, x)
    BY DEF Memory, Separated, Free

\* What it reads is in memory.
LEMMA FreeReads ==
    ASSUME Memory, NEW x \in Pending, Free(x), NEW c \in Inputs(x), ~(x.running /\ c \in x.writes)
    PROVE  c \in Cells /\ mem[c] = x.sees[c] /\ NoWriter(c, x.id)
<1>1. c \in Cells /\ Found(c, x.id, x.sees[c])
    BY DEF Memory, SeesOrder
<1>2. ASSUME NEW w \in Pending, LastWriter(w, c, x.id) PROVE FALSE
  <2>1. w.id < x.id /\ Conflicting(w, x)
      BY <1>2 DEF LastWriter, Conflicting
  <2> QED
      BY <2>1, FreeIsFirst
<1> QED
    BY <1>1, <1>2 DEF Found, Due

Twin(a, b) == a.id = b.id /\ a.sees = b.sees /\ a.writes = b.writes /\ a.bar = b.bar

\* Command x is running now: it has torn what it writes.
LEMMA StartMemory ==
    ASSUME Memory, Listed(gpu), Listed(seq.batch), NEW x \in Pending, ~x.running, Free(x),
           NEW y, Twin(x, y), y.right, y.running,
           DOMAIN y = {"kind", "id", "sees", "writes", "transfer", "bar", "running", "right"},
           Pending' = (Pending \ {x}) \cup {y}, InLine', UNCHANGED <<prog, count>>,
           mem' = [c \in Cells |-> IF c \in x.writes THEN Torn ELSE mem[c]]
    PROVE  Memory'
<1>1. /\ \A a \in Pending' : \E b \in Pending : Twin(b, a) /\ (a = y => b = x) /\ (a # y => b = a)
      /\ \A b \in Pending : \E a \in Pending' : Twin(b, a)
    BY DEF Twin
<1>2. \A a \in Pending : a.id \in Nat
    BY DEF Memory, Numbered
<1>3. \A m, n : Barrier(m, n)' <=> Barrier(m, n)
    BY <1>1 DEF Barrier, Twin
<1>4. \A a, b : Twin(a, b) => Inputs(a) = Inputs(b)
    BY DEF Twin, Inputs
<1>5. \A c, n : NoWriter(c, n) => NoWriter(c, n)'
    BY <1>1 DEF NoWriter, Twin
<1>6. ASSUME NEW c, NEW n, NEW v, Due(c, n, v) PROVE Due(c, n, v)'
  <2>1. PICK w \in Pending : LastWriter(w, c, n) /\ w.id = v
      BY <1>6 DEF Due
  <2>2. PICK u \in Pending' : Twin(w, u)
      BY <1>1
  <2>3. LastWriter(u, c, n)'
      BY <1>1, <2>1, <2>2 DEF LastWriter, Twin
  <2> QED
      BY <2>1, <2>2, <2>3 DEF Due, Twin
<1>7. \A c \in Cells : c \notin x.writes => mem'[c] = mem[c]
    OBVIOUS
<1>8. ASSUME NEW c \in Cells, NEW n, NEW v, Found(c, n, v), c \notin x.writes
      PROVE  Found(c, n, v)'
  <2>1. CASE Due(c, n, v)
      BY <2>1, <1>6 DEF Found
  <2>2. CASE NoWriter(c, n) /\ mem[c] = v
      BY <2>2, <1>5, <1>7, <1>8 DEF Found
  <2> QED
      BY <2>1, <2>2, <1>8 DEF Found
<1>9. ASSUME NEW c \in Cells, NEW n, NEW v, Found(c, n, v), x.id < n
      PROVE  Found(c, n, v)'
  <2>1. CASE Due(c, n, v)
      BY <2>1, <1>6 DEF Found
  <2>2. CASE NoWriter(c, n) /\ mem[c] = v
      BY <2>2, <1>8, <1>9 DEF NoWriter
  <2> QED
      BY <2>1, <2>2, <1>9 DEF Found
<1>10. \A c \in Inputs(x) : mem[c] = x.sees[c] /\ NoWriter(c, x.id) /\ c \in Cells
    BY FreeReads
<1>11. mem' \in [Cells -> Nat \cup {Torn}] /\ prog' \in [Cells -> Nat] /\ count.ids' \in Nat
    BY DEF Memory
<1>12. CommandFields' /\ Numbered'
    BY <1>1 DEF Memory, CommandFields, Numbered, Twin
<1>13. Separated'
  <2> SUFFICES ASSUME NEW a \in Pending', NEW b \in Pending', a.id < b.id, Conflicting(a, b)
               PROVE  Barrier(a.id, b.id)'
      BY DEF Separated
  <2>1. PICK a1 \in Pending : Twin(a1, a)
      BY <1>1
  <2>2. PICK b1 \in Pending : Twin(b1, b)
      BY <1>1
  <2>3. Conflicting(a1, b1)
      BY <2>1, <2>2, <1>4 DEF Conflicting, Twin
  <2> QED
      BY <2>1, <2>2, <2>3, <1>3 DEF Memory, Separated, Twin
<1>14. \A b \in Pending, a \in Pending' : Twin(b, a) /\ Free(b) => Free(a)'
    BY <1>1, <1>3 DEF Free, Twin
<1>15. Alone'
    BY <1>1, <1>14 DEF Memory, Alone
<1>16. SeesOrder'
  <2> SUFFICES ASSUME NEW a \in Pending', NEW c \in Inputs(a)
               PROVE  c \in Cells /\ (Found(c, a.id, a.sees[c])' \/ (a.running /\ c \in a.writes))
      BY DEF SeesOrder
  <2>1. CASE a = y
    <3>1. c \in Inputs(x) /\ a.sees = x.sees /\ a.writes = x.writes /\ a.id = x.id
        BY <2>1, <1>4 DEF Twin
    <3>2. Found(c, x.id, x.sees[c])
        BY <1>10, <3>1 DEF Found
    <3> QED
        BY <2>1, <3>1, <3>2, <1>8, <1>10
  <2>2. CASE a # y
    <3>1. a \in Pending /\ a # x
        BY <2>2
    <3>2. c \in Cells /\ (Found(c, a.id, a.sees[c]) \/ (a.running /\ c \in a.writes))
        BY <3>1 DEF Memory, SeesOrder
    <3>3. CASE a.id < x.id
      <4>1. c \notin x.writes
          BY <3>1, <3>3, FreeIsFirst DEF Conflicting
      <4> QED
          BY <4>1, <3>2, <1>8
    <3>4. CASE x.id < a.id
        BY <3>2, <3>4, <1>9
    <3>5. a.id # x.id
        BY <3>1, Apart
    <3> QED
        BY <3>1, <3>3, <3>4, <3>5, <1>2
  <2> QED
      BY <2>1, <2>2
<1>17. ProgramIsNext'
  <2>1. x.id < count.ids + 1
      BY DEF Memory, Numbered
  <2> QED
      BY <2>1, <1>9 DEF Memory, ProgramIsNext
<1> QED
    BY <1>11, <1>12, <1>13, <1>15, <1>16, <1>17 DEF Memory



\* Command x is done: it has written its number.
LEMMA FinishMemory ==
    ASSUME Memory, Listed(gpu), Listed(seq.batch), NEW x \in Pending, x.running,
           Pending' = Pending \ {x}, InLine', UNCHANGED <<prog, count>>,
           mem' = [c \in Cells |-> IF c \in x.writes THEN x.id ELSE mem[c]]
    PROVE  Memory'
<1>1. Free(x) /\ x.right
    BY DEF Memory, Alone
<1>2. \A a \in Pending : a.id \in Nat /\ a.id < count.ids + 1
    BY DEF Memory, Numbered
<1>3. ASSUME NEW a \in Pending', NEW b \in Pending', Barrier(a.id, b.id)
      PROVE  Barrier(a.id, b.id)'
  <2>1. PICK e \in Pending : e.bar /\ a.id < e.id /\ e.id <= b.id
      BY <1>3 DEF Barrier
  <2>2. e # x
    <3> SUFFICES ASSUME e = x PROVE FALSE
        OBVIOUS
    <3>1. Barrier(a.id, x.id)
        BY <1>2, <2>1 DEF Barrier
    <3> QED
        BY <3>1, <2>1, <1>1 DEF Free
  <2> QED
      BY <2>1, <2>2 DEF Barrier
<1>4. ASSUME NEW m, NEW n, Barrier(m, n)' PROVE Barrier(m, n)
    BY <1>4 DEF Barrier
<1>5. ASSUME NEW c, NEW n, NoWriter(c, n) PROVE NoWriter(c, n)'
    BY <1>5 DEF NoWriter
<1>6. ASSUME NEW c \in Cells, NEW n \in Nat, NEW v, Found(c, n, v), c \notin x.writes
      PROVE  Found(c, n, v)'
  <2>1. CASE Due(c, n, v)
    <3>1. PICK w \in Pending : LastWriter(w, c, n) /\ w.id = v
        BY <2>1 DEF Due
    <3>2. w # x /\ LastWriter(w, c, n)'
        BY <3>1, <1>6 DEF LastWriter
    <3> QED
        BY <3>1, <3>2 DEF Found, Due
  <2>2. CASE NoWriter(c, n) /\ mem[c] = v
      BY <2>2, <1>5, <1>6 DEF Found
  <2> QED
      BY <2>1, <2>2, <1>6 DEF Found
\* Whoever finds what x writes finds its number.
<1>7. ASSUME NEW c \in Cells, NEW n \in Nat, NEW v, Found(c, n, v), x.id < n, c \in x.writes
      PROVE  Found(c, n, v)'
  <2>1. PICK w \in Pending : LastWriter(w, c, n) /\ w.id = v
      BY <1>7 DEF Found, Due, NoWriter
  <2>2. CASE w = x
    <3>1. ASSUME NEW u \in Pending', c \in u.writes, u.id < n PROVE FALSE
      <4>1. u.id < x.id
        <5>1. u.id <= x.id /\ u.id # x.id
            BY <3>1, <2>1, <2>2, Apart DEF LastWriter
        <5> QED
            BY <5>1, <1>2
      <4> QED
          BY <4>1, <3>1, <1>1, <1>7, FreeIsFirst DEF Conflicting
    <3>2. NoWriter(c, n)' /\ mem'[c] = v
        BY <3>1, <2>1, <2>2, <1>7 DEF NoWriter
    <3> QED
        BY <3>2 DEF Found
  <2>3. CASE w # x
    <3>1. w \in Pending' /\ LastWriter(w, c, n)'
        BY <2>1, <2>3 DEF LastWriter
    <3> QED
        BY <3>1, <2>1 DEF Found, Due
  <2> QED
      BY <2>2, <2>3
<1>8. mem' \in [Cells -> Nat \cup {Torn}] /\ prog' \in [Cells -> Nat] /\ count.ids' \in Nat
    BY <1>2 DEF Memory
<1>9. CommandFields' /\ Numbered'
    BY DEF Memory, CommandFields, Numbered
<1>10. Separated'
    BY <1>3 DEF Memory, Separated
<1>11. ASSUME NEW b \in Pending', Free(b) PROVE Free(b)'
    BY <1>4, <1>11 DEF Free
<1>12. Alone'
    BY <1>11 DEF Memory, Alone
<1>13. SeesOrder'
  <2> SUFFICES ASSUME NEW a \in Pending', NEW c \in Inputs(a)
               PROVE  c \in Cells /\ (Found(c, a.id, a.sees[c])' \/ (a.running /\ c \in a.writes))
      BY DEF SeesOrder
  <2>1. c \in Cells /\ (Found(c, a.id, a.sees[c]) \/ (a.running /\ c \in a.writes))
      BY DEF Memory, SeesOrder
  <2>2. CASE c \notin x.writes
      BY <2>1, <2>2, <1>2, <1>6
  <2>3. CASE c \in x.writes
    <3>1. ~(a.id < x.id)
        BY <2>3, <1>1, FreeIsFirst DEF Conflicting
    <3>2. x.id < a.id
        BY <3>1, <1>2, Apart
    <3> QED
        BY <3>2, <2>1, <2>3, <1>2, <1>7
  <2> QED
      BY <2>2, <2>3
<1>14. ProgramIsNext'
  <2> SUFFICES ASSUME NEW c \in Cells PROVE Found(c, count.ids + 1, prog[c])'
      BY DEF ProgramIsNext
  <2>1. Found(c, count.ids + 1, prog[c]) /\ count.ids + 1 \in Nat /\ x.id < count.ids + 1
      BY <1>2 DEF Memory, ProgramIsNext
  <2>2. ASSUME NEW n \in Nat, NEW v, Found(c, n, v), x.id < n PROVE Found(c, n, v)'
      BY <2>2, <1>6, <1>7
  <2>3. PICK n \in Nat, v \in {prog[c]} : n = count.ids + 1
      BY <2>1
  <2>4. Found(c, n, v)'
      BY <2>1, <2>2, <2>3
  <2> QED
      BY <2>3, <2>4
<1> QED
    BY <1>8, <1>9, <1>10, <1>12, <1>13, <1>14 DEF Memory

\* A step that leaves the commands and memory as they are.
LEMMA SameMemory ==
    ASSUME Memory, Pending' = Pending, InLine', UNCHANGED <<mem, prog>>, count'.ids = count.ids
    PROVE  Memory'
<1>1. ASSUME NEW c, NEW n, NEW v, Found(c, n, v) PROVE Found(c, n, v)'
    BY <1>1 DEF Found, Due, LastWriter, NoWriter
<1>2. \A m, n : Barrier(m, n)' <=> Barrier(m, n)
    BY DEF Barrier
<1>3. Separated' /\ Alone'
    BY <1>2 DEF Memory, Separated, Alone, Free
<1>4. SeesOrder' /\ ProgramIsNext'
    BY <1>1 DEF Memory, SeesOrder, ProgramIsNext
<1> QED
    BY <1>3, <1>4 DEF Memory, CommandFields, Numbered

\* The host writes a cell that no pending command reads or writes.
LEMMA StoreMemory ==
    ASSUME Memory, Pending' = Pending, InLine', NEW c \in Cells, HostStore(c), CountFields,
           \A a \in Pending : c \notin a.writes \cup Inputs(a)
    PROVE  Memory'
<1>1. /\ count'.ids = count.ids + 1 /\ count.ids \in Nat
      /\ mem' = [mem EXCEPT ![c] = count.ids + 1]
      /\ prog' = [prog EXCEPT ![c] = count.ids + 1]
    BY DEF HostStore, CountFields, Memory
<1>2. \A a \in Pending : a.id \in Nat /\ a.id <= count.ids
    BY DEF Memory, Numbered
<1>3. \A d \in Cells : d # c => mem'[d] = mem[d] /\ prog'[d] = prog[d]
    BY <1>1 DEF Memory
<1>4. mem'[c] = count.ids + 1 /\ prog'[c] = count.ids + 1
    BY <1>1 DEF Memory
<1>5. ASSUME NEW d \in Cells, d # c, NEW n, NEW v, Found(d, n, v) PROVE Found(d, n, v)'
    BY <1>3, <1>5 DEF Found, Due, LastWriter, NoWriter
<1>6. \A m, n : Barrier(m, n)' <=> Barrier(m, n)
    BY DEF Barrier
<1>7. Separated' /\ Alone' /\ CommandFields'
    BY <1>6 DEF Memory, Separated, Alone, Free, CommandFields
<1>8. Numbered'
    BY <1>1, <1>2 DEF Memory, Numbered
<1>9. SeesOrder'
    BY <1>5 DEF Memory, SeesOrder
<1>10. ProgramIsNext'
  <2> SUFFICES ASSUME NEW d \in Cells PROVE Found(d, count.ids + 1, prog[d])'
      BY DEF ProgramIsNext
  <2>1. CASE d = c
      BY <2>1, <1>4 DEF Found, NoWriter
  <2>2. CASE d # c
    <3>1. Found(d, count.ids + 1, prog[d])
        BY DEF Memory, ProgramIsNext
    <3>2. CASE Due(d, count.ids + 1, prog[d])
      <4>1. PICK w \in Pending : LastWriter(w, d, count.ids + 1) /\ w.id = prog[d]
          BY <3>2 DEF Due
      <4>2. LastWriter(w, d, count.ids + 1)'
          BY <4>1, <1>1, <1>2 DEF LastWriter
      <4> QED
          BY <4>1, <4>2, <2>2, <1>3 DEF Found, Due
    <3>3. CASE NoWriter(d, count.ids + 1) /\ mem[d] = prog[d]
      <4>1. NoWriter(d, count.ids + 1)'
          BY <3>3, <1>1, <1>2 DEF NoWriter
      <4> QED
          BY <4>1, <3>3, <2>2, <1>3 DEF Found
    <3> QED
        BY <3>1, <3>2, <3>3 DEF Found
  <2> QED
      BY <2>1, <2>2
<1>11. mem' \in [Cells -> Nat \cup {Torn}] /\ prog' \in [Cells -> Nat] /\ count'.ids \in Nat
    BY <1>1 DEF Memory
<1> QED
    BY <1>7, <1>8, <1>9, <1>10, <1>11 DEF Memory

\* Command x is recorded, behind a barrier unless it conflicts with nothing pending.
LEMMA RecordMemory ==
    ASSUME Memory, NEW x, x.id = count.ids + 1, ~x.running, InLine',
           DOMAIN x = {"kind", "id", "sees", "writes", "transfer", "bar", "running", "right"},
           Pending' = Pending \cup {x}, count'.ids = count.ids + 1, mem' = mem,
           x.writes \subseteq Cells, Inputs(x) \subseteq Cells,
           \A c \in Inputs(x) : x.sees[c] = prog[c],
           prog' = [c \in Cells |-> IF c \in x.writes THEN x.id ELSE prog[c]],
           \A a \in Pending : Conflicting(a, x) => x.bar \/ Barrier(a.id, count.ids)
    PROVE  Memory'
<1>1. \A a \in Pending : a.id \in Nat /\ a.id <= count.ids
    BY DEF Memory, Numbered
<1>2. count.ids \in Nat /\ x.id \in Nat /\ count'.ids \in Nat
    BY DEF Memory
<1>3. \A m, n : Barrier(m, n) => Barrier(m, n)'
    BY DEF Barrier
<1>4. ASSUME NEW m, NEW b \in Pending, Barrier(m, b.id)' PROVE Barrier(m, b.id)
    BY <1>1, <1>2, <1>4 DEF Barrier
<1>5. ASSUME NEW c \in Cells, NEW n \in Nat, NEW v, Found(c, n, v), n <= x.id
      PROVE  Found(c, n, v)'
  <2>1. CASE Due(c, n, v)
    <3>1. PICK w \in Pending : LastWriter(w, c, n) /\ w.id = v
        BY <2>1 DEF Due
    <3>2. LastWriter(w, c, n)'
        BY <3>1, <1>2, <1>5 DEF LastWriter
    <3> QED
        BY <3>1, <3>2 DEF Found, Due
  <2>2. CASE NoWriter(c, n) /\ mem[c] = v
      BY <2>2, <1>2, <1>5 DEF Found, NoWriter
  <2> QED
      BY <2>1, <2>2, <1>5 DEF Found
<1>6. mem' \in [Cells -> Nat \cup {Torn}] /\ prog' \in [Cells -> Nat]
    BY <1>2 DEF Memory
<1>7. CommandFields'
    BY DEF Memory, CommandFields
<1>8. Numbered'
    BY <1>1, <1>2 DEF Memory, Numbered
<1>9. Separated'
  <2> SUFFICES ASSUME NEW a \in Pending', NEW b \in Pending', a.id < b.id, Conflicting(a, b)
               PROVE  Barrier(a.id, b.id)'
      BY DEF Separated
  <2>1. a \in Pending
      BY <1>1, <1>2
  <2>2. CASE b \in Pending
      BY <2>1, <2>2, <1>3 DEF Memory, Separated
  <2>3. CASE b = x
    <3>1. CASE x.bar
        BY <3>1, <2>3, <1>2 DEF Barrier
    <3>2. CASE Barrier(a.id, count.ids)
        BY <3>2, <2>3, <1>1, <1>2 DEF Barrier
    <3> QED
        BY <2>1, <2>3, <3>1, <3>2
  <2> QED
      BY <2>2, <2>3
<1>10. Alone'
  <2> SUFFICES ASSUME NEW b \in Pending', b.running PROVE b.right /\ Free(b)'
      BY DEF Alone
  <2>1. b \in Pending
      OBVIOUS
  <2>2. b.right /\ Free(b)
      BY <2>1 DEF Memory, Alone
  <2>3. \A a \in Pending' : a.id < b.id => a \in Pending
      BY <2>1, <1>1, <1>2
  <2> QED
      BY <2>1, <2>2, <2>3, <1>4 DEF Free
<1>11. SeesOrder'
  <2> SUFFICES ASSUME NEW a \in Pending', NEW c \in Inputs(a)
               PROVE  c \in Cells /\ (Found(c, a.id, a.sees[c])' \/ (a.running /\ c \in a.writes))
      BY DEF SeesOrder
  <2>1. CASE a \in Pending
    <3>1. c \in Cells /\ (Found(c, a.id, a.sees[c]) \/ (a.running /\ c \in a.writes))
        BY <2>1 DEF Memory, SeesOrder
    <3> QED
        BY <3>1, <2>1, <1>1, <1>2, <1>5
  <2>2. CASE a = x
    <3>1. c \in Cells /\ Found(c, x.id, x.sees[c])
        BY <2>2 DEF Memory, ProgramIsNext
    <3> QED
        BY <3>1, <2>2, <1>2, <1>5
  <2> QED
      BY <2>1, <2>2
<1>12. ProgramIsNext'
  <2> SUFFICES ASSUME NEW c \in Cells PROVE Found(c, count.ids + 1, prog[c])'
      BY DEF ProgramIsNext
  <2>1. CASE c \in x.writes
    <3>1. LastWriter(x, c, count.ids + 1)' /\ prog'[c] = x.id
        BY <2>1, <1>1, <1>2 DEF LastWriter
    <3> QED
        BY <3>1 DEF Found, Due
  <2>2. CASE c \notin x.writes
    <3>1. Found(c, count.ids + 1, prog[c]) /\ prog'[c] = prog[c]
        BY <2>2 DEF Memory, ProgramIsNext
    <3>2. CASE Due(c, count.ids + 1, prog[c])
      <4>1. PICK w \in Pending : LastWriter(w, c, count.ids + 1) /\ w.id = prog[c]
          BY <3>2 DEF Due
      <4>2. LastWriter(w, c, count.ids + 1)'
          BY <4>1, <2>2, <1>1, <1>2 DEF LastWriter
      <4> QED
          BY <4>1, <4>2, <3>1 DEF Found, Due
    <3>3. CASE NoWriter(c, count.ids + 1) /\ mem[c] = prog[c]
      <4>1. NoWriter(c, count.ids + 1)'
          BY <3>3, <2>2, <1>1, <1>2 DEF NoWriter
      <4> QED
          BY <4>1, <3>3, <3>1 DEF Found
    <3> QED
        BY <3>1, <3>2, <3>3 DEF Found
  <2> QED
      BY <2>1, <2>2
<1> QED
    BY <1>2, <1>6, <1>7, <1>8, <1>9, <1>10, <1>11, <1>12 DEF Memory

-----------------------------------------------------------------------------
(* The device's steps *)

LEMMA Changed ==
    ASSUME NEW s, Listed(s), Rising(s), NEW i \in DOMAIN s, IsCommand(s[i]),
           \A a \in CommandsOf(s) : a.id \in Nat,
           NEW y, "kind" \in DOMAIN y, IsCommand(y), y.id = s[i].id,
           NEW t, t \in Seq(Entries(s) \cup {y}), DOMAIN t = DOMAIN s, t[i] = y,
           \A j \in DOMAIN s : j # i => t[j] = s[j]
    PROVE  /\ Listed(t) /\ Rising(t)
           /\ CommandsOf(t) = (CommandsOf(s) \ {s[i]}) \cup {y}
           /\ HasEvent(t) <=> HasEvent(s)
           /\ OneEvent(s) => OneEvent(t)
           /\ \A a \in Behind(t) : IF a = y THEN s[i] \in Behind(s) ELSE a \in Behind(s)
<1>1. /\ s \in Seq(Entries(s)) /\ DOMAIN s = 1 .. Len(s) /\ Len(s) \in Nat
      /\ \A j \in DOMAIN s : "kind" \in DOMAIN s[j]
    BY DEF Listed
<1>2. DOMAIN t = DOMAIN s /\ t[i] = y /\ \A j \in DOMAIN s : j # i => t[j] = s[j]
    OBVIOUS
<1>4. Listed(t)
    BY <1>1, <1>2, OwnEntries DEF Listed
<1>5. Rising(t)
    BY <1>2 DEF Rising
<1>6. \A j \in DOMAIN s : IsCommand(s[j]) /\ j # i => s[j] # s[i]
  <2> SUFFICES ASSUME NEW j \in DOMAIN s, IsCommand(s[j]), j # i PROVE s[j] # s[i]
      OBVIOUS
  <2>1. s[j].id \in Nat /\ s[i].id \in Nat
      BY DEF CommandsOf
  <2>2. j < i \/ i < j
      BY <1>1
  <2>3. s[j].id < s[i].id \/ s[i].id < s[j].id
      BY <2>2 DEF Rising
  <2> QED
      BY <2>1, <2>3
<1>7. CommandsOf(t) = (CommandsOf(s) \ {s[i]}) \cup {y}
    BY <1>2, <1>6 DEF CommandsOf
<1>8. ~IsEvent(s[i]) /\ ~IsEvent(y)
    BY DEF IsCommand, IsEvent
<1>9. HasEvent(t) <=> HasEvent(s)
    BY <1>2, <1>8 DEF HasEvent
<1>10. OneEvent(s) => OneEvent(t)
    BY <1>2, <1>8 DEF OneEvent
<1>11. ASSUME NEW a \in Behind(t) PROVE IF a = y THEN s[i] \in Behind(s) ELSE a \in Behind(s)
  <2>1. PICK k \in DOMAIN s, j \in DOMAIN s : /\ t[k] = a /\ IsCommand(t[k])
                                               /\ j < k /\ IsEvent(t[j])
      BY <1>2 DEF Behind
  <2>2. IsEvent(s[j])
      BY <2>1, <1>2, <1>8
  <2>3. CASE k = i
      BY <2>1, <2>2, <2>3, <1>2 DEF Behind
  <2>4. CASE k # i
    <3>1. s[k] = a /\ a \in Behind(s)
        BY <2>1, <2>2, <2>4, <1>2 DEF Behind
    <3>2. a # y
      <4>1. s[k].id \in Nat /\ s[i].id \in Nat
          BY <3>1, <2>1 DEF CommandsOf
      <4>2. k < i \/ i < k
          BY <2>4, <1>1
      <4>3. s[k].id < s[i].id \/ s[i].id < s[k].id
          BY <4>2, <3>1, <2>1 DEF Rising
      <4> QED
          BY <4>1, <4>3, <3>1
    <3> QED
        BY <3>1, <3>2
  <2> QED
      BY <2>3, <2>4
<1> QED
    BY <1>4, <1>5, <1>7, <1>9, <1>10, <1>11

\* What a step of the compute queue leaves the rest of the invariant to know.
Thinned ==
    /\ \A a \in Pending' : \E b \in Pending : Twin(b, a)
    /\ \A a \in Pending' : \A n : Barrier(a.id, n) => Barrier(a.id, n)'

LEMMA ThinnedKeeps ==
    ASSUME Main, Memory', Listed(gpu'), MarkHeld', Thinned, UNCHANGED hostVars
    PROVE  Main'
<1>1. UNCHANGED <<seq, mark, ring, todo, prog, held, answer, count>>
    BY DEF hostVars
<1>2. Pending = {} => Pending' = {}
    BY DEF Thinned
<1>3. AtFence' = AtFence
    BY <1>1 DEF AtFence
<1>4. SequenceShape'
    BY <1>1, <1>2, <1>3 DEF Main, Data, SequenceShape, SequenceFields
<1>5. TableKnows'
  <2> SUFFICES ASSUME seq.n # 0, NEW a \in Pending'
               PROVE  \/ Barrier(a.id, count.ids)'
                      \/ /\ \A c \in Inputs(a) : InTable(c, FALSE)'
                         /\ \A c \in a.writes : InTable(c, TRUE)'
      BY <1>1 DEF TableKnows
  <2>1. PICK b \in Pending : Twin(b, a)
      BY DEF Thinned
  <2>2. \/ Barrier(b.id, count.ids)
        \/ /\ \A c \in Inputs(b) : InTable(c, FALSE)
           /\ \A c \in b.writes : InTable(c, TRUE)
      BY DEF Main, Data, TableKnows
  <2>3. Barrier(a.id, count.ids) => Barrier(a.id, count.ids)'
    <3>1. PICK n \in {count.ids} : TRUE
        OBVIOUS
    <3>2. Barrier(a.id, n) => Barrier(a.id, n)'
        BY DEF Thinned
    <3> QED
        BY <3>1, <3>2, <1>1
  <2>4. \A c, w : InTable(c, w)' = InTable(c, w)
      BY <1>1 DEF InTable
  <2> QED
      BY <2>1, <2>2, <2>3, <2>4 DEF Twin, Inputs
<1>6. RingsInUse'
    BY <1>1 DEF Main, Data, RingsInUse, Thinned, Twin, Inputs
<1>7. \A e : Ready(e) => Ready(e)'
    BY <1>2 DEF Ready, Thinned, Twin, Inputs
<1>8. CallShape'
  <2> SUFFICES ASSUME NEW k \in DOMAIN todo
               PROVE  EntryFits(todo[k]) /\ Guarded(k)' /\ Gathers(k)' /\ Marks(k)'
      BY <1>1 DEF Main, Data, CallShape
  <2>1. EntryFits(todo[k]) /\ Guarded(k) /\ Gathers(k) /\ Marks(k)
      BY DEF Main, Data, CallShape
  <2>2. Gathers(k)' /\ Marks(k)'
      BY <2>1, <1>1 DEF Gathers, Marks
  <2>3. Guarded(k)'
      BY <2>1, <1>1, <1>3, <1>7 DEF Guarded, Settles, Calm, Marked
  <2> QED
      BY <2>1, <2>2, <2>3
<1> QED
    BY <1>4, <1>5, <1>6, <1>8 DEF Main, Data

\* Nothing of the compute queue before place i conflicts with the command there.
LEMMA MayStartFree ==
    ASSUME Main, NEW i \in DOMAIN gpu, MayStart(i)
    PROVE  gpu[i] \in Pending /\ Free(gpu[i])
<1>1. Listed(gpu) /\ Memory
    BY DEF Main, Data, SequenceShape
<1>2. DOMAIN gpu = 1 .. Len(gpu) /\ Len(gpu) \in Nat
    BY <1>1 DEF Listed
<1>3. gpu[i] \in CommandsOf(gpu) /\ gpu[i] \in Pending
    BY DEF MayStart, CommandsOf, Pending
<1>4. \A a \in Pending : a.id \in Nat
    BY <1>1 DEF Memory, Numbered
\* A pending command with a number up to x's is in the queue, up to place i.
<1>5. ASSUME NEW a \in Pending, a.id <= gpu[i].id
      PROVE  \E k \in DOMAIN gpu : gpu[k] = a /\ k <= i /\ IsCommand(gpu[k])
  <2>1. a \in CommandsOf(gpu)
      BY <1>1, <1>3, <1>4, <1>5 DEF Memory, InLine, Pending
  <2>2. PICK k \in DOMAIN gpu : gpu[k] = a /\ IsCommand(gpu[k])
      BY <2>1 DEF CommandsOf
  <2>3. ~(i < k)
      BY <1>1, <1>3, <1>4, <1>5, <2>2 DEF Memory, InLine, Rising, MayStart
  <2> QED
      BY <1>2, <2>2, <2>3
<1>6. ASSUME NEW a \in Pending, a.id < gpu[i].id, Barrier(a.id, gpu[i].id)
      PROVE  FALSE
  <2>1. PICK e \in Pending : e.bar /\ a.id < e.id /\ e.id <= gpu[i].id
      BY <1>6 DEF Barrier
  <2>2. PICK k \in DOMAIN gpu : gpu[k] = a /\ k <= i /\ IsCommand(gpu[k])
      BY <1>3, <1>4, <1>5, <1>6
  <2>3. PICK j \in DOMAIN gpu : gpu[j] = e /\ j <= i /\ IsCommand(gpu[j])
      BY <2>1, <1>5
  <2>4. k < j
    <3>1. ~(j < k)
        BY <1>1, <1>4, <2>1, <2>2, <2>3 DEF Memory, InLine, Rising
    <3>2. j # k
        BY <1>4, <2>1, <2>2, <2>3
    <3> QED
        BY <3>1, <3>2, <1>2
  <2>5. k \in 1 .. i - 1 /\ j \in k + 1 .. i
      BY <1>2, <2>2, <2>3, <2>4
  <2> QED
      BY <2>1, <2>2, <2>3, <2>5 DEF MayStart
<1> QED
    BY <1>3, <1>6 DEF Free

LEMMA StartKeeps ==
    ASSUME Main, NEW i \in DOMAIN gpu, Start(i), UNCHANGED hostVars
    PROVE  Main'
<1>1. Listed(gpu) /\ Listed(seq.batch) /\ Memory /\ MarkHeld
    BY DEF Main, Data, SequenceShape
<1>2. UNCHANGED <<seq, mark, held, prog, count>>
    BY DEF hostVars
<1>3. PICK x : x = gpu[i]
    OBVIOUS
<1>4. x \in Pending /\ x \in CommandsOf(gpu) /\ Free(x) /\ ~x.running /\ IsCommand(x)
    BY <1>3, MayStartFree DEF Start, MayStart, CommandsOf
<1>5. DOMAIN x = {"kind", "id", "sees", "writes", "transfer", "bar", "running", "right"}
    BY <1>1, <1>4 DEF Memory, CommandFields
<1>6. SeesRight(x, Inputs(x)) = TRUE
    BY <1>1, <1>4, FreeReads DEF SeesRight
<1>7. PICK y : y = [x EXCEPT !.running = TRUE, !.right = TRUE]
    OBVIOUS
<1>8. gpu' = [gpu EXCEPT ![i] = y]
    BY <1>1, <1>3, <1>6, <1>7 DEF Start, Listed
<1>9. Twin(x, y) /\ y.running /\ y.right /\ DOMAIN y = DOMAIN x /\ y.kind = x.kind
    BY <1>5, <1>7 DEF Twin
<1>10. \A a \in CommandsOf(gpu) : a.id \in Nat
    BY <1>1 DEF Memory, Numbered, Pending
<1>11. /\ Listed(gpu') /\ Rising(gpu')
       /\ CommandsOf(gpu') = (CommandsOf(gpu) \ {x}) \cup {y}
       /\ HasEvent(gpu') <=> HasEvent(gpu)
       /\ OneEvent(gpu) => OneEvent(gpu')
       /\ \A a \in Behind(gpu') : IF a = y THEN x \in Behind(gpu) ELSE a \in Behind(gpu)
  <2>1. "kind" \in DOMAIN y /\ IsCommand(y) /\ y.id = gpu[i].id /\ IsCommand(gpu[i])
      BY <1>3, <1>4, <1>5, <1>9 DEF IsCommand, Twin
  <2>2. Listed(gpu) /\ Rising(gpu)
      BY <1>1 DEF Memory, InLine
  <2>3. gpu \in Seq(Entries(gpu) \cup {y})
      BY <2>2 DEF Listed
  <2>4. /\ gpu' \in Seq(Entries(gpu) \cup {y}) /\ DOMAIN gpu' = DOMAIN gpu
        /\ gpu'[i] = y /\ \A j \in DOMAIN gpu : j # i => gpu'[j] = gpu[j]
      BY <1>8, <2>3
  <2>5. /\ Listed(gpu') /\ Rising(gpu')
        /\ CommandsOf(gpu') = (CommandsOf(gpu) \ {gpu[i]}) \cup {y}
        /\ HasEvent(gpu') <=> HasEvent(gpu)
        /\ OneEvent(gpu) => OneEvent(gpu')
        /\ \A a \in Behind(gpu') : IF a = y THEN gpu[i] \in Behind(gpu) ELSE a \in Behind(gpu)
      BY <1>10, <2>1, <2>2, <2>4, Changed
  <2> QED
      BY <1>3, <2>5
<1>12. Pending' = (Pending \ {x}) \cup {y}
  <2>1. x \notin CommandsOf(seq.batch)
      BY <1>1, <1>4, <1>10 DEF Memory, InLine
  <2> QED
      BY <2>1, <1>2, <1>11 DEF Pending
<1>13. InLine'
    BY <1>1, <1>2, <1>4, <1>9, <1>11 DEF Memory, InLine, Twin
<1>14. mem' = [c \in Cells |-> IF c \in x.writes THEN Torn ELSE mem[c]]
    BY <1>3 DEF Start
<1>15. Memory'
    BY <1>1, <1>2, <1>4, <1>5, <1>9, <1>12, <1>13, <1>14, StartMemory
<1>16. Thinned
  <2>1. \A a \in Pending' : \E b \in Pending : Twin(b, a)
      BY <1>4, <1>9, <1>12 DEF Twin
  <2>2. \A b \in Pending : \E a \in Pending' : Twin(b, a)
      BY <1>4, <1>9, <1>12 DEF Twin
  <2>3. \A m, n : Barrier(m, n) => Barrier(m, n)'
      BY <2>2 DEF Barrier, Twin
  <2> QED
      BY <2>1, <2>3 DEF Thinned
<1>17. MarkHeld'
  <2>1. \A a \in BehindMark' : \E b \in BehindMark : Twin(b, a)
    <3>1. ASSUME NEW a \in CommandsOf(seq.batch) PROVE a # y /\ Twin(a, a)
        BY <1>1, <1>4, <1>8, <1>9, <1>10, <3>1 DEF Memory, InLine, Numbered, Pending, Twin
    <3>2. ASSUME NEW a \in Behind(gpu') PROVE \E b \in Behind(gpu) : Twin(b, a)
        BY <1>9, <1>11, <3>2 DEF Twin
    <3>3. \A a \in Behind(seq.batch) : Twin(a, a)
        BY DEF Twin
    <3> QED
        BY <1>2, <1>11, <3>1, <3>2, <3>3 DEF BehindMark
  <2>2. event' = event
      BY DEF Start
  <2> QED
      BY <2>1, <2>2, <1>1, <1>2, <1>11, <1>16 DEF MarkHeld, Thinned, Twin
<1> QED
    BY <1>11, <1>15, <1>16, <1>17, ThinnedKeeps

LEMMA FinishKeeps ==
    ASSUME Main, NEW i \in DOMAIN gpu, Finish(i), UNCHANGED hostVars
    PROVE  Main'
<1>1. Listed(gpu) /\ Listed(seq.batch) /\ Memory /\ MarkHeld
    BY DEF Main, Data, SequenceShape
<1>2. UNCHANGED <<seq, mark, held, prog, count>>
    BY DEF hostVars
<1>3. PICK x : x = gpu[i]
    OBVIOUS
<1>4. x \in Pending /\ x \in CommandsOf(gpu) /\ x.running /\ IsCommand(x)
    BY <1>3 DEF Finish, CommandsOf, Pending
<1>5. Free(x) /\ x.right
    BY <1>1, <1>4 DEF Memory, Alone
<1>6. SeesRight(x, Inputs(x) \ x.writes)
    BY <1>1, <1>4, <1>5, FreeReads DEF SeesRight
<1>7. mem' = [c \in Cells |-> IF c \in x.writes THEN x.id ELSE mem[c]]
    BY <1>3, <1>5, <1>6 DEF Finish
<1>8. \A a \in CommandsOf(gpu) : a.id \in Nat
    BY <1>1 DEF Memory, Numbered, Pending
<1>9. gpu' = RemoveAt(gpu, i)
    BY DEF Finish
<1>10. CommandsOf(gpu') = CommandsOf(gpu) \ {x}
    BY <1>1, <1>3, <1>4, <1>8, <1>9, RemovedCommand DEF Memory, InLine
<1>11. /\ Listed(gpu') /\ Rising(gpu') /\ (OneEvent(gpu) => OneEvent(gpu'))
       /\ Behind(gpu') \subseteq Behind(gpu) /\ (HasEvent(gpu') => HasEvent(gpu))
    BY <1>1, <1>9, Removed, RemovedKeeps DEF Memory, InLine
<1>12. Pending' = Pending \ {x}
  <2>1. x \notin CommandsOf(seq.batch)
      BY <1>1, <1>4, <1>8 DEF Memory, InLine
  <2> QED
      BY <2>1, <1>2, <1>10 DEF Pending
<1>13. InLine'
    BY <1>1, <1>2, <1>10, <1>11 DEF Memory, InLine
<1>14. Memory'
    BY <1>1, <1>2, <1>4, <1>7, <1>12, <1>13, FinishMemory
<1>15. Thinned
  <2>1. \A a \in Pending : a.id \in Nat
      BY <1>1 DEF Memory, Numbered
  <2>2. ASSUME NEW a \in Pending', NEW n, Barrier(a.id, n) PROVE Barrier(a.id, n)'
    <3>1. PICK e \in Pending : e.bar /\ a.id < e.id /\ e.id <= n
        BY <2>2 DEF Barrier
    <3>2. e # x
      <4> SUFFICES ASSUME e = x PROVE FALSE
          OBVIOUS
      <4>1. Barrier(a.id, x.id)
          BY <2>1, <3>1 DEF Barrier
      <4> QED
          BY <4>1, <3>1, <1>5, <1>12 DEF Free
    <3> QED
        BY <3>1, <3>2, <1>12 DEF Barrier
  <2>3. \A a \in Pending' : a \in Pending /\ Twin(a, a)
      BY <1>12 DEF Twin
  <2> QED
      BY <2>2, <2>3 DEF Thinned
<1>16. MarkHeld'
  <2>1. BehindMark' \subseteq BehindMark
      BY <1>2, <1>11 DEF BehindMark
  <2>2. event' = event
      BY DEF Finish
  <2> QED
      BY <2>1, <2>2, <1>1, <1>2, <1>11, <1>12 DEF MarkHeld
<1> QED
    BY <1>11, <1>14, <1>15, <1>16, ThinnedKeeps

\* An event, a signal or a semaphore wait is done.
LEMMA PassKeeps ==
    ASSUME Main, NEW i \in DOMAIN gpu, ~IsCommand(gpu[i]), gpu' = RemoveAt(gpu, i), mem' = mem,
           \/ event' = event
           \/ IsEvent(gpu[i]) /\ NoCommandBefore(i) /\ event' = TRUE,
           UNCHANGED hostVars
    PROVE  Main'
<1>1. Listed(gpu) /\ Listed(seq.batch) /\ Memory /\ MarkHeld
    BY DEF Main, Data, SequenceShape
<1>2. UNCHANGED <<seq, mark, held, prog, count>>
    BY DEF hostVars
<1>3. /\ Listed(gpu') /\ Rising(gpu') /\ (OneEvent(gpu) => OneEvent(gpu'))
      /\ Behind(gpu') \subseteq Behind(gpu) /\ (HasEvent(gpu') => HasEvent(gpu))
    BY <1>1, Removed, RemovedKeeps DEF Memory, InLine
<1>4. CommandsOf(gpu') = CommandsOf(gpu)
  <2>1. gpu[i] \notin CommandsOf(gpu)
      BY DEF CommandsOf
  <2>2. CommandsOf(gpu') \subseteq CommandsOf(gpu) /\ CommandsOf(gpu) \ {gpu[i]} \subseteq CommandsOf(gpu')
      BY <1>1, RemovedKeeps
  <2> QED
      BY <2>1, <2>2
<1>5. Pending' = Pending
    BY <1>2, <1>4 DEF Pending
<1>6. Memory'
  <2>1. InLine'
      BY <1>1, <1>2, <1>3, <1>4 DEF Memory, InLine
  <2> QED
      BY <2>1, <1>1, <1>2, <1>5, SameMemory
<1>7. Thinned
    BY <1>5 DEF Thinned, Barrier, Twin
<1>8. BehindMark' \subseteq BehindMark
    BY <1>2, <1>3 DEF BehindMark
<1>9. MarkHeld'
  <2>1. CASE event' = event
      BY <2>1, <1>1, <1>2, <1>3, <1>5, <1>8 DEF MarkHeld
  <2>2. CASE IsEvent(gpu[i]) /\ NoCommandBefore(i) /\ event' = TRUE
    <3>1. HasEvent(gpu) /\ ~HasEvent(seq.batch) /\ mark.pending
        BY <2>2, <1>1 DEF MarkHeld, HasEvent
    <3>2. ~HasEvent(gpu')
      <4>1. \A j \in DOMAIN gpu' : /\ Old(i, j) \in DOMAIN gpu /\ Old(i, j) # i
                                    /\ gpu'[j] = gpu[Old(i, j)]
          BY <1>1, Removed
      <4> QED
          BY <4>1, <2>2, <1>1 DEF MarkHeld, OneEvent, HasEvent
    <3>3. Pending \subseteq BehindMark
      <4>1. ASSUME NEW k \in DOMAIN gpu, IsCommand(gpu[k]) PROVE gpu[k] \in Behind(gpu)
        <5>1. i < k
            BY <4>1, <2>2, <1>1 DEF NoCommandBefore, Listed, IsEvent, IsCommand
        <5> QED
            BY <5>1, <4>1, <2>2 DEF Behind
      <4> QED
          BY <4>1, <3>1 DEF Pending, BehindMark, CommandsOf
    <3> QED
        BY <3>1, <3>2, <3>3, <2>2, <1>1, <1>2, <1>3, <1>5, <1>8 DEF MarkHeld
  <2> QED
      BY <2>1, <2>2
<1> QED
    BY <1>3, <1>6, <1>7, <1>9, ThinnedKeeps

LEMMA DeviceKeepsOrder == Main /\ ComputeStep /\ UNCHANGED hostVars => Main'
<1> SUFFICES ASSUME Main, ComputeStep, UNCHANGED hostVars PROVE Main'
    OBVIOUS
<1>1. DOMAIN gpu = 1 .. Len(gpu)
    BY DEF Main, Data, SequenceShape, Listed
<1>2. PICK i \in DOMAIN gpu : \/ Start(i) \/ Finish(i)
                              \/ EventSet(i) \/ SignalComp(i) \/ PassWait(i)
    BY <1>1 DEF ComputeStep
<1>3. CASE EventSet(i)
    BY <1>3, PassKeeps DEF EventSet, IsCommand, IsEvent
<1>4. CASE SignalComp(i)
    BY <1>4, PassKeeps DEF SignalComp, IsCommand
<1>5. CASE PassWait(i)
    BY <1>5, PassKeeps DEF PassWait, IsCommand
<1> QED
    BY <1>2, <1>3, <1>4, <1>5, StartKeeps, FinishKeeps

-----------------------------------------------------------------------------
(* What is left of the call: replacing its first entry *)

\* The rest of the call is es, in place of the first entry.
Replaced(es) == es \in Seq(Entries(es)) /\ todo # <<>> /\ todo' = es \o Tail(todo)
Shifted(es, k) == Len(es) + k - 1

LEMMA Places ==
    ASSUME CallShape, NEW es, Replaced(es)
    PROVE  /\ Len(es) \in Nat /\ Len(todo) \in Nat \ {0}
           /\ DOMAIN es = 1 .. Len(es) /\ DOMAIN todo = 1 .. Len(todo)
           /\ todo' \in Seq(Entries(todo'))
           /\ Len(todo') = Len(es) + Len(todo) - 1
           /\ DOMAIN todo' = 1 .. Len(es) + Len(todo) - 1
           /\ \A k \in 1 .. Len(es) : todo'[k] = es[k]
           /\ \A k \in 2 .. Len(todo) : todo'[Shifted(es, k)] = todo[k]
           /\ Head(todo) = todo[1]
<1> DEFINE E == Entries(es) \cup Entries(todo)
<1>1. todo \in Seq(E) /\ es \in Seq(E) /\ todo # <<>>
    BY DEF CallShape, Replaced
<1>2. /\ Tail(todo) \in Seq(E) /\ Len(Tail(todo)) = Len(todo) - 1 /\ Len(todo) \in Nat \ {0}
      /\ \A i \in 1 .. Len(todo) - 1 : Tail(todo)[i] = todo[i + 1]
      /\ Head(todo) = todo[1]
    BY <1>1
<1>3. PICK t : t = Tail(todo)
    OBVIOUS
<1>4. /\ es \o t \in Seq(E) /\ Len(es \o t) = Len(es) + Len(todo) - 1
      /\ Len(es) \in Nat /\ DOMAIN es = 1 .. Len(es) /\ DOMAIN todo = 1 .. Len(todo)
    BY <1>1, <1>2, <1>3
<1>5. \A i \in 1 .. Len(es) + Len(t) : (es \o t)[i] = IF i <= Len(es) THEN es[i] ELSE t[i - Len(es)]
    BY <1>1, <1>2, <1>3, ConcatProperties
<1>6. todo' = es \o t
    BY <1>3 DEF Replaced
<1>7. todo' \in Seq(E) /\ Len(todo') = Len(es) + Len(todo) - 1
    BY <1>4, <1>6
<1>8. todo' \in Seq(Entries(todo')) /\ DOMAIN todo' = 1 .. Len(es) + Len(todo) - 1
    BY <1>7, OwnEntries
<1>9. ASSUME NEW k \in 1 .. Len(es) PROVE todo'[k] = es[k]
    BY <1>2, <1>3, <1>4, <1>5, <1>6
<1>10. ASSUME NEW k \in 2 .. Len(todo) PROVE todo'[Shifted(es, k)] = todo[k]
  <2>1. /\ Shifted(es, k) \in 1 .. Len(es) + Len(t) /\ ~(Shifted(es, k) <= Len(es))
        /\ Shifted(es, k) - Len(es) = k - 1 /\ k - 1 \in 1 .. Len(todo) - 1
      BY <1>2, <1>3, <1>4 DEF Shifted
  <2>2. todo'[Shifted(es, k)] = t[k - 1]
      BY <2>1, <1>5, <1>6
  <2> QED
      BY <2>1, <2>2, <1>2, <1>3
<1> QED
    BY <1>2, <1>4, <1>7, <1>8, <1>9, <1>10

LEMMA ReplacedShape ==
    ASSUME CallShape, NEW es, Replaced(es),
           \A k \in 1 .. Len(es) : EntryFits(es[k]) /\ (Guarded(k) /\ Gathers(k) /\ Marks(k))',
           \A k \in 2 .. Len(todo) :
               Guarded(Shifted(es, k))' /\ (Gathers(Shifted(es, k)) /\ Marks(Shifted(es, k)))'
    PROVE  CallShape'
<1>1. todo' \in Seq(Entries(todo'))
    BY Places
<1>2. ASSUME NEW k \in DOMAIN todo'
      PROVE  EntryFits(todo'[k]) /\ (Guarded(k) /\ Gathers(k) /\ Marks(k))'
  <2>1. CASE k \in 1 .. Len(es)
      BY <2>1, Places
  <2>2. CASE k \notin 1 .. Len(es)
    <3>1. PICK j \in 2 .. Len(todo) : k = Shifted(es, j)
      <4>1. k - Len(es) + 1 \in 2 .. Len(todo) /\ k = Shifted(es, k - Len(es) + 1)
          BY <1>2, <2>2, Places DEF Shifted
      <4> QED
          BY <4>1
    <3>2. todo'[k] = todo[j] /\ EntryFits(todo[j])
        BY <3>1, Places DEF CallShape
    <3> QED
        BY <3>1, <3>2
  <2> QED
      BY <2>1, <2>2
<1> QED
    BY <1>1, <1>2 DEF CallShape

\* A flush among the later entries keeps what follows it.
LEMMA SettlesLater ==
    ASSUME CallShape, NEW es, Replaced(es), NEW k \in 2 .. Len(todo),
           NEW j \in 2 .. k - 1, todo[j].f = "flush", \A m \in j + 1 .. k - 1 : todo[m].f \in Waiting
    PROVE  Settles(Shifted(es, k))'
<1>1. Len(es) \in Nat /\ Len(todo) \in Nat /\ j \in 2 .. Len(todo)
    BY Places
<1>2. Shifted(es, j) \in 1 .. Shifted(es, k) - 1
    BY <1>1 DEF Shifted
<1>3. todo'[Shifted(es, j)].f = "flush"
    BY <1>1, Places
<1>4. ASSUME NEW m \in Shifted(es, j) + 1 .. Shifted(es, k) - 1 PROVE todo'[m].f \in Waiting
  <2>1. PICK n : n = m - Len(es) + 1
      OBVIOUS
  <2>2. n \in j + 1 .. k - 1 /\ n \in 2 .. Len(todo) /\ m = Shifted(es, n)
      BY <1>1, <2>1 DEF Shifted
  <2>3. todo'[Shifted(es, n)] = todo[n]
      BY <2>2, Places
  <2> QED
      BY <2>2, <2>3
<1> QED
    BY <1>2, <1>3, <1>4 DEF Settles

\* Entries that wait, then the later ones that waited already.
LEMMA CalmLater ==
    ASSUME CallShape, NEW es, Replaced(es), \A m \in 1 .. Len(es) : es[m].f \in Waiting,
           NEW k \in 2 .. Len(todo), \A m \in 2 .. k - 1 : todo[m].f \in Waiting
    PROVE  Calm(Shifted(es, k))'
<1> SUFFICES ASSUME NEW m \in 1 .. Shifted(es, k) - 1 PROVE todo'[m].f \in Waiting
    BY DEF Calm
<1>1. CASE m \in 1 .. Len(es)
    BY <1>1, Places
<1>2. CASE m \notin 1 .. Len(es)
  <2>1. m - Len(es) + 1 \in 2 .. k - 1 /\ m = Shifted(es, m - Len(es) + 1)
      BY <1>2, Places DEF Shifted
  <2>2. m - Len(es) + 1 \in 2 .. Len(todo)
      BY <2>1, Places
  <2> QED
      BY SMTT(30), <2>1, <2>2, Places
<1> QED
    BY <1>1, <1>2

Guards == {"read", "write", "rings"}

\* After an entry that does not wait, what the later ones need is a flush among them.
LEMMA BusyGuards ==
    ASSUME CallShape, NEW es, Replaced(es), todo[1].f \notin Waiting
    PROVE  \A k \in 2 .. Len(todo) : Guarded(Shifted(es, k))'
<1> SUFFICES ASSUME NEW k \in 2 .. Len(todo), todo[k].f \in Guards
             PROVE  Settles(Shifted(es, k))'
    BY Places DEF Guarded, Guards
<1>1. Guarded(k) /\ ~Calm(k)
    BY Places DEF CallShape, Calm
<1>2. PICK j \in 1 .. k - 1 : /\ todo[j].f = "flush"
                              /\ \A m \in j + 1 .. k - 1 : todo[m].f \in Waiting
    BY <1>1 DEF Guarded, Guards, Settles
<1>3. j # 1
    BY <1>2 DEF Waiting
<1> QED
    BY <1>2, <1>3, SettlesLater

\* After an entry that waits: a flush among the later ones, or only waits before them and
\* what that entry was to bring about.
LEMMA WaitingGuards ==
    ASSUME CallShape, NEW es, Replaced(es), todo[1].f \in Waiting,
           \A m \in 1 .. Len(es) : es[m].f \in Waiting,
           NEW k \in 2 .. Len(todo), todo[k].f \in Guards
    PROVE  \/ Settles(Shifted(es, k))'
           \/ /\ Calm(Shifted(es, k))'
              /\ \/ todo[1].f \in {"flush", "fence"}
                 \/ Ready(todo[k])
                 \/ todo[k].f = "read" /\ Marked(k, todo[k].cell)
<1>1. Guarded(k)
    BY Places DEF CallShape
<1>2. CASE Settles(k)
  <2>1. PICK j \in 1 .. k - 1 : /\ todo[j].f = "flush"
                                /\ \A m \in j + 1 .. k - 1 : todo[m].f \in Waiting
      BY <1>2 DEF Settles
  <2>2. CASE j = 1
      BY <2>1, <2>2, CalmLater
  <2>3. CASE j # 1
      BY <2>1, <2>3, SettlesLater
  <2> QED
      BY <2>2, <2>3
<1>3. CASE Calm(k)
  <2>1. \A m \in 2 .. k - 1 : todo[m].f \in Waiting
      BY <1>3 DEF Calm
  <2>2. Calm(Shifted(es, k))'
      BY <2>1, CalmLater
  <2>3. \/ Settles(k)
        \/ AtFence
        \/ Ready(todo[k])
        \/ todo[k].f = "read" /\ Marked(k, todo[k].cell)
      BY <1>1 DEF Guarded, Guards
  <2>4. AtFence => todo[1].f = "fence"
      BY Places DEF AtFence
  <2> QED
      BY <1>2, <2>2, <2>3, <2>4
<1> QED
    BY <1>1, <1>2, <1>3 DEF Guarded, Guards

\* Only behind a write is there a kernel that reads an upload, only behind a wait for the
\* mark the setting of the next.
LEMMA LaterOthers ==
    ASSUME CallShape, NEW es, Replaced(es), NEW k \in 2 .. Len(todo)
    PROVE  /\ todo[1].f # "write" => Gathers(Shifted(es, k))'
           /\ todo[1].f # "wait_mark" => Marks(Shifted(es, k))'
<1>1. Gathers(k) /\ Marks(k)
    BY Places DEF CallShape
<1>2. todo'[Shifted(es, k)] = todo[k] /\ (k = Len(todo) => Shifted(es, k) = Len(todo'))
    BY Places DEF Shifted
<1>0. k # 1
    BY Places
<1>3. todo[1].f # "write" => ~UsesUpload(todo[k])
    BY <1>0, <1>1 DEF Gathers
<1>4. todo[1].f # "wait_mark" => todo[k].f \notin {"mark", "set mark", "fence"}
    BY <1>0, <1>1 DEF Marks
<1> QED
    BY <1>1, <1>2, <1>3, <1>4 DEF Gathers, Marks, UsesUpload

Plain == {"flush", "roll", "cut", "wait_mark", "flush mark", "spin"}

\* Entries that only wait and need nothing.
LEMMA PlainFits ==
    ASSUME CallShape, NEW es, Replaced(es), NEW k \in 1 .. Len(es), "f" \in DOMAIN es[k],
           es[k].f \in Plain
    PROVE  EntryFits(es[k]) /\ (Guarded(k) /\ Gathers(k) /\ Marks(k))'
<1>1. todo'[k] = es[k]
    BY Places
<1>2. /\ es[k].f \notin {"dispatch", "copy", "gemm", "stage x", "reserve u", "read", "write"}
      /\ es[k].f \notin {"rings", "mark", "set mark", "fence"}
    BY DEF Plain
<1> QED
    BY <1>1, <1>2 DEF EntryFits, Guarded, Gathers, Marks, UsesUpload

-----------------------------------------------------------------------------
(* The host's steps: what they do to the data *)

\* A step that touches neither memory nor what is pending.
LEMMA StillData ==
    ASSUME Data, ~AtFence \/ Pending = {}, count'.ids = count.ids,
           UNCHANGED <<mem, gpu, seq, prog>>, RingsInUse', MarkHeld'
    PROVE  Data' /\ Pending' = Pending
<1>1. Pending' = Pending
    BY DEF Pending
<1>2. Memory'
  <2>1. InLine'
      BY DEF Data, Memory, InLine
  <2> QED
      BY <2>1, <1>1, SameMemory DEF Data
<1>3. SequenceShape'
    BY <1>1 DEF Data, SequenceShape, SequenceFields
<1>4. TableKnows'
    BY <1>1 DEF Data, TableKnows, Barrier, InTable
<1> QED
    BY <1>1, <1>2, <1>3, <1>4 DEF Data

\* A step that only goes on in the call.
LEMMA QuietData ==
    ASSUME Data, ~AtFence \/ Pending = {}, count'.ids = count.ids,
           UNCHANGED <<mem, gpu, event, seq, mark, ring, prog, held>>
    PROVE  Data' /\ Pending' = Pending
<1>1. Pending' = Pending
    BY DEF Pending
<1>2. RingsInUse'
    BY <1>1 DEF Data, RingsInUse
<1>3. MarkHeld'
    BY <1>1 DEF Data, MarkHeld, BehindMark
<1> QED
    BY <1>2, <1>3, StillData

\* With nothing else attached a submission puts the batch behind the queue.
LEMMA AttachedBatch == SequenceShape => Attach(seq) = seq.batch
<1> SUFFICES ASSUME SequenceShape PROVE Attach(seq) = seq.batch
    OBVIOUS
<1>1. seq.batch \in Seq(Entries(seq.batch)) /\ seq.waitCopy = 0 /\ seq.signalComp = 0
    BY DEF SequenceShape, Listed
<1>2. PICK b : b = seq.batch
    OBVIOUS
<1>3. <<>> \o b \o <<>> = b
    BY <1>1, <1>2
<1> QED
    BY <1>1, <1>2, <1>3 DEF Attach

\* What a submission that succeeds makes of the rest.
LEMMA SubmittedData ==
    ASSUME Data, ~AtFence, gpu' = gpu \o seq.batch, SequenceFields', seq'.batch = <<>>,
           UNCHANGED <<mem, event, prog, ring, held, count>>,
           mark' = [mark EXCEPT !.inOpen = FALSE],
           seq'.waitCopy = 0, seq'.signalComp = 0, ~seq'.failed,
           \/ seq'.n = seq.n /\ seq'.open = seq.open /\ seq'.dirty = seq.dirty
           \/ seq'.n = 0 /\ seq'.open = FALSE /\ seq'.dirty = <<>> /\ AtFence'
    PROVE  Data' /\ Pending' = Pending
<1>1. Listed(gpu) /\ Listed(seq.batch)
    BY DEF Data, SequenceShape
<1>2. /\ CommandsOf(gpu') = CommandsOf(gpu) \cup CommandsOf(seq.batch)
      /\ HasEvent(gpu') <=> HasEvent(gpu) \/ HasEvent(seq.batch)
    BY <1>1, JoinCommands
<1>3. CommandsOf(seq'.batch) = {} /\ ~HasEvent(seq'.batch) /\ Behind(seq'.batch) = {}
    BY None DEF CommandsOf, HasEvent, Behind
<1>4. Pending' = Pending
    BY <1>2, <1>3 DEF Pending
<1>5. Listed(gpu') /\ Listed(seq'.batch)
    BY <1>1, Join, None
<1>6. InLine'
  <2>1. Rising(gpu')
      BY <1>1, JoinRising DEF Data, Memory, InLine
  <2>2. Rising(seq'.batch)
      BY None DEF Rising
  <2> QED
      BY <2>1, <2>2, <1>3 DEF InLine
<1>7. Memory'
    BY <1>4, <1>6, SameMemory DEF Data
<1>8. SequenceShape'
  <2>1. CASE seq'.n = seq.n /\ seq'.open = seq.open /\ seq'.dirty = seq.dirty
      BY <2>1, <1>4, <1>5 DEF Data, SequenceShape
  <2>2. CASE seq'.n = 0 /\ seq'.open = FALSE /\ seq'.dirty = <<>> /\ AtFence'
    <3>1. seq'.dirty \in Seq(Entries(seq'.dirty))
      <4>1. <<>> \in Seq(Entries(<<>>))
          BY None DEF Listed
      <4>2. seq'.dirty = <<>>
          BY <2>2
      <4> QED
          BY ONLY <4>1, <4>2, Zenon
    <3>2. seq'.n \in Nat /\ seq'.n = 0 /\ AtFence'
        BY <2>2
    <3>3. seq'.open \in BOOLEAN /\ ~seq'.open
        BY <2>2
    <3> QED
        BY <3>1, <3>2, <3>3, <1>5 DEF SequenceShape
  <2> QED
      BY <2>1, <2>2
<1>9. TableKnows'
    BY <1>4 DEF Data, TableKnows, Barrier, InTable
<1>10. RingsInUse'
    BY <1>4 DEF Data, RingsInUse
<1>11. OneEvent(gpu') /\ OneEvent(seq'.batch)
    BY <1>1, <1>3, JoinOneEvent DEF Data, MarkHeld, OneEvent, HasEvent
<1>12. BehindMark' \subseteq BehindMark
  <2>1. Behind(gpu') \subseteq
            Behind(gpu) \cup Behind(seq.batch)
                \cup (IF HasEvent(gpu) THEN CommandsOf(seq.batch) ELSE {})
      BY <1>1, JoinBehind
  <2> QED
      BY <2>1, <1>3 DEF BehindMark
<1>13. MarkHeld'
  <2>1. DOMAIN mark' = {"n", "pending", "inOpen"} /\ mark'.n = mark.n /\ mark'.pending = mark.pending
      BY DEF Data, MarkHeld
  <2> QED
      BY <2>1, <1>2, <1>3, <1>4, <1>11, <1>12 DEF Data, MarkHeld
<1> QED
    BY <1>4, <1>7, <1>8, <1>9, <1>10, <1>13 DEF Data

LEMMA RollData ==
    ASSUME Data, ~AtFence, RollSubmit(TRUE)
    PROVE  Data' /\ Pending' = Pending
<1>1. gpu' = gpu \o seq.batch
    BY AttachedBatch DEF RollSubmit, Submit, Data
<1>2. /\ SequenceFields' /\ seq'.batch = <<>> /\ seq'.n = seq.n /\ seq'.open = seq.open
      /\ seq'.dirty = seq.dirty /\ seq'.waitCopy = 0 /\ seq'.signalComp = 0 /\ ~seq'.failed
    BY DEF Data, SequenceShape, SequenceFields, RollSubmit, Rolled
<1> QED
    BY <1>1, <1>2, SubmittedData DEF RollSubmit, Submit

\* The table of the accesses of a command names each cell it reads or writes.
LEMMA AccessesCover ==
    ASSUME NEW in, NEW out, IsFiniteSet(in), IsFiniteSet(out)
    PROVE  /\ Accesses(in, out) \in Seq(Entries(Accesses(in, out)))
           /\ \A c \in in : \E i \in DOMAIN Accesses(in, out) : Accesses(in, out)[i].cell = c
           /\ \A c \in out : \E i \in DOMAIN Accesses(in, out) :
                Accesses(in, out)[i].cell = c /\ Accesses(in, out)[i].write
<1>1. PICK R, T, A : /\ R = [cell : in, write : {FALSE}] /\ T = [cell : out, write : {TRUE}]
                     /\ A = R \cup T
    OBVIOUS
<1>2. IsFiniteSet(R)
  <2>1. PICK f : f = [c \in in |-> [cell |-> c, write |-> FALSE]]
      OBVIOUS
  <2>2. f \in Surjection(in, R)
    <3>1. ASSUME NEW r \in R PROVE r.cell \in in /\ f[r.cell] = r
      <4>1. r \in [cell : in, write : {FALSE}]
          BY <1>1
      <4>2. r.cell \in in /\ r = [cell |-> r.cell, write |-> FALSE]
          BY <4>1
      <4> QED
          BY <4>2, <2>1
    <3>2. f \in [in -> R]
        BY <1>1, <2>1
    <3> QED
        BY <3>1, <3>2 DEF Surjection
  <2> QED
      BY <2>2, FS_Surjection
<1>3. IsFiniteSet(T)
  <2>1. PICK f : f = [c \in out |-> [cell |-> c, write |-> TRUE]]
      OBVIOUS
  <2>2. f \in Surjection(out, T)
    <3>1. ASSUME NEW r \in T PROVE r.cell \in out /\ f[r.cell] = r
      <4>1. r \in [cell : out, write : {TRUE}]
          BY <1>1
      <4>2. r.cell \in out /\ r = [cell |-> r.cell, write |-> TRUE]
          BY <4>1
      <4> QED
          BY <4>2, <2>1
    <3>2. f \in [out -> T]
        BY <1>1, <2>1
    <3> QED
        BY <3>1, <3>2 DEF Surjection
  <2> QED
      BY <2>2, FS_Surjection
<1>4. IsFiniteSet(A)
    BY <1>1, <1>2, <1>3, FS_Union
<1>5. Cardinality(A) \in Nat /\ \E f \in [1 .. Cardinality(A) -> A] : IsInjective(f)
    BY <1>4, FS_CardinalityType DEF ExistsBijection, Bijection, Injection
<1>6. PICK f : f = SetToSeq(A)
    OBVIOUS
<1>7. f \in [1 .. Cardinality(A) -> A] /\ IsInjective(f)
    BY <1>5, <1>6 DEF SetToSeq
<1>8. f \in Surjection(1 .. Cardinality(A), A)
  <2>1. f \in Injection(1 .. Cardinality(A), A)
      BY <1>7 DEF Injection
  <2>2. Cardinality(1 .. Cardinality(A)) = Cardinality(A)
      BY <1>5, FS_Interval
  <2> QED
      BY <2>1, <2>2, <1>4, FS_Injection
<1>9. \A r \in A : \E i \in DOMAIN f : f[i] = r
    BY <1>7, <1>8 DEF Surjection
<1>10. f \in Seq(Entries(f))
  <2>1. f \in Seq(A)
      BY <1>5, <1>7
  <2> QED
      BY <2>1, OwnEntries
<1>11. Accesses(in, out) = f
    BY <1>1, <1>6 DEF Accesses
<1>12. ASSUME NEW c \in in PROVE \E i \in DOMAIN f : f[i].cell = c
  <2>1. [cell |-> c, write |-> FALSE] \in A
      BY <1>1
  <2>2. PICK i \in DOMAIN f : f[i] = [cell |-> c, write |-> FALSE]
      BY <2>1, <1>9
  <2> QED
      BY <2>2
<1>13. ASSUME NEW c \in out PROVE \E i \in DOMAIN f : f[i].cell = c /\ f[i].write
  <2>1. [cell |-> c, write |-> TRUE] \in A
      BY <1>1
  <2>2. PICK i \in DOMAIN f : f[i] = [cell |-> c, write |-> TRUE]
      BY <2>1, <1>9
  <2> QED
      BY <2>2
<1> QED
    BY <1>10, <1>11, <1>12, <1>13

LEMMA TablePlaces ==
    ASSUME NEW s, NEW t, s \in Seq(Entries(s)), t \in Seq(Entries(t))
    PROVE  /\ s \o t \in Seq(Entries(s \o t))
           /\ \A i \in DOMAIN s : i \in DOMAIN (s \o t) /\ (s \o t)[i] = s[i]
           /\ \A j \in DOMAIN t :
                Len(s) + j \in DOMAIN (s \o t) /\ (s \o t)[Len(s) + j] = t[j]
<1> DEFINE E == Entries(s) \cup Entries(t)
<1>1. s \in Seq(E) /\ t \in Seq(E)
    OBVIOUS
<1>2. /\ Len(s) \in Nat /\ Len(t) \in Nat /\ DOMAIN s = 1 .. Len(s) /\ DOMAIN t = 1 .. Len(t)
      /\ s \o t \in Seq(E) /\ Len(s \o t) = Len(s) + Len(t)
      /\ DOMAIN (s \o t) = 1 .. Len(s) + Len(t)
    BY <1>1
<1>3. \A i \in 1 .. Len(s) + Len(t) :
        (s \o t)[i] = IF i <= Len(s) THEN s[i] ELSE t[i - Len(s)]
    BY <1>1, ConcatProperties
<1>4. ASSUME NEW j \in DOMAIN t
      PROVE  Len(s) + j \in DOMAIN (s \o t) /\ (s \o t)[Len(s) + j] = t[j]
  <2>1. Len(s) + j \in 1 .. Len(s) + Len(t) /\ ~(Len(s) + j <= Len(s))
      BY <1>2
  <2>2. Len(s) + j - Len(s) = j
      BY <1>2
  <2> QED
      BY <1>2, <1>3, <2>1, <2>2
<1>5. s \o t \in Seq(Entries(s \o t))
    BY <1>2, OwnEntries
<1> QED
    BY <1>2, <1>3, <1>4, <1>5

\* What recording command x, which reads `in` and writes `out`, makes of the sequence.
LEMMA RecordedSequence ==
    ASSUME Data, ~AtFence, NEW e, NEW in, NEW out, IsFiniteSet(in), IsFiniteSet(out),
           DOMAIN e = {"kind", "id", "sees", "writes", "transfer", "bar", "running", "right"},
           seq' = Recorded(Opened(seq), e, Accesses(in, out))
    PROVE  \E x : /\ x = [e EXCEPT !.bar = x.bar] /\ x.bar \in BOOLEAN
                  /\ seq'.batch = Append(seq.batch, x) /\ SequenceFields'
                  /\ seq'.n = seq.n + 1 /\ seq'.open = TRUE
                  /\ seq'.waitCopy = 0 /\ seq'.signalComp = 0 /\ ~seq'.failed
                  /\ seq'.dirty \in Seq(Entries(seq'.dirty))
                  /\ ~x.bar /\ seq.n # 0 => \A c, w : InTable(c, w) => InTable(c, w)'
                  /\ \A c \in in : InTable(c, FALSE)'
                  /\ \A c \in out : InTable(c, TRUE)'
                  /\ ~x.bar /\ seq.n # 0 =>
                        /\ \A c \in in \cup out : ~InTable(c, TRUE)
                        /\ \A c \in out : ~InTable(c, FALSE)
<1>1. SequenceShape
    BY DEF Data
<1>2. PICK s : s = Opened(seq)
    OBVIOUS
<1>3. /\ s.batch = seq.batch /\ s.n = seq.n /\ s.dirty = seq.dirty /\ s.open = TRUE
      /\ s.waitCopy = 0 /\ s.signalComp = 0 /\ ~s.failed /\ DOMAIN s = DOMAIN seq
  <2>1. CASE seq.open
      BY <1>1, <1>2, <2>1 DEF SequenceShape, Opened
  <2>2. CASE ~seq.open
    <3>1. s = [seq EXCEPT !.open = TRUE, !.cmd = 0, !.inCmd = 0, !.batch = <<>>]
        BY <1>2, <2>2 DEF Opened
    <3>2. seq.batch = <<>>
        BY <1>1, <2>2 DEF SequenceShape
    <3> QED
        BY <1>1, <3>1, <3>2 DEF SequenceShape, SequenceFields
  <2> QED
      BY <2>1, <2>2
<1>4. PICK acc : acc = Accesses(in, out)
    OBVIOUS
<1>5. /\ acc \in Seq(Entries(acc))
      /\ \A c \in in : \E i \in DOMAIN acc : acc[i].cell = c
      /\ \A c \in out : \E i \in DOMAIN acc : acc[i].cell = c /\ acc[i].write
    BY <1>4, AccessesCover
<1>6. PICK kept, bar, base :
            /\ kept = (IF s.n = 0 THEN <<>> ELSE s.dirty)
            /\ bar = (s.n > 0 /\ Conflict(kept, acc)) /\ base = (IF bar THEN <<>> ELSE kept)
    OBVIOUS
<1>7. PICK x : x = [e EXCEPT !.bar = bar]
    OBVIOUS
<1>8. seq' = [s EXCEPT !.dirty = base \o acc, !.batch = Append(@, x), !.n = @ + 1, !.inCmd = @ + 1]
    BY <1>2, <1>4, <1>6, <1>7 DEF Recorded
<1>9. DOMAIN s = {"open", "cmd", "inCmd", "n", "failed", "dirty", "batch", "waitCopy", "signalComp"}
    BY <1>1, <1>3 DEF SequenceShape, SequenceFields
<1>10. /\ seq'.batch = Append(seq.batch, x) /\ SequenceFields' /\ seq'.n = seq.n + 1
       /\ seq'.open = TRUE /\ seq'.waitCopy = 0 /\ seq'.signalComp = 0 /\ ~seq'.failed
       /\ seq'.dirty = base \o acc
    BY <1>3, <1>8, <1>9 DEF SequenceFields
<1>11. bar \in BOOLEAN /\ x.bar = bar /\ x = [e EXCEPT !.bar = x.bar]
    BY <1>6, <1>7
<1>12. base \in Seq(Entries(base))
  <2>1. kept \in Seq(Entries(kept))
      BY <1>1, <1>3, <1>6, None DEF SequenceShape, Listed
  <2> QED
      BY <2>1, <1>6, None DEF Listed
<1>13. /\ seq'.dirty \in Seq(Entries(seq'.dirty))
       /\ \A i \in DOMAIN base : i \in DOMAIN seq'.dirty /\ seq'.dirty[i] = base[i]
       /\ \A j \in DOMAIN acc :
            Len(base) + j \in DOMAIN seq'.dirty /\ seq'.dirty[Len(base) + j] = acc[j]
  <2>1. /\ base \o acc \in Seq(Entries(base \o acc))
        /\ \A i \in DOMAIN base : i \in DOMAIN (base \o acc) /\ (base \o acc)[i] = base[i]
        /\ \A j \in DOMAIN acc :
            Len(base) + j \in DOMAIN (base \o acc) /\ (base \o acc)[Len(base) + j] = acc[j]
      BY <1>5, <1>12, TablePlaces
  <2>2. PICK d : d = base \o acc
      OBVIOUS
  <2>3. seq'.dirty = d
      BY <2>2, <1>10
  <2> QED
      BY <2>1, <2>2, <2>3
<1>14. ASSUME NEW c \in in PROVE InTable(c, FALSE)'
    BY <1>5, <1>13 DEF InTable
<1>19. ASSUME NEW c \in out PROVE InTable(c, TRUE)'
  <2>1. PICK i \in DOMAIN acc : acc[i].cell = c /\ acc[i].write
      BY <1>5
  <2>2. PICK d \in DOMAIN seq'.dirty : seq'.dirty[d] = acc[i]
      BY <1>13
  <2> QED
      BY <2>1, <2>2 DEF InTable
<1>15. ASSUME ~bar, seq.n # 0 PROVE base = seq.dirty /\ ~Conflict(seq.dirty, acc)
    BY <1>1, <1>3, <1>6, <1>15 DEF SequenceShape
<1>16. ASSUME ~bar, seq.n # 0, NEW c, NEW w, InTable(c, w) PROVE InTable(c, w)'
    BY <1>13, <1>15, <1>16 DEF InTable
<1>17. ASSUME ~bar, seq.n # 0, NEW c \in in \cup out PROVE ~InTable(c, TRUE)
    BY <1>5, <1>15, <1>17 DEF InTable, Conflict
<1>18. ASSUME ~bar, seq.n # 0, NEW c \in out PROVE ~InTable(c, FALSE)
    BY <1>5, <1>15, <1>18 DEF InTable, Conflict
<1> QED
    BY <1>10, <1>11, <1>13, <1>14, <1>16, <1>17, <1>18, <1>19

\* The batch with one entry more.
LEMMA AppendedEntry ==
    ASSUME NEW s, Listed(s), NEW e, "kind" \in DOMAIN e, NEW t, t = Append(s, e)
    PROVE  /\ Listed(t) /\ t = s \o <<e>>
           /\ CommandsOf(t) = CommandsOf(s) \cup (IF IsCommand(e) THEN {e} ELSE {})
           /\ HasEvent(t) <=> HasEvent(s) \/ IsEvent(e)
           /\ OneEvent(s) /\ ~(HasEvent(s) /\ IsEvent(e)) => OneEvent(t)
           /\ Behind(t) \subseteq Behind(s) \cup (IF HasEvent(s) /\ IsCommand(e) THEN {e} ELSE {})
           /\ Rising(s) /\ (IsCommand(e) => \A a \in CommandsOf(s) : a.id < e.id) => Rising(t)
<1>1. PICK o : o = <<e>>
    OBVIOUS
<1>2. Listed(o) /\ DOMAIN o = 1 .. 1 /\ o[1] = e
    BY <1>1, One
<1>3. s \o o = t
  <2>1. s \in Seq(Entries(s) \cup {e}) /\ e \in Entries(s) \cup {e}
      BY DEF Listed
  <2> QED
      BY <2>1, <1>1
<1>4. /\ CommandsOf(o) = (IF IsCommand(e) THEN {e} ELSE {})
      /\ HasEvent(o) <=> IsEvent(e)
      /\ OneEvent(o) /\ Rising(o) /\ Behind(o) = {}
    BY <1>2 DEF CommandsOf, HasEvent, OneEvent, Rising, Behind
<1>5. /\ Listed(s \o o)
      /\ CommandsOf(s \o o) = CommandsOf(s) \cup CommandsOf(o)
      /\ HasEvent(s \o o) <=> HasEvent(s) \/ HasEvent(o)
      /\ OneEvent(s) /\ ~(HasEvent(s) /\ HasEvent(o)) => OneEvent(s \o o)
      /\ Behind(s \o o) \subseteq
            Behind(s) \cup Behind(o) \cup (IF HasEvent(s) THEN CommandsOf(o) ELSE {})
    BY <1>2, <1>4, Join, JoinCommands, JoinOneEvent, JoinBehind
<1>6. ASSUME Rising(s), \A a \in CommandsOf(s), b \in CommandsOf(o) : a.id < b.id
      PROVE  Rising(s \o o)
    BY <1>2, <1>4, <1>6, JoinRising
<1>7. ASSUME Rising(s), IsCommand(e) => \A a \in CommandsOf(s) : a.id < e.id
      PROVE  Rising(t)
    BY <1>3, <1>4, <1>6, <1>7
<1> QED
    BY <1>1, <1>3, <1>4, <1>5, <1>7

LEMMA RecordData ==
    ASSUME Data, ~AtFence, CountFields, NEW a, a.put = NoWeight, a.weight = <<>>,
           FiniteCells(a.in), FiniteCells(a.out), a.out \cap Uploads = {},
           \A i \in 0 .. UCap - 1 : U(i) \in a.in => i < ring.u,
           Record(a), UNCHANGED <<mem, gpu, event, mark, ring>>
    PROVE  Data'
<1>1. Memory /\ SequenceShape /\ MarkHeld /\ Listed(gpu) /\ Listed(seq.batch)
    BY DEF Data, SequenceShape
<1>2. PICK sees : sees = [c \in a.in |-> prog[c]]
    OBVIOUS
<1>3. PICK e : e = Command(count.ids + 1, sees, a.out, a.transfer)
    OBVIOUS
<1>4. /\ DOMAIN e = {"kind", "id", "sees", "writes", "transfer", "bar", "running", "right"}
      /\ e.kind = "command" /\ e.id = count.ids + 1 /\ e.sees = sees /\ e.writes = a.out
      /\ ~e.running /\ Inputs(e) = a.in
    BY <1>2, <1>3 DEF Command, Inputs
<1>5. \A c \in a.in : prog[c] # Lost
    BY <1>1, ValuesAssumption DEF Memory, FiniteCells
<1>6. [c \in DOMAIN a.weight \cup a.in |->
            IF c \in DOMAIN a.weight THEN a.weight[c] ELSE prog[c]] = sees
  <2>1. DOMAIN a.weight = {}
      BY None
  <2> QED
      BY <2>1, <1>2
<1>7. /\ seq' = Recorded(Opened(seq), e, Accesses(a.in, a.out))
      /\ prog' = [c \in Cells |-> IF c \in a.out THEN count.ids + 1 ELSE prog[c]]
      /\ held' = [held EXCEPT !.clean = @ \ a.out]
      /\ count' = [count EXCEPT !.ids = count.ids + 1]
  <2>1. seq' = Recorded(Opened(seq), e, Accesses(Inputs(e), a.out))
      BY <1>3, <1>6 DEF Record
  <2> QED
      BY <2>1, <1>4, <1>5 DEF Record
<1>8. count'.ids = count.ids + 1
    BY <1>7 DEF CountFields
<1>9. PICK x : /\ x = [e EXCEPT !.bar = x.bar] /\ x.bar \in BOOLEAN
               /\ seq'.batch = Append(seq.batch, x) /\ SequenceFields'
               /\ seq'.n = seq.n + 1 /\ seq'.open = TRUE
               /\ seq'.waitCopy = 0 /\ seq'.signalComp = 0 /\ ~seq'.failed
               /\ seq'.dirty \in Seq(Entries(seq'.dirty))
               /\ ~x.bar /\ seq.n # 0 => \A c, w : InTable(c, w) => InTable(c, w)'
               /\ \A c \in a.in : InTable(c, FALSE)'
               /\ \A c \in a.out : InTable(c, TRUE)'
               /\ ~x.bar /\ seq.n # 0 =>
                     /\ \A c \in a.in \cup a.out : ~InTable(c, TRUE)
                     /\ \A c \in a.out : ~InTable(c, FALSE)
    BY <1>4, <1>7, RecordedSequence DEF FiniteCells
<1>10. /\ DOMAIN x = {"kind", "id", "sees", "writes", "transfer", "bar", "running", "right"}
       /\ IsCommand(x) /\ ~IsEvent(x) /\ x.id = count.ids + 1 /\ x.sees = sees /\ x.writes = a.out
       /\ ~x.running /\ Inputs(x) = a.in
    BY <1>4, <1>9 DEF IsCommand, IsEvent, Inputs
<1>11. \A b \in Pending : b.id \in Nat /\ b.id < x.id
    BY <1>1, <1>10 DEF Memory, Numbered
<1>12. /\ Listed(seq'.batch)
       /\ CommandsOf(seq'.batch) = CommandsOf(seq.batch) \cup {x}
       /\ HasEvent(seq'.batch) <=> HasEvent(seq.batch)
       /\ OneEvent(seq.batch) => OneEvent(seq'.batch)
       /\ Behind(seq'.batch) \subseteq Behind(seq.batch) \cup {x}
       /\ Rising(seq.batch) => Rising(seq'.batch)
  <2>1. \A b \in CommandsOf(seq.batch) : b.id < x.id
      BY <1>11 DEF Pending
  <2> QED
      BY ZenonT(60), <2>1, <1>1, <1>9, <1>10, AppendedEntry
<1>13. Pending' = Pending \cup {x}
    BY <1>12 DEF Pending
<1>14. InLine'
    BY <1>1, <1>11, <1>12 DEF Memory, InLine, Pending
<1>15. ASSUME NEW b \in Pending
       PROVE  /\ seq.n # 0
              /\ ~x.bar => \/ Barrier(b.id, count.ids)
                           \/ /\ \A c \in Inputs(b) : InTable(c, FALSE)
                              /\ \A c \in b.writes : InTable(c, TRUE)
    BY <1>1 DEF Data, SequenceShape, TableKnows
<1>16. ASSUME NEW b \in Pending, Conflicting(b, x), ~x.bar PROVE Barrier(b.id, count.ids)
    BY <1>9, <1>10, <1>15, <1>16 DEF Conflicting
<1>17. Memory'
  <2>1. x.writes \subseteq Cells /\ Inputs(x) \subseteq Cells
      BY <1>10 DEF FiniteCells
  <2>2. \A c \in Inputs(x) : x.sees[c] = prog[c]
      BY <1>2, <1>10
  <2>3. prog' = [c \in Cells |-> IF c \in x.writes THEN x.id ELSE prog[c]]
      BY <1>7, <1>10
  <2> QED
      BY <2>1, <2>2, <2>3, <1>1, <1>8, <1>10, <1>13, <1>14, <1>16, RecordMemory
<1>18. SequenceShape'
  <2>1. seq'.n \in Nat /\ seq'.n # 0
      BY <1>1, <1>9 DEF SequenceShape
  <2>2. seq'.open \in BOOLEAN /\ seq'.open
      BY <1>9
  <2> QED
      BY <2>1, <2>2, <1>1, <1>9, <1>12 DEF SequenceShape
<1>19. TableKnows'
  <2> SUFFICES ASSUME NEW b \in Pending'
               PROVE  \/ Barrier(b.id, count.ids)'
                      \/ /\ \A c \in Inputs(b) : InTable(c, FALSE)'
                         /\ \A c \in b.writes : InTable(c, TRUE)'
      BY DEF TableKnows
  <2>1. CASE b = x
      BY <2>1, <1>9, <1>10
  <2>2. CASE b \in Pending /\ x.bar
    <3>1. x \in Pending' /\ b.id < x.id /\ x.id <= count'.ids
        BY <2>2, <1>1, <1>8, <1>10, <1>11, <1>13 DEF Memory
    <3> QED
        BY <3>1, <2>2 DEF Barrier
  <2>3. CASE b \in Pending /\ ~x.bar
    <3>1. CASE Barrier(b.id, count.ids)
      <4>1. count.ids \in Nat
          BY <1>1 DEF Memory
      <4>2. PICK d \in Pending : d.bar /\ b.id < d.id /\ d.id <= count.ids
          BY <3>1 DEF Barrier
      <4>3. d \in Pending' /\ d.id <= count'.ids
          BY <4>1, <4>2, <1>8, <1>11, <1>13
      <4> QED
          BY <4>2, <4>3 DEF Barrier
    <3>2. CASE /\ \A c \in Inputs(b) : InTable(c, FALSE)
               /\ \A c \in b.writes : InTable(c, TRUE)
        BY <2>3, <3>2, <1>9, <1>15
    <3> QED
        BY <2>3, <3>1, <3>2, <1>15
  <2> QED
      BY <2>1, <2>2, <2>3, <1>13
<1>20. RingsInUse'
    BY <1>10, <1>13 DEF Data, RingsInUse, Uploads
<1>21. MarkHeld'
  <2>1. /\ DOMAIN held' = DOMAIN held /\ held'.mark = held.mark
        /\ held'.clean = held.clean \ a.out
      BY <1>1, <1>7 DEF MarkHeld
  <2>2. BehindMark' \subseteq BehindMark \cup {x}
      BY <1>12 DEF BehindMark
  <2> QED
      BY <2>1, <2>2, <1>1, <1>10, <1>12, <1>13 DEF MarkHeld
<1> QED
    BY <1>17, <1>18, <1>19, <1>20, <1>21 DEF Data

-----------------------------------------------------------------------------
(* The host's steps: what is left of the call after each *)

LEMMA ReturnReplaces == CallShape /\ todo # <<>> /\ Return => Replaced(<<>>)
<1> SUFFICES ASSUME CallShape, todo # <<>>, Return PROVE Replaced(<<>>)
    OBVIOUS
<1>1. PICK t : t = Tail(todo)
    OBVIOUS
<1>2. t \in Seq(Entries(todo))
    BY <1>1 DEF CallShape
<1>3. <<>> \o t = t
    BY <1>2
<1>4. <<>> \in Seq(Entries(<<>>))
    BY None DEF Listed
<1> QED
    BY <1>1, <1>3, <1>4 DEF Replaced, Return

LEMMA ThenReplaces ==
    ASSUME CallShape, todo # <<>>, NEW es, NEW E, es \in Seq(E), Then(es)
    PROVE  Replaced(es)
    BY OwnEntries DEF Replaced, Then

LEMMA OneEntry == ASSUME NEW a PROVE <<a>> \in Seq({a}) /\ Len(<<a>>) = 1 /\ <<a>>[1] = a
    OBVIOUS
LEMMA TwoEntries ==
    ASSUME NEW a, NEW b
    PROVE  /\ <<a, b>> \in Seq({a, b}) /\ Len(<<a, b>>) = 2
           /\ <<a, b>>[1] = a /\ <<a, b>>[2] = b
    OBVIOUS
LEMMA ThreeEntries ==
    ASSUME NEW a, NEW b, NEW c
    PROVE  /\ <<a, b, c>> \in Seq({a, b, c}) /\ Len(<<a, b, c>>) = 3
           /\ <<a, b, c>>[1] = a /\ <<a, b, c>>[2] = b /\ <<a, b, c>>[3] = c
    OBVIOUS

\* A flush put before the rest of the call.
LEMMA FlushReplaces ==
    ASSUME CallShape, todo # <<>>, todo' = Flush \o todo
    PROVE  Replaced(<<Entry("flush"), todo[1]>>)
<1>1. PICK f, h, t, n : f = Entry("flush") /\ h = todo[1] /\ t = Tail(todo) /\ n = Len(todo)
    OBVIOUS
<1>2. PICK E : E = Entries(todo) \cup {f, h}
    OBVIOUS
<1>3. todo \in Seq(E) /\ f \in E /\ h \in E
    BY <1>1, <1>2 DEF CallShape
<1>4. /\ t \in Seq(E) /\ Len(t) = n - 1 /\ n \in Nat \ {0}
      /\ \A i \in 1 .. n - 1 : t[i] = todo[i + 1]
    BY <1>1, <1>3
<1>5. /\ <<f>> \o todo \in Seq(E) /\ Len(<<f>> \o todo) = n + 1
      /\ \A i \in 1 .. n + 1 : (<<f>> \o todo)[i] = IF i = 1 THEN f ELSE todo[i - 1]
    BY <1>1, <1>3
<1>6. <<f, h>> \in Seq(E) /\ Len(<<f, h>>) = 2 /\ <<f, h>>[1] = f /\ <<f, h>>[2] = h
    BY <1>3
<1>7. <<f, h>> \o t \in Seq(E) /\ Len(<<f, h>> \o t) = n + 1
    BY <1>4, <1>6
<1>8. \A i \in 1 .. n + 1 : (<<f, h>> \o t)[i] = IF i <= 2 THEN <<f, h>>[i] ELSE t[i - 2]
    BY <1>4, <1>6
<1>9. \A i \in 1 .. n + 1 : (<<f, h>> \o t)[i] = (<<f>> \o todo)[i]
  <2> SUFFICES ASSUME NEW i \in 1 .. n + 1 PROVE (<<f, h>> \o t)[i] = (<<f>> \o todo)[i]
      OBVIOUS
  <2>0. i \in Nat /\ i >= 1
      BY <1>4
  <2>1. CASE i = 1
      BY <2>1, <1>5, <1>6, <1>8
  <2>2. CASE i = 2
      BY <2>2, <1>1, <1>5, <1>6, <1>8
  <2>3. CASE i > 2
    <3>0. PICK m : m = i - 2
        OBVIOUS
    <3>1. m \in 1 .. n - 1 /\ m + 1 = i - 1
        BY <2>0, <2>3, <3>0, <1>4
    <3>2. t[i - 2] = todo[i - 1]
      <4>1. t[m] = todo[m + 1]
          BY <3>1, <1>4
      <4> QED
          BY <3>0, <3>1, <4>1
    <3>3. (<<f, h>> \o t)[i] = t[i - 2]
      <4>1. PICK r : r = <<f, h>> \o t
          OBVIOUS
      <4>2. \A j \in 1 .. n + 1 : ~(j <= 2) => r[j] = t[j - 2]
          BY <4>1, <1>8
      <4>3. r[i] = t[i - 2]
          BY <2>0, <2>3, <4>2
      <4> QED
          BY <4>1, <4>3
    <3>4. (<<f>> \o todo)[i] = todo[i - 1]
        BY <2>0, <2>3, <1>5
    <3> QED
        BY <3>2, <3>3, <3>4
  <2>4. i = 1 \/ i = 2 \/ i > 2
      BY <2>0
  <2> QED
      BY <2>1, <2>2, <2>3, <2>4
<1>10. <<f, h>> \o t = <<f>> \o todo
    BY <1>5, <1>7, <1>9, SeqEqual
<1>11. todo' = <<f, h>> \o t
    BY <1>1, <1>10 DEF Flush
<1>12. <<f, h>> \in Seq(Entries(<<f, h>>))
    BY <1>6, OwnEntries
<1> QED
    BY <1>1, <1>11, <1>12 DEF Replaced

\* After an entry that does not wait.
LEMMA BusyShape ==
    ASSUME CallShape, NEW es, Replaced(es), todo[1].f \notin Waiting \cup {"write"},
           \A k \in 1 .. Len(es) : EntryFits(es[k]) /\ (Guarded(k) /\ Gathers(k) /\ Marks(k))'
    PROVE  CallShape'
<1>1. \A k \in 2 .. Len(todo) : Guarded(Shifted(es, k))'
    BY BusyGuards
<1>2. ASSUME NEW k \in 2 .. Len(todo) PROVE (Gathers(Shifted(es, k)) /\ Marks(Shifted(es, k)))'
    BY LaterOthers DEF Waiting
<1> QED
    BY <1>1, <1>2, ReplacedShape

LEMMA BusyReturn ==
    ASSUME CallShape, todo # <<>>, Return, todo[1].f \notin Waiting \cup {"write"}
    PROVE  CallShape'
<1>1. Replaced(<<>>)
    BY ReturnReplaces
<1>2. Len(<<>>) = 0
    BY None
<1> QED
    BY <1>1, <1>2, BusyShape

LEMMA MarkedLater ==
    ASSUME CallShape, NEW es, Replaced(es), held' = held,
           NEW k \in 2 .. Len(todo), NEW c, Marked(k, c),
           \/ todo[1].f \notin {"spin", "wait_mark"}
           \/ todo[1].f = "wait_mark" /\ todo[1].mark # held.mark
           \/ \E n \in 1 .. Len(es) : es[n].f = "spin"
    PROVE  Marked(Shifted(es, k), c)'
<1>1. Len(es) \in Nat /\ Len(todo) \in Nat
    BY Places
<1>2. PICK j \in 1 .. k - 1 : \/ todo[j].f = "spin"
                              \/ todo[j].f = "wait_mark" /\ todo[j].mark = held.mark
    BY DEF Marked
<1>3. CASE j # 1
  <2>1. j \in 2 .. Len(todo) /\ Shifted(es, j) \in 1 .. Shifted(es, k) - 1
      BY <1>1, <1>3 DEF Shifted
  <2>2. todo'[Shifted(es, j)] = todo[j]
      BY <2>1, Places
  <2> QED
      BY <2>1, <2>2, <1>2 DEF Marked
<1>4. CASE j = 1
  <2>1. PICK n \in 1 .. Len(es) : es[n].f = "spin"
      BY <1>2, <1>4
  <2>2. n \in 1 .. Shifted(es, k) - 1
      BY <1>1 DEF Shifted
  <2>3. todo'[n] = es[n]
      BY Places
  <2> QED
      BY <2>1, <2>2, <2>3 DEF Marked
<1> QED
    BY <1>3, <1>4

\* After an entry that waits, for nothing less than the later ones need.
LEMMA WaitShape ==
    ASSUME CallShape, NEW es, Replaced(es), todo[1].f \in Waiting,
           \A k \in 1 .. Len(es) : "f" \in DOMAIN es[k] /\ es[k].f \in Plain,
           \/ Pending' = {}
           \/ /\ Pending' = Pending /\ held' = held /\ todo[1].f \notin {"flush", "fence"}
              /\ \/ \A c \in held.clean, a \in Pending : c \notin a.writes
                 \/ todo[1].f \notin {"spin", "wait_mark"}
                 \/ todo[1].f = "wait_mark" /\ todo[1].mark # held.mark
                 \/ \E n \in 1 .. Len(es) : es[n].f = "spin"
           \/ \E n \in 1 .. Len(es) : es[n].f = "flush",
           todo[1].f = "wait_mark" => UNCHANGED <<seq, mark>> /\ (es # <<>> => mark.pending)
    PROVE  CallShape'
<1>1. \A m \in 1 .. Len(es) : es[m].f \in Waiting
    BY DEF Plain, Waiting
<1>2. \A k \in 1 .. Len(es) : EntryFits(es[k]) /\ (Guarded(k) /\ Gathers(k) /\ Marks(k))'
    BY PlainFits
<1>3. ASSUME NEW k \in 2 .. Len(todo), todo[k].f \in Guards PROVE Guarded(Shifted(es, k))'
  <2>0. PICK e : e = todo[k]
      OBVIOUS
  <2>1. todo'[Shifted(es, k)] = e /\ Len(es) \in Nat /\ Len(todo) \in Nat
      BY <2>0, Places
  <2>2. \/ Settles(Shifted(es, k))'
        \/ /\ Calm(Shifted(es, k))'
           /\ \/ todo[1].f \in {"flush", "fence"}
              \/ Ready(e)
              \/ e.f = "read" /\ Marked(k, e.cell)
      BY <1>1, <1>3, <2>0, WaitingGuards
  <2>3. CASE Settles(Shifted(es, k))'
      BY <2>3 DEF Guarded
  <2>4. CASE Calm(Shifted(es, k))' /\ Ready(e)'
      BY <2>1, <2>4 DEF Guarded
  <2>5. CASE Calm(Shifted(es, k))' /\ e.f = "read" /\ Marked(Shifted(es, k), e.cell)'
      BY <2>1, <2>5 DEF Guarded
  <2>6. CASE Pending' = {}
    <3>1. Ready(e)'
        BY <2>6 DEF Ready
    <3> QED
        BY <3>1, <2>2, <2>3, <2>4
  <2>7. CASE \E n \in 1 .. Len(es) : es[n].f = "flush"
    <3>1. PICK n \in 1 .. Len(es) : es[n].f = "flush"
        BY <2>7
    <3>2. CASE Calm(Shifted(es, k))'
      <4>1. n \in 1 .. Shifted(es, k) - 1 /\ todo'[n].f = "flush"
          BY <2>1, <3>1, Places DEF Shifted
      <4>2. \A m \in n + 1 .. Shifted(es, k) - 1 : todo'[m].f \in Waiting
          BY <3>2, <4>1 DEF Calm
      <4> QED
          BY <4>1, <4>2, <2>3 DEF Settles
    <3> QED
        BY <3>2, <2>2, <2>3
  <2>8. CASE /\ Pending' = Pending /\ held' = held /\ todo[1].f \notin {"flush", "fence"}
             /\ \/ \A c \in held.clean, a \in Pending : c \notin a.writes
                \/ todo[1].f \notin {"spin", "wait_mark"}
                \/ todo[1].f = "wait_mark" /\ todo[1].mark # held.mark
                \/ \E n \in 1 .. Len(es) : es[n].f = "spin"
    <3>1. Ready(e) => Ready(e)'
        BY <2>8 DEF Ready
    <3>2. CASE Calm(Shifted(es, k))' /\ e.f = "read" /\ Marked(k, e.cell)
      <4>1. CASE \A c \in held.clean, a \in Pending : c \notin a.writes
        <5>1. Ready(e)
            BY <3>2, <4>1 DEF Ready, Marked
        <5> QED
            BY <5>1, <3>1, <3>2, <2>4
      <4>2. CASE \/ todo[1].f \notin {"spin", "wait_mark"}
                 \/ todo[1].f = "wait_mark" /\ todo[1].mark # held.mark
                 \/ \E n \in 1 .. Len(es) : es[n].f = "spin"
        <5>1. Marked(Shifted(es, k), e.cell)'
            BY <2>8, <3>2, <4>2, MarkedLater
        <5> QED
            BY <5>1, <3>2, <2>5
      <4> QED
          BY <2>8, <4>1, <4>2
    <3> QED
        BY <2>2, <2>3, <2>4, <2>8, <3>1, <3>2
  <2> QED
      BY <2>6, <2>7, <2>8
<1>4. ASSUME NEW k \in 2 .. Len(todo) PROVE Guarded(Shifted(es, k))'
  <2>1. todo'[Shifted(es, k)] = todo[k]
      BY Places
  <2> QED
      BY <2>1, <1>3 DEF Guarded, Guards
<1>5. ASSUME NEW k \in 2 .. Len(todo) PROVE Gathers(Shifted(es, k))' /\ Marks(Shifted(es, k))'
  <2>1. Gathers(Shifted(es, k))'
      BY LaterOthers DEF Waiting
  <2>2. CASE todo[1].f # "wait_mark"
      BY <2>1, <2>2, LaterOthers
  <2>3. CASE todo[1].f = "wait_mark"
    <3>1. todo'[Shifted(es, k)] = todo[k] /\ Marks(k) /\ k # 1
        BY Places DEF CallShape
    <3>2. todo[k].f \notin {"mark", "fence"}
        BY <3>1 DEF Marks
    <3>3. CASE todo[k].f = "set mark"
      <4>1. k = 2 /\ Len(todo) = 2 /\ ~mark.pending /\ seq.open
          BY <3>1, <3>3 DEF Marks
      <4>2. es = <<>>
          BY <4>1, <2>3
      <4>3. Len(es) = 0
          BY <4>2, None
      <4>4. Len(todo') = Len(es) + Len(todo) - 1
          BY Places
      <4>5. Shifted(es, k) = 1 /\ Len(todo') = 1
          BY <4>1, <4>3, <4>4 DEF Shifted
      <4> QED
          BY <2>1, <2>3, <3>1, <3>2, <4>1, <4>5 DEF Marks
    <3>4. CASE todo[k].f # "set mark"
        BY <2>1, <3>1, <3>2, <3>4 DEF Marks
    <3> QED
        BY <3>3, <3>4
  <2> QED
      BY <2>2, <2>3
<1> QED
    BY <1>2, <1>4, <1>5, ReplacedShape

-----------------------------------------------------------------------------
(* The host's steps: waits *)

LEMMA FirstEntry ==
    ASSUME Main, todo # <<>>
    PROVE  /\ Head(todo) = todo[1] /\ 1 \in DOMAIN todo
           /\ EntryFits(todo[1]) /\ Guarded(1) /\ Gathers(1) /\ Marks(1)
           /\ AtFence <=> todo[1].f = "fence"
<1>1. todo \in Seq(Entries(todo))
    BY DEF Main, CallShape
<1>2. Head(todo) = todo[1] /\ 1 \in DOMAIN todo
    BY <1>1
<1> QED
    BY <1>2 DEF Main, CallShape, AtFence

\* With no command submitted or open nothing is pending.
LEMMA ClosedIsEmpty ==
    ASSUME Data, ~seq.open, ~AtFence \/ gpu = <<>>
    PROVE  Pending = {}
<1>1. CASE ~AtFence
    BY <1>1 DEF Data, SequenceShape
<1>2. CASE gpu = <<>>
  <2>1. seq.batch = <<>>
      BY DEF Data, SequenceShape
  <2> QED
      BY <1>2, <2>1, None DEF Pending, CommandsOf
<1> QED
    BY <1>1, <1>2


\* The entries that only wait.
LEMMA PlainEntries ==
    /\ \A f \in Plain : "f" \in DOMAIN Entry(f) /\ Entry(f).f = f
    /\ "f" \in DOMAIN Cut /\ Cut.f = "cut"
    /\ \A m : "f" \in DOMAIN WaitMark(m) /\ WaitMark(m).f = "wait_mark" /\ WaitMark(m).mark = m
    /\ {"flush", "cut", "wait_mark", "flush mark", "spin", "roll"} \subseteq Plain
    BY DEF Entry, Cut, WaitMark, Plain

LEMMA OnePlain ==
    ASSUME NEW a, "f" \in DOMAIN a, a.f \in Plain, NEW es, es = <<a>>
    PROVE  /\ es \in Seq({a}) /\ Len(es) = 1 /\ es[1] = a
           /\ \A k \in 1 .. Len(es) : "f" \in DOMAIN es[k] /\ es[k].f \in Plain
<1>1. es \in Seq({a}) /\ Len(es) = 1 /\ es[1] = a
    BY OneEntry
<1>2. \A k \in 1 .. Len(es) : k = 1
    BY <1>1
<1> QED
    BY <1>1, <1>2

LEMMA ThreePlain ==
    ASSUME NEW a, "f" \in DOMAIN a, a.f \in Plain, NEW b, "f" \in DOMAIN b, b.f \in Plain,
           NEW c, "f" \in DOMAIN c, c.f \in Plain, NEW es, es = <<a, b, c>>
    PROVE  /\ es \in Seq({a, b, c}) /\ Len(es) = 3 /\ es[3] = c
           /\ \A k \in 1 .. Len(es) : "f" \in DOMAIN es[k] /\ es[k].f \in Plain
<1>1. es \in Seq({a, b, c}) /\ Len(es) = 3 /\ es[1] = a /\ es[2] = b /\ es[3] = c
    BY ThreeEntries
<1>2. \A k \in 1 .. Len(es) : k = 1 \/ k = 2 \/ k = 3
    BY <1>1
<1> QED
    BY <1>1, <1>2

LEMMA TwoAndOne ==
    ASSUME NEW a, NEW b, NEW c
    PROVE  <<a, b>> \o <<c>> = <<a, b, c>>
<1>1. PICK D, p, q, r : D = {a, b, c} /\ p = <<a, b>> /\ q = <<c>> /\ r = <<a, b, c>>
    OBVIOUS
<1>2. /\ p \in Seq(D) /\ Len(p) = 2 /\ p[1] = a /\ p[2] = b
      /\ q \in Seq(D) /\ Len(q) = 1 /\ q[1] = c
      /\ r \in Seq(D) /\ Len(r) = 3 /\ r[1] = a /\ r[2] = b /\ r[3] = c
  <2>1. a \in D /\ b \in D /\ c \in D
      BY <1>1
  <2> QED
      BY <1>1, <2>1
<1>3. p \o q \in Seq(D) /\ Len(p \o q) = Len(p) + Len(q)
  <2>1. p \in Seq(D) /\ q \in Seq(D)
      BY <1>2
  <2> QED
      BY <2>1, ConcatProperties
<1>4. \A i \in 1 .. Len(p) + Len(q) :
          (p \o q)[i] = IF i <= Len(p) THEN p[i] ELSE q[i - Len(p)]
    BY <1>2, ConcatProperties
<1>5. PICK t : t = p \o q
    OBVIOUS
<1>6. /\ t \in Seq(D) /\ Len(t) = 3
      /\ \A i \in 1 .. 3 : t[i] = IF i <= 2 THEN p[i] ELSE q[i - 2]
    BY <1>2, <1>3, <1>4, <1>5
<1>7. t[1] = a /\ t[2] = b /\ t[3] = c
  <2>1. t[1] = p[1] /\ t[2] = p[2] /\ t[3] = q[1]
      BY <1>6
  <2> QED
      BY <1>2, <2>1
<1>8. \A k \in 1 .. 3 : k = 1 \/ k = 2 \/ k = 3
    OBVIOUS
<1>9. t = r
    BY <1>2, <1>6, <1>7, <1>8, SeqEqual
<1> QED
    BY <1>1, <1>5, <1>9

LEMMA FlushIsPlain ==
    ASSUME NEW es, es = Flush
    PROVE  /\ es \in Seq({Entry("flush")}) /\ Len(es) = 1 /\ es[1] = Entry("flush")
           /\ \A k \in 1 .. Len(es) : "f" \in DOMAIN es[k] /\ es[k].f \in Plain
    BY ZenonT(60), PlainEntries, OnePlain DEF Flush

\* While nothing is lost, submissions succeed.
LEMMA NotLost ==
    ASSUME NEW ok \in BOOLEAN, Submit(ok), CountFields, count.lost = 0, count'.lost = 0
    PROVE  ok = TRUE
<1>1. CASE ~ok
  <2>1. count' = [count EXCEPT !.lost = @ + 1, !.unreported = TRUE]
      BY <1>1 DEF Submit
  <2>2. count'.lost = count.lost + 1
      BY <2>1 DEF CountFields
  <2> QED
      BY <2>2
<1> QED
    BY <1>1

LEMMA SpinKeeps == ASSUME Main, Spin PROVE Main'
<1>1. /\ todo # <<>> /\ Head(todo).f = "spin" /\ Return
      /\ UNCHANGED <<mem, gpu, xfer, tl, seq, ring, prog, held, answer, count>>
    BY DEF Spin, At
<1>2. todo[1].f = "spin" /\ ~AtFence
    BY <1>1, FirstEntry
<1>3. Data /\ MarkHeld /\ SequenceShape /\ CallShape
    BY DEF Main, Data
<1>4. \A c \in held.clean, a \in Pending : c \notin a.writes
  <2>1. event \/ ~mark.pending
      BY <1>3 DEF Spin, SequenceShape
  <2> QED
      BY <2>1, <1>3 DEF MarkHeld
<1>5. Pending' = Pending /\ BehindMark' = BehindMark
    BY <1>1 DEF Pending, BehindMark
<1>6. MarkHeld'
  <2>1. CASE mark.pending
    <3>1. event /\ event' = FALSE /\ mark' = [mark EXCEPT !.pending = FALSE]
        BY <2>1, <1>3 DEF Spin, SequenceShape
    <3>2. DOMAIN mark' = {"n", "pending", "inOpen"} /\ ~mark'.pending
        BY <3>1, <1>3 DEF MarkHeld
    <3> QED
        BY <3>1, <3>2, <1>1, <1>3, <1>4, <1>5 DEF MarkHeld
  <2>2. CASE ~mark.pending
      BY <2>2, <1>1, <1>3, <1>5 DEF MarkHeld, Spin
  <2> QED
      BY <2>1, <2>2
<1>7. RingsInUse'
    BY <1>1, <1>3, <1>5 DEF Data, RingsInUse
<1>8. Data'
    BY <1>1, <1>2, <1>3, <1>6, <1>7, StillData
<1>9. Replaced(<<>>) /\ Len(<<>>) = 0
    BY <1>1, <1>3, ReturnReplaces, None
<1>10. CallShape'
  <2>1. todo[1].f \in Waiting /\ todo[1].f \notin {"flush", "fence"} /\ todo[1].f # "wait_mark"
      BY <1>2 DEF Waiting
  <2> QED
      BY <2>1, <1>1, <1>3, <1>4, <1>5, <1>9, WaitShape
<1> QED
    BY <1>8, <1>10 DEF Main

LEMMA FlushMarkKeeps == ASSUME Main, FlushMark PROVE Main'
<1>1. /\ todo # <<>> /\ Head(todo).f = "flush mark" /\ Then(IF mark.inOpen THEN Flush ELSE <<>>)
      /\ UNCHANGED <<deviceVars, seq, mark, ring, prog, held, answer, count>>
    BY DEF FlushMark, At
<1>2. todo[1].f = "flush mark" /\ ~AtFence
    BY <1>1, FirstEntry
<1>3. Data /\ CallShape
    BY DEF Main
<1>4. Data' /\ Pending' = Pending
    BY <1>1, <1>2, <1>3, QuietData DEF deviceVars
<1>5. PICK es : es = (IF mark.inOpen THEN Flush ELSE <<>>)
    OBVIOUS
<1>6. /\ \E E : es \in Seq(E)
      /\ \A k \in 1 .. Len(es) : "f" \in DOMAIN es[k] /\ es[k].f \in Plain
  <2>1. CASE mark.inOpen
      BY <2>1, <1>5, FlushIsPlain
  <2>2. CASE ~mark.inOpen
    <3>1. es = <<>> /\ es \in Seq(Entries(es)) /\ Len(es) = 0
        BY <2>2, <1>5, None DEF Listed
    <3> QED
        BY <3>1
  <2> QED
      BY <2>1, <2>2
<1>7. Replaced(es)
    BY <1>1, <1>3, <1>5, <1>6, ThenReplaces
<1>8. CallShape'
  <2>1. /\ todo[1].f \in Waiting /\ todo[1].f \notin {"flush", "fence"}
        /\ todo[1].f \notin {"spin", "wait_mark"}
      BY <1>2 DEF Waiting
  <2> QED
      BY <2>1, <1>1, <1>3, <1>4, <1>6, <1>7, WaitShape
<1> QED
    BY <1>4, <1>8 DEF Main

LEMMA WaitMarkKeeps == ASSUME Main, WaitMarkBegin PROVE Main'
<1>1. /\ todo # <<>> /\ Head(todo).f = "wait_mark"
      /\ UNCHANGED <<deviceVars, seq, mark, ring, prog, held, answer, count>>
    BY DEF WaitMarkBegin, At
<1>2. todo[1].f = "wait_mark" /\ ~AtFence /\ Arg = todo[1]
    BY <1>1, FirstEntry DEF Arg
<1>3. Data /\ CallShape /\ MarkHeld
    BY DEF Main, Data
<1>4. Data' /\ Pending' = Pending
    BY <1>1, <1>2, <1>3, QuietData DEF deviceVars
<1>5. todo[1].f \in Waiting /\ todo[1].f \notin {"flush", "fence"}
    BY <1>2 DEF Waiting
<1>6. CASE ~mark.pending \/ Arg.mark # mark.n
  <2>1. Replaced(<<>>) /\ Len(<<>>) = 0
      BY <1>1, <1>3, <1>6, ReturnReplaces, None DEF WaitMarkBegin
  <2>2. \/ \A c \in held.clean, a \in Pending : c \notin a.writes
        \/ todo[1].f = "wait_mark" /\ todo[1].mark # held.mark
      BY <1>2, <1>3, <1>6 DEF MarkHeld
  <2>3. CallShape'
      BY <2>1, <2>2, <1>1, <1>2, <1>3, <1>4, <1>5, WaitShape
  <2> QED
      BY <2>3, <1>4 DEF Main
<1>7. CASE ~(~mark.pending \/ Arg.mark # mark.n)
  <2>1. PICK es : es = (IF mark.inOpen THEN <<Cut, Entry("flush mark")>> ELSE <<>>)
                       \o <<Entry("spin")>>
      OBVIOUS
  <2>2. \/ es = <<Cut, Entry("flush mark"), Entry("spin")>>
        \/ es = <<Entry("spin")>>
    <3>1. PICK a, b, c : a = Cut /\ b = Entry("flush mark") /\ c = Entry("spin")
        OBVIOUS
    <3>2. <<a, b>> \o <<c>> = <<a, b, c>> /\ <<>> \o <<c>> = <<c>>
      <4>1. <<>> \o <<c>> = <<c>>
          OBVIOUS
      <4> QED
          BY <4>1, TwoAndOne
    <3>3. es = (IF mark.inOpen THEN <<a, b>> ELSE <<>>) \o <<c>>
        BY <2>1, <3>1
    <3>4. es = <<a, b, c>> \/ es = <<c>>
        BY <3>2, <3>3
    <3> QED
        BY <3>1, <3>4
  <2>3. /\ \E E : es \in Seq(E)
        /\ \A k \in 1 .. Len(es) : "f" \in DOMAIN es[k] /\ es[k].f \in Plain
        /\ \E n \in 1 .. Len(es) : es[n].f = "spin"
    <3>1. CASE es = <<Entry("spin")>>
      <4>1. /\ Entry("spin").f = "spin" /\ "f" \in DOMAIN Entry("spin")
            /\ Entry("spin").f \in Plain
          BY PlainEntries DEF Plain
      <4>2. PICK a : a = Entry("spin")
          OBVIOUS
      <4>3. /\ es \in Seq({a}) /\ Len(es) = 1 /\ es[1] = a
            /\ \A k \in 1 .. Len(es) : "f" \in DOMAIN es[k] /\ es[k].f \in Plain
          BY <4>1, <4>2, <3>1, OnePlain
      <4>4. 1 \in 1 .. Len(es) /\ es[1].f = "spin"
          BY <4>1, <4>2, <4>3
      <4> QED
          BY <4>3, <4>4
    <3>2. CASE es = <<Cut, Entry("flush mark"), Entry("spin")>>
      <4>1. PICK a, b, c : a = Cut /\ b = Entry("flush mark") /\ c = Entry("spin")
          OBVIOUS
      <4>2. /\ c.f = "spin" /\ "f" \in DOMAIN a /\ a.f \in Plain
            /\ "f" \in DOMAIN b /\ b.f \in Plain /\ "f" \in DOMAIN c /\ c.f \in Plain
          BY <4>1, PlainEntries DEF Plain
      <4>3. /\ es \in Seq({a, b, c}) /\ Len(es) = 3 /\ es[3] = c
            /\ \A k \in 1 .. Len(es) : "f" \in DOMAIN es[k] /\ es[k].f \in Plain
          BY ZenonT(60), <4>1, <4>2, <3>2, ThreePlain
      <4>4. 3 \in 1 .. Len(es) /\ es[3].f = "spin"
          BY <4>2, <4>3
      <4> QED
          BY <4>3, <4>4
    <3> QED
        BY <2>2, <3>1, <3>2
  <2>4. Replaced(es)
      BY <1>1, <1>3, <1>7, <2>1, <2>3, ThenReplaces DEF WaitMarkBegin
  <2>5. CallShape'
      BY <2>3, <2>4, <1>1, <1>2, <1>3, <1>4, <1>5, <1>7, WaitShape
  <2> QED
      BY <2>5, <1>4 DEF Main
<1> QED
    BY <1>6, <1>7

LEMMA RollKeeps ==
    ASSUME Main, Roll, CountFields, count.lost = 0, count'.lost = 0
    PROVE  Main'
<1>1. todo # <<>> /\ Head(todo).f = "roll" /\ Return /\ held' = held
    BY DEF Roll, At, RollSubmit
<1>2. todo[1].f = "roll" /\ ~AtFence
    BY <1>1, FirstEntry
<1>3. Data /\ CallShape
    BY DEF Main
<1>4. Data' /\ Pending' = Pending
  <2>1. CASE CanRoll(Arg.ring)
    <3>1. PICK ok \in BOOLEAN : RollSubmit(ok)
        BY <2>1 DEF Roll
    <3>2. ok = TRUE
        BY <3>1, NotLost DEF RollSubmit
    <3> QED
        BY <3>1, <3>2, <1>2, <1>3, RollData
  <2>2. CASE ~CanRoll(Arg.ring)
      BY <2>2, <1>2, <1>3, QuietData DEF Roll, deviceVars
  <2> QED
      BY <2>1, <2>2
<1>5. Replaced(<<>>) /\ Len(<<>>) = 0
    BY <1>1, <1>3, ReturnReplaces, None
<1>6. CallShape'
  <2>1. /\ todo[1].f \in Waiting /\ todo[1].f \notin {"flush", "fence"}
        /\ todo[1].f \notin {"spin", "wait_mark"}
      BY <1>2 DEF Waiting
  <2> QED
      BY <2>1, <1>1, <1>3, <1>4, <1>5, WaitShape
<1> QED
    BY <1>4, <1>6 DEF Main

LEMMA CutKeeps ==
    ASSUME Main, SeqCut, CountFields, count.lost = 0, count'.lost = 0
    PROVE  Main'
<1>1. todo # <<>> /\ Head(todo).f = "cut" /\ held' = held
    BY DEF SeqCut, At, RollSubmit
<1>2. todo[1].f = "cut" /\ ~AtFence
    BY <1>1, FirstEntry
<1>3. Data /\ CallShape
    BY DEF Main
<1>4. Data' /\ Pending' = Pending
  <2>1. CASE \E ok \in BOOLEAN : RollSubmit(ok)
    <3>1. PICK ok \in BOOLEAN : RollSubmit(ok)
        BY <2>1
    <3>2. ok = TRUE
        BY <3>1, NotLost DEF RollSubmit
    <3> QED
        BY <3>1, <3>2, <1>2, <1>3, RollData
  <2>2. CASE UNCHANGED <<deviceVars, seq, mark, ring, prog, held, answer, count>>
      BY <2>2, <1>2, <1>3, QuietData DEF deviceVars
  <2> QED
      BY <2>1, <2>2 DEF SeqCut
<1>5. \/ todo' = Tail(todo)
      \/ Then(Flush)
    BY DEF SeqCut, Return
<1>6. /\ todo[1].f \in Waiting /\ todo[1].f \notin {"flush", "fence"}
      /\ todo[1].f \notin {"spin", "wait_mark"}
    BY <1>2 DEF Waiting
<1>7. CASE Return
  <2>1. Replaced(<<>>) /\ Len(<<>>) = 0
      BY <1>1, <1>3, <1>7, ReturnReplaces, None
  <2>2. CallShape'
      BY <2>1, <1>1, <1>3, <1>4, <1>6, WaitShape
  <2> QED
      BY <2>2, <1>4 DEF Main
<1>8. CASE Then(Flush)
  <2>1. PICK es : es = Flush
      OBVIOUS
  <2>2. /\ es \in Seq({Entry("flush")})
        /\ \A k \in 1 .. Len(es) : "f" \in DOMAIN es[k] /\ es[k].f \in Plain
      BY <2>1, FlushIsPlain
  <2>3. Replaced(es)
      BY <1>1, <1>3, <1>8, <2>1, <2>2, ThenReplaces
  <2>5. CallShape'
      BY <2>2, <2>3, <1>1, <1>3, <1>4, <1>6, WaitShape
  <2> QED
      BY <2>5, <1>4 DEF Main
<1> QED
    BY <1>5, <1>7, <1>8 DEF Return

-----------------------------------------------------------------------------
(* The host's steps: flushes and marks *)

\* An entry that waits, with nothing left pending behind it.
LEMMA EmptyReturn ==
    ASSUME CallShape, todo # <<>>, Return, todo[1].f \in Waiting, todo[1].f # "wait_mark",
           Pending' = {}
    PROVE  CallShape'
<1>1. Replaced(<<>>) /\ Len(<<>>) = 0
    BY ReturnReplaces, None
<1> QED
    BY <1>1, WaitShape

LEMMA FenceKeeps == ASSUME Main, AwaitFence PROVE Main'
<1>1. /\ todo # <<>> /\ Head(todo).f = "fence" /\ Return /\ gpu = <<>>
      /\ UNCHANGED <<deviceVars, seq, mark, ring, prog, held, answer, count>>
    BY DEF AwaitFence, At, ComputeIdle
<1>2. todo[1].f = "fence" /\ ~seq.open
    BY <1>1, FirstEntry DEF Marks
<1>3. Data /\ CallShape
    BY DEF Main
<1>4. Pending = {}
    BY <1>1, <1>2, <1>3, ClosedIsEmpty
<1>5. Data' /\ Pending' = {}
    BY <1>1, <1>3, <1>4, QuietData DEF deviceVars
<1>6. CallShape'
    BY <1>1, <1>2, <1>3, <1>5, EmptyReturn DEF Waiting
<1> QED
    BY <1>5, <1>6 DEF Main

LEMMA RingsKeep == ASSUME Main, ResetRings PROVE Main'
<1>1. /\ todo # <<>> /\ Head(todo).f = "rings" /\ Return
      /\ ring' = [ring EXCEPT !.x = 0, !.u = 0]
      /\ UNCHANGED <<deviceVars, seq, mark, prog, held, answer, count>>
    BY DEF ResetRings, At
<1>2. todo[1].f = "rings" /\ ~AtFence /\ Guarded(1)
    BY <1>1, FirstEntry
<1>3. Data /\ CallShape /\ RingsInUse /\ MarkHeld
    BY DEF Main, Data
<1>4. Pending = {}
    BY <1>2 DEF Guarded, Settles, Ready
<1>5. Pending' = Pending /\ BehindMark' = BehindMark
    BY <1>1 DEF Pending, BehindMark, deviceVars
<1>6. RingsInUse'
  <2>1. DOMAIN ring' = {"x", "u"} /\ ring'.x = 0 /\ ring'.u = 0
      BY <1>1, <1>3 DEF RingsInUse
  <2>2. 0 \in 0 .. XCap /\ 0 \in 0 .. UCap
      BY SequenceAssumption
  <2> QED
      BY <2>1, <2>2, <1>4, <1>5 DEF RingsInUse
<1>7. MarkHeld'
    BY <1>1, <1>3, <1>5 DEF MarkHeld, deviceVars
<1>8. Data'
    BY <1>1, <1>2, <1>3, <1>6, <1>7, StillData DEF deviceVars
<1>9. CallShape'
    BY <1>1, <1>2, <1>3, <1>4, <1>5, EmptyReturn DEF Waiting
<1> QED
    BY <1>8, <1>9 DEF Main

LEMMA OneAndTwo ==
    ASSUME NEW a, NEW b, NEW c
    PROVE  <<a>> \o <<b, c>> = <<a, b, c>>
<1>1. PICK D, p, q, r : D = {a, b, c} /\ p = <<a>> /\ q = <<b, c>> /\ r = <<a, b, c>>
    OBVIOUS
<1>2. /\ p \in Seq(D) /\ Len(p) = 1 /\ p[1] = a
      /\ q \in Seq(D) /\ Len(q) = 2 /\ q[1] = b /\ q[2] = c
      /\ r \in Seq(D) /\ Len(r) = 3 /\ r[1] = a /\ r[2] = b /\ r[3] = c
  <2>1. a \in D /\ b \in D /\ c \in D
      BY <1>1
  <2> QED
      BY <1>1, <2>1
<1>3. p \o q \in Seq(D) /\ Len(p \o q) = Len(p) + Len(q)
  <2>1. p \in Seq(D) /\ q \in Seq(D)
      BY <1>2
  <2> QED
      BY <2>1, ConcatProperties
<1>4. \A i \in 1 .. Len(p) + Len(q) :
          (p \o q)[i] = IF i <= Len(p) THEN p[i] ELSE q[i - Len(p)]
    BY <1>2, ConcatProperties
<1>5. PICK t : t = p \o q
    OBVIOUS
<1>6. /\ t \in Seq(D) /\ Len(t) = 3
      /\ \A i \in 1 .. 3 : t[i] = IF i <= 1 THEN p[i] ELSE q[i - 1]
    BY <1>2, <1>3, <1>4, <1>5
<1>7. t[1] = a /\ t[2] = b /\ t[3] = c
  <2>1. t[1] = p[1] /\ t[2] = q[1] /\ t[3] = q[2]
      BY <1>6
  <2> QED
      BY <1>2, <2>1
<1>8. \A k \in 1 .. 3 : k = 1 \/ k = 2 \/ k = 3
    OBVIOUS
<1>9. t = r
    BY <1>2, <1>6, <1>7, <1>8, SeqEqual
<1> QED
    BY <1>1, <1>5, <1>9

\* The rest of a flush: the fence first, then the mark and the rings.
LEMMA FencedShape ==
    ASSUME CallShape, NEW a, NEW b, NEW c, NEW es, es = <<a, b, c>>, Replaced(es),
           todo[1].f = "flush", ~seq'.open,
           "f" \in DOMAIN a, a.f = "fence", "f" \in DOMAIN b, b.f = "wait_mark",
           "f" \in DOMAIN c, c.f = "rings"
    PROVE  CallShape' /\ AtFence'
<1>1. Len(es) = 3 /\ es[1] = a /\ es[2] = b /\ es[3] = c
    BY ThreeEntries
<1>2. /\ todo'[1] = a /\ todo'[2] = b /\ todo'[3] = c
      /\ todo' \in Seq(Entries(todo')) /\ Len(todo') = Len(todo) + 2 /\ Len(todo) \in Nat \ {0}
  <2>1. /\ \A k \in 1 .. Len(es) : todo'[k] = es[k]
        /\ todo' \in Seq(Entries(todo')) /\ Len(todo') = Len(es) + Len(todo) - 1
        /\ Len(todo) \in Nat \ {0}
      BY Places
  <2>2. 1 \in 1 .. Len(es) /\ 2 \in 1 .. Len(es) /\ 3 \in 1 .. Len(es)
      BY <1>1
  <2> QED
      BY <1>1, <2>1, <2>2
<1>3. AtFence'
    BY <1>2 DEF AtFence
<1>4. \A m \in 1 .. Len(es) : es[m].f \in Waiting
  <2>1. \A m \in 1 .. Len(es) : m = 1 \/ m = 2 \/ m = 3
      BY <1>1
  <2>2. a.f \in Waiting /\ b.f \in Waiting /\ c.f \in Waiting
      BY DEF Waiting
  <2> QED
      BY <1>1, <2>1, <2>2
<1>5. EntryFits(a) /\ (Guarded(1) /\ Gathers(1) /\ Marks(1))'
    BY <1>2 DEF EntryFits, Guarded, Gathers, Marks, UsesUpload
<1>6. EntryFits(b) /\ (Guarded(2) /\ Gathers(2) /\ Marks(2))'
    BY <1>2 DEF EntryFits, Guarded, Gathers, Marks, UsesUpload
<1>7. EntryFits(c) /\ (Guarded(3) /\ Gathers(3) /\ Marks(3))'
  <2>1. Calm(3)'
    <3>1. \A m \in 1 .. 3 - 1 : m = 1 \/ m = 2
        OBVIOUS
    <3>2. a.f \in Waiting /\ b.f \in Waiting
        BY DEF Waiting
    <3> QED
        BY <1>2, <3>1, <3>2 DEF Calm
  <2>2. Guarded(3)'
      BY <2>1, <1>3 DEF Guarded
  <2>3. EntryFits(c) /\ (Gathers(3) /\ Marks(3))'
      BY <1>2 DEF EntryFits, Gathers, Marks, UsesUpload
  <2> QED
      BY <2>2, <2>3
<1>8. \A k \in 1 .. Len(es) : EntryFits(es[k]) /\ (Guarded(k) /\ Gathers(k) /\ Marks(k))'
  <2>1. \A k \in 1 .. Len(es) : k = 1 \/ k = 2 \/ k = 3
      BY <1>1
  <2> QED
      BY <2>1, <1>1, <1>5, <1>6, <1>7
<1>9. ASSUME NEW k \in 2 .. Len(todo)
      PROVE  Guarded(Shifted(es, k))' /\ (Gathers(Shifted(es, k)) /\ Marks(Shifted(es, k)))'
  <2>1. (Gathers(Shifted(es, k)) /\ Marks(Shifted(es, k)))'
      BY LaterOthers
  <2>2. CASE todo[k].f \in Guards
    <3>1. Settles(Shifted(es, k))' \/ Calm(Shifted(es, k))'
        BY <2>2, <1>4, WaitingGuards DEF Waiting
    <3>2. Shifted(es, k) > 1
        BY <1>1, <1>2 DEF Shifted
    <3> QED
        BY <2>1, <3>1, <3>2, <1>3 DEF Guarded
  <2>3. CASE todo[k].f \notin Guards
    <3>1. todo'[Shifted(es, k)] = todo[k]
        BY Places
    <3> QED
        BY <2>1, <2>3, <3>1 DEF Guarded, Guards
  <2> QED
      BY <2>2, <2>3
<1>10. CallShape'
    BY <1>8, <1>9, ReplacedShape
<1> QED
    BY <1>3, <1>10

LEMMA FlushKeeps ==
    ASSUME Main, SeqFlush, CountFields, count.lost = 0, count'.lost = 0
    PROVE  Main'
<1>1. todo # <<>> /\ Head(todo).f = "flush" /\ UNCHANGED <<mem, event, ring, held>>
    BY DEF SeqFlush, At
<1>2. todo[1].f = "flush" /\ ~AtFence
    BY <1>1, FirstEntry
<1>3. Data /\ CallShape /\ SequenceShape
    BY DEF Main, Data
<1>4. CASE ~seq.open
  <2>1. Return /\ UNCHANGED <<gpu, seq, mark, prog, count>>
      BY <1>4 DEF SeqFlush
  <2>2. Pending = {}
      BY <1>2, <1>3, <1>4, ClosedIsEmpty
  <2>3. Data' /\ Pending' = {}
      BY <1>1, <1>2, <1>3, <2>1, <2>2, QuietData
  <2>4. CallShape'
      BY <1>1, <1>2, <1>3, <2>1, <2>3, EmptyReturn DEF Waiting
  <2> QED
      BY <2>3, <2>4 DEF Main
<1>5. CASE seq.open
  <2>1. PICK ok \in BOOLEAN :
            /\ Submit(ok) /\ seq' = Closed(seq, ok) /\ mark' = [mark EXCEPT !.inOpen = FALSE]
            /\ Then((IF ok THEN <<Entry("fence")>> ELSE <<>>) \o <<WaitMark(mark.n), Entry("rings")>>)
      BY <1>5 DEF SeqFlush
  <2>2. ok = TRUE
      BY <2>1, NotLost
  <2>3. gpu' = gpu \o seq.batch /\ UNCHANGED <<prog, count>>
      BY <1>3, <2>1, <2>2, AttachedBatch DEF Submit
  <2>4. /\ SequenceFields' /\ seq'.batch = <<>> /\ seq'.n = 0 /\ seq'.open = FALSE
        /\ seq'.dirty = <<>> /\ seq'.waitCopy = 0 /\ seq'.signalComp = 0 /\ ~seq'.failed
      BY <1>3, <2>1, <2>2 DEF SequenceShape, SequenceFields, Closed
  <2>5. PICK a, b, c : a = Entry("fence") /\ b = WaitMark(mark.n) /\ c = Entry("rings")
      OBVIOUS
  <2>6. PICK es : es = <<a, b, c>>
      OBVIOUS
  <2>7. Then(es)
    <3>1. <<a>> \o <<b, c>> = <<a, b, c>>
        BY OneAndTwo
    <3>2. Then(<<a>> \o <<b, c>>)
        BY <2>1, <2>2, <2>5
    <3> QED
        BY <3>1, <3>2, <2>6
  <2>8. Replaced(es)
    <3>1. es \in Seq({a, b, c})
        BY <2>6, ThreeEntries
    <3> QED
        BY <1>1, <1>3, <2>7, <3>1, ThenReplaces
  <2>9. /\ "f" \in DOMAIN a /\ a.f = "fence" /\ "f" \in DOMAIN b /\ b.f = "wait_mark"
        /\ "f" \in DOMAIN c /\ c.f = "rings"
      BY <2>5 DEF Entry, WaitMark
  <2>10. CallShape' /\ AtFence'
      BY <1>2, <1>3, <2>4, <2>6, <2>8, <2>9, FencedShape
  <2>11. Data'
      BY <1>1, <1>2, <1>3, <2>1, <2>3, <2>4, <2>10, SubmittedData
  <2> QED
      BY <2>10, <2>11 DEF Main
<1> QED
    BY <1>3, <1>4, <1>5 DEF SequenceShape

LEMMA MarkKeeps == ASSUME Main, SeqMark PROVE Main'
<1>1. /\ todo # <<>> /\ Head(todo).f = "mark"
      /\ UNCHANGED <<deviceVars, seq, mark, ring, prog, answer, count>>
    BY DEF SeqMark, At
<1>2. todo[1].f = "mark" /\ ~AtFence /\ Len(todo) = 1 /\ ~mark.pending
  <2>1. todo[1].f = "mark" /\ ~AtFence /\ Marks(1)
      BY <1>1, FirstEntry
  <2> QED
      BY <2>1 DEF Marks
<1>3. Data /\ CallShape /\ SequenceShape /\ MarkHeld /\ RingsInUse
    BY DEF Main, Data
<1>4. todo[1].f \notin Waiting \cup {"write"}
    BY <1>2 DEF Waiting
<1>5. CASE seq.open
  <2>1. Then(<<WaitMark(mark.n), Entry("set mark")>>) /\ held' = held
      BY <1>5 DEF SeqMark
  <2>2. Data'
      BY <1>1, <1>2, <1>3, <2>1, QuietData DEF deviceVars
  <2>3. PICK a, b, es : a = WaitMark(mark.n) /\ b = Entry("set mark") /\ es = <<a, b>>
      OBVIOUS
  <2>4. es \in Seq({a, b}) /\ Len(es) = 2 /\ es[1] = a /\ es[2] = b
      BY <2>3, TwoEntries
  <2>5. "f" \in DOMAIN a /\ a.f = "wait_mark" /\ "f" \in DOMAIN b /\ b.f = "set mark"
      BY <2>3 DEF WaitMark, Entry
  <2>6. Replaced(es)
      BY <1>1, <1>3, <2>1, <2>3, <2>4, ThenReplaces
  <2>7. todo'[1] = a /\ todo'[2] = b /\ Len(todo') = 2
      BY <1>2, <1>3, <2>4, <2>6, Places
  <2>8. EntryFits(a) /\ (Guarded(1) /\ Gathers(1) /\ Marks(1))'
      BY <2>5, <2>7 DEF EntryFits, Guarded, Gathers, Marks, UsesUpload
  <2>9. EntryFits(b) /\ (Guarded(2) /\ Gathers(2) /\ Marks(2))'
      BY <1>1, <1>2, <1>5, <2>5, <2>7 DEF EntryFits, Guarded, Gathers, Marks, UsesUpload
  <2>10. \A k \in 1 .. Len(es) : EntryFits(es[k]) /\ (Guarded(k) /\ Gathers(k) /\ Marks(k))'
    <3>1. \A k \in 1 .. Len(es) : k = 1 \/ k = 2
        BY <2>4
    <3> QED
        BY <3>1, <2>4, <2>8, <2>9
  <2>11. CallShape'
      BY <1>3, <1>4, <2>6, <2>10, BusyShape
  <2> QED
      BY <2>2, <2>11 DEF Main
<1>6. CASE ~seq.open
  <2>1. Return /\ held' = [mark |-> 0, clean |-> Tensors]
      BY <1>6 DEF SeqMark
  <2>2. Pending = {} /\ Pending' = {}
      BY <1>1, <1>2, <1>3, <1>6, ClosedIsEmpty DEF Pending, deviceVars
  <2>3. BehindMark' = {}
      BY <2>2 DEF BehindMark, Behind, Pending, CommandsOf
  <2>4. MarkHeld'
      BY <1>1, <1>2, <1>3, <2>1, <2>2, <2>3 DEF MarkHeld, deviceVars
  <2>5. RingsInUse'
      BY <1>1, <1>3, <2>2 DEF RingsInUse
  <2>6. Data'
      BY <1>1, <1>2, <1>3, <2>4, <2>5, StillData DEF deviceVars
  <2>7. CallShape'
      BY <1>1, <1>3, <1>4, <2>1, BusyReturn
  <2> QED
      BY <2>6, <2>7 DEF Main
<1> QED
    BY <1>3, <1>5, <1>6 DEF SequenceShape

LEMMA SetMarkKeeps == ASSUME Main, SetMark PROVE Main'
<1>1. /\ todo # <<>> /\ Head(todo).f = "set mark" /\ Return
      /\ seq' = [seq EXCEPT !.batch = Append(@, SetEvent)]
      /\ mark' = [n |-> mark.n + 1, pending |-> TRUE, inOpen |-> TRUE]
      /\ held' = [mark |-> mark.n + 1, clean |-> Tensors]
      /\ UNCHANGED <<deviceVars, ring, prog, answer, count>>
    BY DEF SetMark, At
<1>2. todo[1].f = "set mark" /\ ~AtFence /\ ~mark.pending /\ seq.open
  <2>1. todo[1].f = "set mark" /\ ~AtFence /\ Marks(1)
      BY <1>1, FirstEntry
  <2> QED
      BY <2>1 DEF Marks
<1>3. Data /\ CallShape /\ SequenceShape /\ MarkHeld /\ Memory
    BY DEF Main, Data
<1>4. /\ SequenceFields' /\ seq'.batch = Append(seq.batch, SetEvent)
      /\ seq'.n = seq.n /\ seq'.open = seq.open /\ seq'.dirty = seq.dirty
      /\ seq'.waitCopy = 0 /\ seq'.signalComp = 0 /\ ~seq'.failed
    BY <1>1, <1>3 DEF SequenceShape, SequenceFields
<1>5. "kind" \in DOMAIN SetEvent /\ IsEvent(SetEvent) /\ ~IsCommand(SetEvent)
    BY DEF SetEvent, IsEvent, IsCommand
<1>6. ~HasEvent(gpu) /\ ~HasEvent(seq.batch) /\ ~event
    BY <1>2, <1>3 DEF MarkHeld
<1>7. /\ Listed(seq'.batch) /\ CommandsOf(seq'.batch) = CommandsOf(seq.batch)
      /\ OneEvent(seq'.batch) /\ Behind(seq'.batch) \subseteq Behind(seq.batch)
      /\ Rising(seq.batch) => Rising(seq'.batch)
  <2>1. Listed(seq.batch) /\ OneEvent(seq.batch)
      BY <1>3 DEF SequenceShape, MarkHeld
  <2>2. PICK e, t : e = SetEvent /\ t = Append(seq.batch, e)
      OBVIOUS
  <2>3. "kind" \in DOMAIN e /\ IsEvent(e) /\ ~IsCommand(e) /\ seq'.batch = t
      BY <1>4, <1>5, <2>2
  <2>4. /\ Listed(t) /\ CommandsOf(t) = CommandsOf(seq.batch) /\ OneEvent(t)
        /\ Behind(t) \subseteq Behind(seq.batch) /\ (Rising(seq.batch) => Rising(t))
      BY <1>6, <2>1, <2>2, <2>3, AppendedEntry
  <2> QED
      BY <2>3, <2>4
<1>8. Pending' = Pending
    BY <1>1, <1>7 DEF Pending, deviceVars
<1>9. Memory'
  <2>1. InLine'
      BY <1>1, <1>3, <1>7 DEF Memory, InLine, deviceVars
  <2> QED
      BY <2>1, <1>1, <1>3, <1>8, SameMemory DEF deviceVars
<1>10. SequenceShape'
  <2>1. seq.n # 0
      BY <1>2, <1>3 DEF SequenceShape
  <2> QED
      BY <2>1, <1>1, <1>2, <1>3, <1>4, <1>7 DEF SequenceShape, deviceVars
<1>11. TableKnows'
  <2>1. count' = count /\ seq'.n = seq.n /\ seq'.dirty = seq.dirty
      BY <1>1, <1>4
  <2> QED
      BY <2>1, <1>3, <1>8 DEF Data, TableKnows, Barrier, InTable
<1>12. RingsInUse'
    BY <1>1, <1>3, <1>8 DEF Data, RingsInUse
<1>13. MarkHeld'
  <2>1. BehindMark' = {}
      BY <1>1, <1>6, <1>7 DEF BehindMark, Behind, HasEvent, deviceVars
  <2>2. /\ DOMAIN mark' = {"n", "pending", "inOpen"} /\ mark'.pending /\ mark'.n = mark.n + 1
        /\ DOMAIN held' = {"mark", "clean"} /\ held'.mark = mark.n + 1 /\ held'.clean = Tensors
      BY <1>1
  <2>3. ~HasEvent(gpu') /\ ~event' /\ OneEvent(gpu')
      BY <1>1, <1>3, <1>6 DEF deviceVars, MarkHeld
  <2> QED
      BY <2>1, <2>2, <2>3, <1>7 DEF MarkHeld
<1>14. Data'
    BY <1>9, <1>10, <1>11, <1>12, <1>13 DEF Data
<1>15. CallShape'
    BY <1>1, <1>2, <1>3, BusyReturn DEF Waiting
<1> QED
    BY <1>14, <1>15 DEF Main

-----------------------------------------------------------------------------
(* The host's steps: commands, rings and the host's own accesses *)

LEMMA NoEntries ==
    /\ <<>> \in Seq({}) /\ Len(<<>>) = 0
    BY None

LEMMA TwoPlaces ==
    ASSUME NEW es, Len(es) = 2
    PROVE  /\ 1 \in 1 .. Len(es) /\ 2 \in 1 .. Len(es)
           /\ \A k \in 1 .. Len(es) : k = 1 \/ k = 2
    OBVIOUS

Kept(b) == b.f \in {"dispatch", "stage x", "reserve u"}

\* The call starts with a flush now; its first entry needs nothing that a flush takes away.
LEMMA FlushedFirst ==
    ASSUME Main, NEW a, "f" \in DOMAIN a, a.f = "flush", NEW b, b = todo[1],
           NEW es, es = <<a, b>>, Replaced(es), Kept(b), ~UsesUpload(b)
    PROVE  CallShape'
<1>1. Data /\ CallShape
    BY DEF Main
<1>2. ~AtFence /\ EntryFits(todo[1]) /\ Gathers(1)
  <2>1. todo # <<>>
      BY DEF Replaced
  <2> QED
      BY <2>1, FirstEntry DEF Kept
<1>6. es \in Seq({a, b}) /\ Len(es) = 2 /\ es[1] = a /\ es[2] = b
    BY TwoEntries
<1>7. /\ todo'[1] = a /\ todo'[2] = b /\ Len(todo') = Len(todo) + 1 /\ Len(todo) \in Nat
  <2>1. /\ \A k \in 1 .. Len(es) : todo'[k] = es[k]
        /\ Len(todo') = Len(es) + Len(todo) - 1 /\ Len(todo) \in Nat
      BY <1>1, Places
  <2>2. 1 \in 1 .. Len(es) /\ 2 \in 1 .. Len(es)
      BY <1>6, TwoPlaces
  <2>3. todo'[1] = es[1] /\ todo'[2] = es[2]
      BY <2>1, <2>2
  <2>4. Len(todo') = 2 + Len(todo) - 1
      BY <1>6, <2>1
  <2> QED
      BY <1>6, <2>1, <2>3, <2>4
<1>8. "f" \in DOMAIN a /\ a.f = "flush" /\ a.f \in Plain
    BY DEF Plain
<1>9. EntryFits(a) /\ (Guarded(1) /\ Gathers(1) /\ Marks(1))'
    BY <1>7, <1>8 DEF EntryFits, Guarded, Gathers, Marks, UsesUpload
<1>10. b.f \in {"dispatch", "stage x", "reserve u"} /\ ~UsesUpload(b) /\ EntryFits(b)
    BY <1>2 DEF Kept
<1>11. (Guarded(2) /\ Gathers(2) /\ Marks(2))'
  <2>1. Guarded(2)' /\ Marks(2)'
      BY <1>7, <1>10 DEF Guarded, Marks
  <2>2. b.f = "reserve u" => Len(todo) = 1
      BY <1>2 DEF Gathers
  <2>3. ~UsesUpload(todo'[2])
      BY <1>7, <1>10
  <2>4. todo'[2].f = "reserve u" => Len(todo') = 2
    <3>1. Len(todo) = 1 => Len(todo) + 1 = 2
        OBVIOUS
    <3>2. Len(todo') = Len(todo) + 1 /\ todo'[2] = b
        BY <1>7
    <3> QED
        BY <2>2, <3>1, <3>2, Zenon
  <2> QED
      BY <2>1, <2>3, <2>4 DEF Gathers, UsesUpload
<1>12. \A k \in 1 .. Len(es) : EntryFits(es[k]) /\ (Guarded(k) /\ Gathers(k) /\ Marks(k))'
  <2>1. \A k \in 1 .. Len(es) : k = 1 \/ k = 2
      BY <1>6, TwoPlaces
  <2> QED
      BY <2>1, <1>6, <1>9, <1>10, <1>11
<1>13. todo[1].f \notin Waiting \cup {"write"}
    BY DEF Waiting, Kept
<1> QED
    BY <1>1, <1>12, <1>13, BusyShape

LEMMA FlushFirst ==
    ASSUME Main, todo # <<>>, todo' = Flush \o todo,
           UNCHANGED <<deviceVars, seq, mark, ring, prog, held, count>>,
           todo[1].f \in {"dispatch", "stage x", "reserve u"}, ~UsesUpload(todo[1])
    PROVE  Main'
<1>1. Data /\ CallShape /\ ~AtFence
    BY FirstEntry DEF Main
<1>2. Data'
    BY <1>1, QuietData DEF deviceVars
<1>3. PICK a, b, es : a = Entry("flush") /\ b = todo[1] /\ es = <<a, b>>
    OBVIOUS
<1>4. Replaced(es)
    BY <1>1, <1>3, FlushReplaces
<1>5. "f" \in DOMAIN a /\ a.f = "flush"
    BY <1>3 DEF Entry
<1>6. CallShape'
    BY <1>3, <1>4, <1>5, FlushedFirst DEF Kept
<1> QED
    BY <1>2, <1>6 DEF Main

\* What the entry of a command has in its place is recorded.
LEMMA CommandFits ==
    ASSUME Main, todo # <<>>, todo[1].f \in {"dispatch", "copy"}, CountFields, Record(todo[1]),
           UNCHANGED <<deviceVars, mark, ring>>
    PROVE  Data'
<1>1. Data /\ CallShape
    BY DEF Main
<1>2. ~AtFence /\ EntryFits(todo[1]) /\ Gathers(1)
    BY FirstEntry
<1>3. PICK a : a = todo[1]
    OBVIOUS
<1>4. /\ a.put = NoWeight /\ a.weight = <<>> /\ FiniteCells(a.in) /\ FiniteCells(a.out)
      /\ a.out \cap Uploads = {} /\ (a.f = "copy" => a.in \cap Uploads = {})
    BY <1>2, <1>3 DEF EntryFits
<1>5. ASSUME NEW i \in 0 .. UCap - 1, U(i) \in a.in PROVE i < ring.u
  <2>1. a.in \cap Uploads # {}
      BY <1>5 DEF Uploads
  <2>2. UsesUpload(a)
      BY <2>1, <1>3, <1>4 DEF UsesUpload
  <2> QED
      BY <2>2, <1>2, <1>3, <1>5 DEF Gathers
<1> QED
    BY <1>1, <1>2, <1>3, <1>4, <1>5, RecordData DEF deviceVars

LEMMA DispatchKeeps == ASSUME Main, DispatchAcc, CountFields PROVE Main'
<1>1. /\ todo # <<>> /\ Head(todo).f = "dispatch" /\ UNCHANGED <<deviceVars, mark, ring, answer>>
    BY DEF DispatchAcc, At
<1>2. todo[1].f = "dispatch" /\ Arg = todo[1] /\ Gathers(1)
    BY <1>1, FirstEntry DEF Arg
<1>3. Data /\ CallShape /\ SequenceShape
    BY DEF Main, Data
<1>4. CASE seq.n >= MaxDispatch
  <2>1. todo' = Flush \o todo /\ UNCHANGED <<seq, prog, held, count>>
      BY <1>4 DEF DispatchAcc
  <2>2. ~UsesUpload(todo[1])
    <3>1. seq.n \in Nat
        BY <1>3 DEF SequenceShape
    <3>2. ~(seq.n < MaxDispatch)
        BY <3>1, <1>4, SequenceAssumption
    <3> QED
        BY <3>2, <1>2 DEF Gathers
  <2> QED
      BY <1>1, <1>2, <2>1, <2>2, FlushFirst
<1>5. CASE ~(seq.n >= MaxDispatch)
  <2>1. Record(todo[1])
      BY <1>2, <1>5 DEF DispatchAcc
  <2>2. Data'
      BY <1>1, <1>2, <2>1, CommandFits
  <2>3. PICK a, es : /\ a = [f |-> "roll", ring |-> RollRing]
                     /\ es = (IF seq'.inCmd >= Rotate THEN <<a>> ELSE <<>>)
      OBVIOUS
  <2>4. Then(es)
      BY <2>3, <1>5 DEF DispatchAcc
  <2>5. /\ \E E : es \in Seq(E)
        /\ \A k \in 1 .. Len(es) : "f" \in DOMAIN es[k] /\ es[k].f \in Plain
    <3>1. CASE es = <<a>>
      <4>1. "f" \in DOMAIN a /\ a.f \in Plain
          BY <2>3 DEF Plain
      <4> QED
          BY <4>1, <3>1, OnePlain
    <3>2. CASE es = <<>>
      <4>1. es \in Seq({}) /\ Len(es) = 0
          BY <3>2, NoEntries
      <4> QED
          BY <4>1
    <3> QED
        BY <2>3, <3>1, <3>2
  <2>6. Replaced(es)
      BY <1>1, <1>3, <2>4, <2>5, ThenReplaces
  <2>7. \A k \in 1 .. Len(es) : EntryFits(es[k]) /\ (Guarded(k) /\ Gathers(k) /\ Marks(k))'
      BY <1>3, <2>5, <2>6, PlainFits
  <2>8. CallShape'
      BY <1>2, <1>3, <2>6, <2>7, BusyShape DEF Waiting
  <2> QED
      BY <2>2, <2>8 DEF Main
<1> QED
    BY <1>4, <1>5

LEMMA CopyKeeps == ASSUME Main, BufferCopy, CountFields PROVE Main'
<1>1. /\ todo # <<>> /\ Head(todo).f = "copy" /\ UNCHANGED <<deviceVars, mark, ring, answer>>
      /\ Record(Arg) /\ Return
    BY DEF BufferCopy, At
<1>2. todo[1].f = "copy" /\ Arg = todo[1]
    BY <1>1, FirstEntry DEF Arg
<1>3. Data'
    BY <1>1, <1>2, CommandFits
<1>4. CallShape'
    BY <1>1, <1>2, BusyReturn DEF Main, Waiting
<1> QED
    BY <1>3, <1>4 DEF Main

\* The places of the rings are no tensors, nor those of one ring the other's.
LEMMA RingPlaces ==
    /\ \A i \in 0 .. XCap - 1 : X(i) \in Cells \ Uploads
    /\ \A i \in 0 .. UCap - 1 : U(i) \in Cells /\ U(i) \in Uploads
    /\ \A i, j : U(i) = U(j) => i = j
    /\ Tensors \subseteq Cells \ Uploads
    BY SequenceAssumption DEF Uploads, X, U

LEMMA OneCell == \A c \in Cells : FiniteCells({c})
    BY FS_Singleton DEF FiniteCells
LEMMA TwoCells == ASSUME NEW c \in Cells, NEW d \in Cells PROVE FiniteCells({c, d})
<1>1. IsFiniteSet({c}) /\ IsFiniteSet({d})
    BY FS_Singleton
<1>2. IsFiniteSet({c} \cup {d})
    BY <1>1, FS_Union
<1>3. {c} \cup {d} = {c, d}
    OBVIOUS
<1> QED
    BY <1>2, <1>3 DEF FiniteCells

\* A kernel that reads no upload.
LEMMA DispatchFits ==
    ASSUME NEW in, NEW out, FiniteCells(in), FiniteCells(out), in \cap Uploads = {},
           out \cap Uploads = {}
    PROVE  /\ EntryFits(Dispatch(in, out)) /\ ~UsesUpload(Dispatch(in, out))
           /\ Dispatch(in, out).f = "dispatch"
    BY DEF EntryFits, UsesUpload, Dispatch, WeightDispatch

LEMMA CopyFits ==
    ASSUME NEW in, NEW out, FiniteCells(in), FiniteCells(out), in \cap Uploads = {},
           out \cap Uploads = {}
    PROVE  EntryFits(Copy(in, out, NoWeight)) /\ Copy(in, out, NoWeight).f = "copy"
    BY DEF EntryFits, Copy

\* An entry nothing is asked of.
LEMMA Unguarded ==
    ASSUME NEW k, NEW e, todo'[k] = e, ~UsesUpload(e),
           e.f \in {"dispatch", "copy", "gemm", "stage x"}
    PROVE  (Guarded(k) /\ Gathers(k) /\ Marks(k))'
    BY DEF Guarded, Gathers, Marks, UsesUpload

LEMMA StageKeeps == ASSUME Main, StageX PROVE Main'
<1>1. /\ todo # <<>> /\ Head(todo).f = "stage x"
      /\ UNCHANGED <<deviceVars, seq, mark, prog, held, answer, count>>
    BY DEF StageX, At
<1>2. todo[1].f = "stage x" /\ Arg = todo[1] /\ ~AtFence /\ EntryFits(todo[1])
    BY <1>1, FirstEntry DEF Arg
<1>3. Data /\ CallShape /\ RingsInUse /\ MarkHeld
    BY DEF Main, Data
<1>4. CASE ring.x >= XCap
  <2>1. todo' = Flush \o todo /\ UNCHANGED ring
      BY <1>4 DEF StageX
  <2>2. ~UsesUpload(todo[1])
      BY <1>2 DEF UsesUpload
  <2> QED
      BY <1>1, <1>2, <2>1, <2>2, FlushFirst
<1>5. CASE ~(ring.x >= XCap)
  <2>1. ring' = [ring EXCEPT !.x = @ + 1]
      BY <1>5 DEF StageX
  <2>2. ring.x \in 0 .. XCap - 1 /\ ring.x + 1 \in 0 .. XCap
      BY <1>3, <1>5, SequenceAssumption DEF RingsInUse
  <2>3. DOMAIN ring' = {"x", "u"} /\ ring'.x = ring.x + 1 /\ ring'.u = ring.u
      BY <1>3, <2>1 DEF RingsInUse
  <2>4. Pending' = Pending /\ BehindMark' = BehindMark
      BY <1>1 DEF Pending, BehindMark, deviceVars
  <2>5. RingsInUse'
      BY <1>3, <2>2, <2>3, <2>4 DEF RingsInUse
  <2>6. MarkHeld'
      BY <1>1, <1>3, <2>4 DEF MarkHeld, deviceVars
  <2>7. Data'
      BY <1>1, <1>2, <1>3, <2>5, <2>6, StillData DEF deviceVars
  <2>8. PICK x, y, c : x = Arg.x /\ y = Arg.y /\ c = X(ring.x)
      OBVIOUS
  <2>9. x \in Tensors /\ y \in Tensors /\ {x, y, c} \subseteq Cells \ Uploads
    <3>1. x \in Tensors /\ y \in Tensors
        BY <1>2, <2>8 DEF EntryFits
    <3> QED
        BY <3>1, <2>2, <2>8, RingPlaces
  <2>10. PICK a, b, es : /\ a = Copy({x}, {c}, NoWeight) /\ b = Gemm(c, y, Arg.w)
                         /\ es = <<a, b>>
      OBVIOUS
  <2>11. Then(es)
      BY <1>5, <2>8, <2>10 DEF StageX
  <2>12. EntryFits(a) /\ a.f = "copy" /\ ~UsesUpload(a)
    <3>1. FiniteCells({x}) /\ FiniteCells({c}) /\ {x} \cap Uploads = {} /\ {c} \cap Uploads = {}
        BY <2>9, OneCell
    <3>2. EntryFits(a) /\ a.f = "copy"
        BY <3>1, <2>10, CopyFits
    <3> QED
        BY <3>2 DEF UsesUpload
  <2>13. EntryFits(b) /\ b.f = "gemm" /\ ~UsesUpload(b)
      BY <2>9, <2>10 DEF Gemm, EntryFits, UsesUpload
  <2>14. es \in Seq({a, b}) /\ Len(es) = 2 /\ es[1] = a /\ es[2] = b
      BY <2>10, TwoEntries
  <2>15. Replaced(es)
      BY <1>1, <1>3, <2>11, <2>14, ThenReplaces
  <2>16. todo'[1] = a /\ todo'[2] = b
    <3>1. 1 \in 1 .. Len(es) /\ 2 \in 1 .. Len(es)
        BY <2>14
    <3> QED
        BY ZenonT(60), <3>1, <1>3, <2>14, <2>15, Places
  <2>17. (Guarded(1) /\ Gathers(1) /\ Marks(1))' /\ (Guarded(2) /\ Gathers(2) /\ Marks(2))'
      BY <2>12, <2>13, <2>16, Unguarded
  <2>18. \A k \in 1 .. Len(es) : EntryFits(es[k]) /\ (Guarded(k) /\ Gathers(k) /\ Marks(k))'
    <3>1. \A k \in 1 .. Len(es) : k = 1 \/ k = 2
        BY <2>14
    <3> QED
        BY <3>1, <2>12, <2>13, <2>14, <2>17
  <2>19. CallShape'
      BY <1>2, <1>3, <2>15, <2>18, BusyShape DEF Waiting
  <2> QED
      BY <2>7, <2>19 DEF Main
<1> QED
    BY <1>4, <1>5

LEMMA GemmKeeps == ASSUME Main, GemmResident PROVE Main'
<1>1. /\ todo # <<>> /\ Head(todo).f = "gemm" /\ Then(<<Dispatch({Arg.x}, {Arg.y})>>)
      /\ UNCHANGED <<deviceVars, seq, mark, ring, prog, held, answer, count>>
    BY DEF GemmResident, At
<1>2. todo[1].f = "gemm" /\ Arg = todo[1] /\ ~AtFence /\ EntryFits(todo[1])
    BY <1>1, FirstEntry DEF Arg
<1>3. Data /\ CallShape
    BY DEF Main
<1>4. Data'
    BY <1>1, <1>2, <1>3, QuietData DEF deviceVars
<1>5. PICK x, y : x = Arg.x /\ y = Arg.y
    OBVIOUS
<1>6. {x, y} \subseteq Cells \ Uploads
    BY <1>2, <1>5 DEF EntryFits
<1>7. PICK a, es : a = Dispatch({x}, {y}) /\ es = <<a>>
    OBVIOUS
<1>8. EntryFits(a) /\ ~UsesUpload(a) /\ a.f = "dispatch"
  <2>1. FiniteCells({x}) /\ FiniteCells({y}) /\ {x} \cap Uploads = {} /\ {y} \cap Uploads = {}
      BY <1>6, OneCell
  <2> QED
      BY <2>1, <1>7, DispatchFits
<1>9. es \in Seq({a}) /\ Len(es) = 1 /\ es[1] = a
    BY <1>7, OneEntry
<1>10. Replaced(es)
    BY <1>1, <1>3, <1>5, <1>7, <1>9, ThenReplaces
<1>11. todo'[1] = a
  <2>1. 1 \in 1 .. Len(es)
      BY <1>9
  <2> QED
      BY <2>1, <1>3, <1>9, <1>10, Places
<1>12. \A k \in 1 .. Len(es) : EntryFits(es[k]) /\ (Guarded(k) /\ Gathers(k) /\ Marks(k))'
  <2>1. \A k \in 1 .. Len(es) : k = 1
      BY <1>9
  <2>2. (Guarded(1) /\ Gathers(1) /\ Marks(1))'
      BY <1>8, <1>11, Unguarded
  <2> QED
      BY <2>1, <2>2, <1>8, <1>9
<1>13. CallShape'
    BY <1>2, <1>3, <1>10, <1>12, BusyShape DEF Waiting
<1> QED
    BY <1>4, <1>13 DEF Main

LEMMA ReserveKeeps == ASSUME Main, ReserveU PROVE Main'
<1>1. /\ todo # <<>> /\ Head(todo).f = "reserve u"
      /\ UNCHANGED <<deviceVars, seq, mark, prog, held, answer, count>>
    BY DEF ReserveU, At
<1>2. todo[1].f = "reserve u" /\ Arg = todo[1] /\ ~AtFence /\ EntryFits(todo[1]) /\ Len(todo) = 1
  <2>1. todo[1].f = "reserve u" /\ Arg = todo[1] /\ ~AtFence /\ EntryFits(todo[1]) /\ Gathers(1)
      BY <1>1, FirstEntry DEF Arg
  <2> QED
      BY <2>1 DEF Gathers
<1>3. Data /\ CallShape /\ RingsInUse /\ MarkHeld /\ SequenceShape
    BY DEF Main, Data
<1>4. CASE ring.u >= UCap \/ seq.n + 1 >= MaxDispatch
  <2>1. todo' = Flush \o todo /\ UNCHANGED ring
      BY <1>4 DEF ReserveU
  <2>2. ~UsesUpload(todo[1])
      BY <1>2 DEF UsesUpload
  <2> QED
      BY <1>1, <1>2, <2>1, <2>2, FlushFirst
<1>5. CASE ~(ring.u >= UCap \/ seq.n + 1 >= MaxDispatch)
  <2>0. PICK u : u = ring.u
      OBVIOUS
  <2>1. ring' = [ring EXCEPT !.u = @ + 1] /\ Then(Gather(U(u)))
      BY <1>5, <2>0 DEF ReserveU
  <2>2. u \in 0 .. UCap - 1 /\ u + 1 \in 0 .. UCap /\ u \in Nat
      BY <1>3, <1>5, <2>0, SequenceAssumption DEF RingsInUse
  <2>3. DOMAIN ring' = {"x", "u"} /\ ring'.u = u + 1 /\ ring'.x = ring.x
      BY <1>3, <2>0, <2>1 DEF RingsInUse
  <2>4. Pending' = Pending /\ BehindMark' = BehindMark
      BY <1>1 DEF Pending, BehindMark, deviceVars
  <2>5. RingsInUse'
      BY <1>3, <2>0, <2>2, <2>3, <2>4 DEF RingsInUse
  <2>6. MarkHeld'
      BY <1>1, <1>3, <2>4 DEF MarkHeld, deviceVars
  <2>7. Data'
      BY <1>1, <1>2, <1>3, <2>5, <2>6, StillData DEF deviceVars
  <2>8. PICK x, y, c : x = Arg.x /\ y = Arg.y /\ c = U(u)
      OBVIOUS
  <2>9. x \in Tensors /\ y \in Tensors /\ {x, y} \subseteq Cells \ Uploads /\ c \in Cells
    <3>1. x \in Tensors /\ y \in Tensors
        BY <1>2, <2>8 DEF EntryFits
    <3> QED
        BY <3>1, <2>2, <2>8, RingPlaces
  <2>10. PICK a, b, es : /\ a = HostWrite(c) /\ b = Dispatch({x, c}, {y}) /\ es = <<a, b>>
      OBVIOUS
  <2>11. Then(es)
      BY <2>1, <2>8, <2>10 DEF Gather
  <2>12. EntryFits(a) /\ a.f = "write" /\ a.cell = c
      BY <2>9, <2>10 DEF HostWrite, EntryFits
  <2>13. EntryFits(b) /\ b.f = "dispatch" /\ b.in = {x, c}
    <3>1. FiniteCells({x, c}) /\ FiniteCells({y}) /\ {y} \cap Uploads = {}
        BY <2>9, OneCell, TwoCells
    <3> QED
        BY <3>1, <2>10 DEF EntryFits, Dispatch, WeightDispatch
  <2>14. es \in Seq({a, b}) /\ Len(es) = 2 /\ es[1] = a /\ es[2] = b
      BY <2>10, TwoEntries
  <2>15. Replaced(es)
      BY <1>1, <1>3, <2>11, <2>14, ThenReplaces
  <2>16. todo'[1] = a /\ todo'[2] = b /\ Len(todo') = 2
    <3>1. 1 \in 1 .. Len(es) /\ 2 \in 1 .. Len(es)
        BY <2>14
    <3>2. Len(todo') = Len(es) + Len(todo) - 1
        BY <1>3, <2>15, Places
    <3>3. todo'[1] = es[1] /\ todo'[2] = es[2]
        BY <3>1, <1>3, <2>15, Places
    <3>4. Len(todo') = 2
      <4>1. Len(es) = 2 /\ Len(todo) = 1
          BY <1>2, <2>14
      <4> QED
          BY <3>2, <4>1
    <3> QED
        BY <3>3, <3>4, <2>14
  <2>17. (Guarded(1) /\ Gathers(1) /\ Marks(1))'
    <3>1. \A p \in Pending : c \notin p.writes \cup Inputs(p)
        BY <1>3, <2>0, <2>2, <2>8 DEF RingsInUse
    <3>2. Ready(a)'
        BY <3>1, <2>4, <2>12 DEF Ready
    <3>3. Calm(1)'
        BY DEF Calm
    <3>4. Guarded(1)'
        BY <3>2, <3>3, <2>16 DEF Guarded
    <3> QED
        BY <3>4, <2>12, <2>16 DEF Gathers, Marks, UsesUpload
  <2>18. (Guarded(2) /\ Gathers(2) /\ Marks(2))'
    <3>1. Guarded(2)' /\ Marks(2)'
        BY <2>13, <2>16 DEF Guarded, Marks
    <3>2. ASSUME NEW i \in 0 .. UCap - 1, U(i) \in b.in PROVE i < ring'.u
      <4>1. U(i) \in Uploads /\ x \notin Uploads
          BY <2>9, RingPlaces
      <4>2. U(i) = U(u)
          BY <4>1, <3>2, <2>8, <2>13
      <4>3. i = u
          BY <4>2, RingPlaces
      <4> QED
          BY <4>3, <2>2, <2>3
    <3>3. seq.n \in Nat /\ seq'.n + 1 < MaxDispatch
      <4>1. PICK n : n = seq.n
          OBVIOUS
      <4>2. n \in Nat /\ MaxDispatch \in Nat /\ ~(n + 1 >= MaxDispatch) /\ seq'.n = n
          BY <4>1, <1>1, <1>3, <1>5, SequenceAssumption DEF SequenceShape
      <4> QED
          BY <4>1, <4>2
    <3>4. todo'[1].f = "write"
        BY <2>12, <2>16
    <3>5. Gathers(2)'
        BY <3>2, <3>3, <3>4, <2>13, <2>16 DEF Gathers
    <3> QED
        BY <3>1, <3>5
  <2>19. \A k \in 1 .. Len(es) : EntryFits(es[k]) /\ (Guarded(k) /\ Gathers(k) /\ Marks(k))'
    <3>1. \A k \in 1 .. Len(es) : k = 1 \/ k = 2
        BY <2>14
    <3> QED
        BY <3>1, <2>12, <2>13, <2>14, <2>17, <2>18
  <2>20. CallShape'
      BY <1>2, <1>3, <2>15, <2>19, BusyShape DEF Waiting
  <2> QED
      BY <2>7, <2>20 DEF Main
<1> QED
    BY <1>4, <1>5

LEMMA WriteKeeps == ASSUME Main, Write, CountFields PROVE Main'
<1>1. /\ todo # <<>> /\ Head(todo).f = "write" /\ Return /\ HostStore(Arg.cell)
      /\ UNCHANGED <<gpu, xfer, tl, event, seq, mark, ring, answer>>
    BY DEF Write, At
<1>2. /\ todo[1].f = "write" /\ Arg = todo[1] /\ ~AtFence /\ EntryFits(todo[1])
      /\ Guarded(1) /\ Gathers(1)
    BY <1>1, FirstEntry DEF Arg
<1>3. Data /\ CallShape /\ Memory /\ SequenceShape /\ RingsInUse /\ MarkHeld
    BY DEF Main, Data
<1>4. PICK c : c = Arg.cell
    OBVIOUS
<1>5. c \in Cells
    BY <1>2, <1>4 DEF EntryFits
<1>6. \A a \in Pending : c \notin a.writes \cup Inputs(a)
    BY <1>2, <1>4 DEF Guarded, Settles, Ready
<1>7. Pending' = Pending /\ BehindMark' = BehindMark
    BY <1>1 DEF Pending, BehindMark
<1>8. Memory'
  <2>1. InLine'
      BY <1>1, <1>3 DEF Memory, InLine
  <2> QED
      BY <2>1, <1>1, <1>3, <1>4, <1>5, <1>6, <1>7, StoreMemory
<1>9. SequenceShape'
    BY <1>1, <1>2, <1>3, <1>7 DEF SequenceShape, SequenceFields
<1>10. TableKnows'
  <2> SUFFICES ASSUME seq'.n # 0, NEW a \in Pending'
               PROVE  \/ Barrier(a.id, count.ids)'
                      \/ /\ \A d \in Inputs(a) : InTable(d, FALSE)'
                         /\ \A d \in a.writes : InTable(d, TRUE)'
      BY DEF TableKnows
  <2>1. count'.ids = count.ids + 1 /\ count.ids \in Nat
      BY <1>1, <1>3 DEF HostStore, CountFields, Memory
  <2>2. \A p \in Pending : p.id \in Nat
      BY <1>3 DEF Memory, Numbered
  <2>3. Barrier(a.id, count.ids) => Barrier(a.id, count.ids)'
      BY <2>1, <2>2, <1>7 DEF Barrier
  <2> QED
      BY <2>3, <1>1, <1>3, <1>7 DEF Data, TableKnows, InTable
<1>11. RingsInUse'
    BY <1>1, <1>3, <1>7 DEF RingsInUse
<1>12. MarkHeld'
  <2>1. /\ DOMAIN held' = {"mark", "clean"} /\ held'.mark = held.mark
        /\ held'.clean \subseteq held.clean
      BY <1>1, <1>3 DEF HostStore, MarkHeld
  <2> QED
      BY <2>1, <1>1, <1>3, <1>7 DEF MarkHeld
<1>13. Data'
    BY <1>8, <1>9, <1>10, <1>11, <1>12 DEF Data
<1>14. PICK es : es = <<>>
    OBVIOUS
<1>15. Replaced(es) /\ Len(es) = 0
    BY <1>1, <1>3, <1>14, ReturnReplaces, None
<1>16. ASSUME NEW k \in 2 .. Len(todo)
       PROVE  Guarded(Shifted(es, k))' /\ (Gathers(Shifted(es, k)) /\ Marks(Shifted(es, k)))'
  <2>1. Guarded(Shifted(es, k))'
      BY <1>2, <1>3, <1>15, BusyGuards DEF Waiting
  <2>2. Marks(Shifted(es, k))'
      BY <1>2, <1>3, <1>15, LaterOthers
  <2>3. /\ Len(todo) \in Nat /\ Len(todo') = Len(todo) - 1 /\ Shifted(es, k) = k - 1
        /\ todo'[Shifted(es, k)] = todo[k] /\ Gathers(k)
    <3>1. /\ Len(todo) \in Nat /\ Len(todo') = Len(es) + Len(todo) - 1
          /\ DOMAIN todo = 1 .. Len(todo) /\ todo'[Shifted(es, k)] = todo[k]
        BY <1>3, <1>15, Places
    <3>2. Gathers(k)
        BY <3>1, <1>3 DEF CallShape
    <3> QED
        BY <3>1, <3>2, <1>15 DEF Shifted
  <2>4. Gathers(Shifted(es, k))'
    <3>0. PICK e : e = todo[k]
        OBVIOUS
    <3>1. todo'[Shifted(es, k)] = e
        BY <2>3, <3>0
    <3>2. e.f = "reserve u" => k = Len(todo)
        BY <2>3, <3>0 DEF Gathers
    <3>3. e.f = "reserve u" => Shifted(es, k) = Len(todo')
        BY <2>3, <3>2
    <3>4. UsesUpload(e) => /\ \A i \in 0 .. UCap - 1 : U(i) \in e.in => i < ring'.u
                           /\ k = Len(todo) /\ k = 2 /\ seq.n + 1 < MaxDispatch
      <4>1. UsesUpload(e) => /\ \A i \in 0 .. UCap - 1 : U(i) \in e.in => i < ring.u
                             /\ k = Len(todo)
                             /\ k = 1 \/ (k = 2 /\ seq.n + 1 < MaxDispatch)
          BY <2>3, <3>0, Zenon DEF Gathers
      <4>2. k # 1
          BY <1>16
      <4>3. ring' = ring
          BY <1>1
      <4> QED
          BY <4>1, <4>2, <4>3, Zenon
    <3>5. UsesUpload(e) => /\ Shifted(es, k) = Len(todo') /\ Shifted(es, k) = 1
                           /\ seq'.n < MaxDispatch
      <4>1. seq.n \in Nat /\ seq' = seq /\ MaxDispatch \in Nat
          BY <1>1, <1>3, SequenceAssumption DEF SequenceShape
      <4>2. PICK n, m : n = seq.n /\ m = MaxDispatch
          OBVIOUS
      <4>3. n \in Nat /\ m \in Nat /\ seq'.n = n
          BY <4>1, <4>2
      <4>4. n + 1 < m => n < m
          BY <4>3
      <4>5. UsesUpload(e) => k = Len(todo) /\ k = 2 /\ n + 1 < m
          BY <3>4, <4>2
      <4>6. k = 2 => k - 1 = 1
          OBVIOUS
      <4> QED
          BY <4>2, <4>3, <4>4, <4>5, <4>6, <2>3, Zenon
    <3> QED
        BY <3>1, <3>3, <3>4, <3>5 DEF Gathers, UsesUpload
  <2> QED
      BY <2>1, <2>2, <2>4
<1>17. CallShape'
    BY <1>3, <1>15, <1>16, ReplacedShape
<1> QED
    BY <1>13, <1>17 DEF Main

\* What is read is what the program order has there.
LEMMA NothingDueThere ==
    ASSUME Memory, NEW c \in Cells, \A a \in Pending : c \notin a.writes
    PROVE  mem[c] = prog[c]
    BY DEF Memory, ProgramIsNext, Found, Due, LastWriter

LEMMA ReadKeeps ==
    ASSUME Main, ReadBack, CountFields
    PROVE  Main' /\ HostReadsResults'
<1>1. /\ todo # <<>> /\ Head(todo).f = "read" /\ Return
      /\ UNCHANGED <<deviceVars, mark, ring, prog, held>>
    BY DEF ReadBack, At
<1>2. todo[1].f = "read" /\ Arg = todo[1] /\ ~AtFence /\ EntryFits(todo[1])
    BY <1>1, FirstEntry DEF Arg
<1>3. Data /\ CallShape /\ Memory /\ SequenceShape /\ ~seq.failed
    BY DEF Main, Data, SequenceShape
<1>4. /\ answer' = [ok |-> TRUE, got |-> mem[Arg.cell], want |-> prog[Arg.cell],
                    missed |-> count.unreported]
      /\ UNCHANGED <<seq, count>>
    BY <1>3 DEF ReadBack
<1>5. Data'
    BY <1>1, <1>2, <1>3, <1>4, QuietData DEF deviceVars
<1>6. CallShape'
    BY <1>1, <1>2, <1>3, BusyReturn DEF Waiting
<1>7. PICK c : c = Arg.cell
    OBVIOUS
<1>8. c \in Cells
    BY <1>2, <1>7 DEF EntryFits
<1>9. \A a \in Pending : c \notin a.writes
  <2>1. Guarded(1)
      BY <1>1, FirstEntry
  <2>2. ~Settles(1) /\ \A d : ~Marked(1, d)
      BY DEF Settles, Marked
  <2> QED
      BY <2>1, <2>2, <1>2, <1>7 DEF Guarded, Ready
<1>10. HostReadsResults'
  <2>1. mem[c] = prog[c]
      BY <1>3, <1>8, <1>9, NothingDueThere
  <2> QED
      BY <2>1, <1>4, <1>7 DEF HostReadsResults
<1> QED
    BY <1>5, <1>6, <1>10 DEF Main

-----------------------------------------------------------------------------
(* The calls *)

LEMMA BeginKeeps ==
    ASSUME Main, CountFields, NEW es, es \in Seq(Entries(es)), Begin(es),
           \A k \in 1 .. Len(es) : EntryFits(es[k]) /\ (Guarded(k) /\ Gathers(k) /\ Marks(k))'
    PROVE  Main' /\ HostReadsResults'
<1>1. /\ todo = <<>> /\ todo' = es /\ answer' = NoAnswer
      /\ count' = [count EXCEPT !.calls = @ + 1]
      /\ UNCHANGED <<deviceVars, seq, mark, ring, prog, held>>
    BY DEF Begin
<1>2. Data /\ ~AtFence /\ count'.ids = count.ids
    BY <1>1 DEF Main, AtFence, CountFields
<1>3. Data'
    BY <1>1, <1>2, QuietData DEF deviceVars
<1>4. DOMAIN es = 1 .. Len(es)
    OBVIOUS
<1>5. CallShape'
    BY <1>1, <1>4 DEF CallShape
<1>6. HostReadsResults'
    BY <1>1 DEF HostReadsResults, NoAnswer
<1> QED
    BY <1>3, <1>5, <1>6 DEF Main

LEMMA BeginsOne ==
    ASSUME Main, CountFields, NEW a, NEW es, es = <<a>>, Begin(es),
           EntryFits(a), todo'[1] = a => (Guarded(1) /\ Gathers(1) /\ Marks(1))'
    PROVE  Main' /\ HostReadsResults'
<1>1. es \in Seq({a}) /\ Len(es) = 1 /\ es[1] = a
    BY OneEntry
<1>2. es \in Seq(Entries(es))
    BY <1>1, OwnEntries
<1>3. todo' = es
    BY DEF Begin
<1>4. \A k \in 1 .. Len(es) : k = 1
    BY <1>1
<1>5. \A k \in 1 .. Len(es) : EntryFits(es[k]) /\ (Guarded(k) /\ Gathers(k) /\ Marks(k))'
    BY <1>1, <1>3, <1>4
<1> QED
    BY <1>2, <1>5, BeginKeeps

LEMMA BeginsTwo ==
    ASSUME Main, CountFields, NEW a, NEW b, NEW es, es = <<a, b>>, Begin(es),
           EntryFits(a), EntryFits(b),
           todo'[1] = a /\ todo'[2] = b =>
                (Guarded(1) /\ Gathers(1) /\ Marks(1))' /\ (Guarded(2) /\ Gathers(2) /\ Marks(2))'
    PROVE  Main' /\ HostReadsResults'
<1>1. es \in Seq({a, b}) /\ Len(es) = 2 /\ es[1] = a /\ es[2] = b
    BY TwoEntries
<1>2. es \in Seq(Entries(es))
    BY <1>1, OwnEntries
<1>3. todo' = es
    BY DEF Begin
<1>4. \A k \in 1 .. Len(es) : k = 1 \/ k = 2
    BY <1>1, TwoPlaces
<1>5. \A k \in 1 .. Len(es) : EntryFits(es[k]) /\ (Guarded(k) /\ Gathers(k) /\ Marks(k))'
    BY <1>1, <1>3, <1>4
<1> QED
    BY <1>2, <1>5, BeginKeeps

LEMMA BeginsThree ==
    ASSUME Main, CountFields, NEW a, NEW b, NEW c, NEW es, es = <<a, b, c>>, Begin(es),
           EntryFits(a), EntryFits(b), EntryFits(c),
           todo'[1] = a /\ todo'[2] = b /\ todo'[3] = c =>
                /\ (Guarded(1) /\ Gathers(1) /\ Marks(1))' /\ (Guarded(2) /\ Gathers(2) /\ Marks(2))'
                /\ (Guarded(3) /\ Gathers(3) /\ Marks(3))'
    PROVE  Main' /\ HostReadsResults'
<1>1. es \in Seq({a, b, c}) /\ Len(es) = 3 /\ es[1] = a /\ es[2] = b /\ es[3] = c
    BY ThreeEntries
<1>2. es \in Seq(Entries(es))
    BY <1>1, OwnEntries
<1>3. todo' = es
    BY DEF Begin
<1>4. \A k \in 1 .. Len(es) : k = 1 \/ k = 2 \/ k = 3
    BY <1>1
<1>5. \A k \in 1 .. Len(es) : EntryFits(es[k]) /\ (Guarded(k) /\ Gathers(k) /\ Marks(k))'
    BY <1>1, <1>3, <1>4
<1> QED
    BY <1>2, <1>5, BeginKeeps

\* A flush right before it is all an access of the host needs.
LEMMA FlushGuards ==
    ASSUME NEW k \in Nat, k > 1, todo'[k - 1].f = "flush", NEW e, todo'[k] = e,
           e.f \in {"read", "write"}
    PROVE  (Guarded(k) /\ Gathers(k) /\ Marks(k))'
<1>1. k - 1 \in 1 .. k - 1 /\ \A m \in (k - 1) + 1 .. k - 1 : todo'[m].f \in Waiting
    OBVIOUS
<1>2. Settles(k)'
    BY <1>1 DEF Settles
<1>3. Guarded(k)'
    BY <1>2 DEF Guarded
<1> QED
    BY <1>3 DEF Gathers, Marks, UsesUpload

LEMMA PlainFirst ==
    ASSUME NEW k, NEW a, todo'[k] = a, "f" \in DOMAIN a, a.f \in Plain
    PROVE  EntryFits(a) /\ (Guarded(k) /\ Gathers(k) /\ Marks(k))'
<1>1. /\ a.f \notin {"dispatch", "copy", "gemm", "stage x", "reserve u", "read", "write"}
      /\ a.f \notin {"rings", "mark", "set mark", "fence"}
    BY DEF Plain
<1> QED
    BY <1>1 DEF EntryFits, Guarded, Gathers, Marks, UsesUpload

LEMMA PlainFit == ASSUME NEW a, "f" \in DOMAIN a, a.f \in Plain PROVE EntryFits(a)
    BY DEF EntryFits, Plain

LEMMA KernelKeeps ==
    ASSUME Main, CountFields, NEW k \in Kernels, Kernel(k)
    PROVE  Main' /\ HostReadsResults'
<1>1. PICK a, es : a = Dispatch(k.in, k.out) /\ es = <<a>>
    OBVIOUS
<1>2. FiniteCells(k.in) /\ FiniteCells(k.out) /\ k.in \cap Uploads = {} /\ k.out \cap Uploads = {}
  <2>1. k.in \subseteq Tensors /\ k.out \subseteq Tensors /\ IsFiniteSet(k.in) /\ IsFiniteSet(k.out)
      BY SequenceAssumption
  <2> QED
      BY <2>1, RingPlaces DEF FiniteCells
<1>3. EntryFits(a) /\ ~UsesUpload(a) /\ a.f = "dispatch"
    BY <1>1, <1>2, DispatchFits
<1>4. todo'[1] = a => (Guarded(1) /\ Gathers(1) /\ Marks(1))'
    BY <1>3, Unguarded
<1>5. Begin(es)
    BY <1>1 DEF Kernel
<1> QED
    BY <1>1, <1>3, <1>4, <1>5, BeginsOne

LEMMA CopyBufferKeeps ==
    ASSUME Main, CountFields, NEW c \in Tensors, NEW d \in Tensors, CopyBuffer(c, d)
    PROVE  Main' /\ HostReadsResults'
<1>1. PICK a, es : a = Copy({c}, {d}, NoWeight) /\ es = <<a>>
    OBVIOUS
<1>2. FiniteCells({c}) /\ FiniteCells({d}) /\ {c} \cap Uploads = {} /\ {d} \cap Uploads = {}
    BY RingPlaces, OneCell
<1>3. EntryFits(a) /\ a.f = "copy"
    BY <1>1, <1>2, CopyFits
<1>4. todo'[1] = a => (Guarded(1) /\ Gathers(1) /\ Marks(1))'
    BY <1>3, Unguarded DEF UsesUpload
<1>5. Begin(es)
    BY <1>1 DEF CopyBuffer
<1> QED
    BY <1>1, <1>3, <1>4, <1>5, BeginsOne

LEMMA LinearKeeps ==
    ASSUME Main, CountFields, NEW c \in Tensors, NEW d \in Tensors, Linear(c, d)
    PROVE  Main' /\ HostReadsResults'
<1>1. PICK a, es : a = StagedX(c, d, NoWeight) /\ es = <<a>>
    OBVIOUS
<1>2. EntryFits(a) /\ a.f = "stage x"
    BY <1>1 DEF EntryFits, StagedX
<1>3. todo'[1] = a => (Guarded(1) /\ Gathers(1) /\ Marks(1))'
    BY <1>2, Unguarded DEF UsesUpload
<1>4. Begin(es)
    BY <1>1 DEF Linear
<1> QED
    BY <1>1, <1>2, <1>3, <1>4, BeginsOne

LEMMA RowsGatherKeeps ==
    ASSUME Main, CountFields, NEW c \in Tensors, NEW d \in Tensors, RowsGather(c, d)
    PROVE  Main' /\ HostReadsResults'
<1>1. PICK a, es : a = [f |-> "reserve u", x |-> c, y |-> d] /\ es = <<a>>
    OBVIOUS
<1>2. EntryFits(a) /\ a.f = "reserve u"
    BY <1>1 DEF EntryFits
<1>3. Begin(es)
    BY <1>1 DEF RowsGather
<1>4. Len(todo') = 1
    BY <1>1, <1>3, OneEntry DEF Begin
<1>5. todo'[1] = a => (Guarded(1) /\ Gathers(1) /\ Marks(1))'
    BY <1>2, <1>4 DEF Guarded, Gathers, Marks, UsesUpload
<1> QED
    BY <1>1, <1>2, <1>3, <1>5, BeginsOne

LEMMA AccessFits ==
    ASSUME NEW c \in Cells
    PROVE  /\ EntryFits(Read(c)) /\ Read(c).f = "read" /\ Read(c).cell = c
           /\ EntryFits(HostWrite(c)) /\ HostWrite(c).f = "write"
    BY DEF EntryFits, Read, HostWrite

LEMMA OneAndOne ==
    ASSUME NEW a, NEW b
    PROVE  <<a>> \o <<b>> = <<a, b>>
<1>1. PICK D, p, q, r : D = {a, b} /\ p = <<a>> /\ q = <<b>> /\ r = <<a, b>>
    OBVIOUS
<1>2. /\ p \in Seq(D) /\ Len(p) = 1 /\ p[1] = a
      /\ q \in Seq(D) /\ Len(q) = 1 /\ q[1] = b
      /\ r \in Seq(D) /\ Len(r) = 2 /\ r[1] = a /\ r[2] = b
  <2>1. a \in D /\ b \in D
      BY <1>1
  <2> QED
      BY <1>1, <2>1
<1>3. p \o q \in Seq(D) /\ Len(p \o q) = Len(p) + Len(q)
  <2>1. p \in Seq(D) /\ q \in Seq(D)
      BY <1>2
  <2> QED
      BY <2>1, ConcatProperties
<1>4. \A i \in 1 .. Len(p) + Len(q) :
          (p \o q)[i] = IF i <= Len(p) THEN p[i] ELSE q[i - Len(p)]
    BY <1>2, ConcatProperties
<1>5. PICK t : t = p \o q
    OBVIOUS
<1>6. /\ t \in Seq(D) /\ Len(t) = 2
      /\ \A i \in 1 .. 2 : t[i] = IF i <= 1 THEN p[i] ELSE q[i - 1]
    BY <1>2, <1>3, <1>4, <1>5
<1>7. t[1] = a /\ t[2] = b
  <2>1. t[1] = p[1] /\ t[2] = q[1]
      BY <1>6
  <2> QED
      BY <1>2, <2>1
<1>8. \A k \in 1 .. 2 : k = 1 \/ k = 2
    OBVIOUS
<1>9. t = r
    BY <1>2, <1>6, <1>7, <1>8, SeqEqual
<1> QED
    BY <1>1, <1>5, <1>9

LEMMA DownloadKeeps ==
    ASSUME Main, CountFields, NEW c \in Tensors, Download(c) \/ Upload(c)
    PROVE  Main' /\ HostReadsResults'
<1>1. PICK a, b : /\ a = Entry("flush") /\ b \in {Read(c), HostWrite(c)}
                  /\ Begin(<<a>> \o <<b>>)
    BY DEF Download, Upload, Flush
<1>2. PICK es : es = <<a, b>>
    OBVIOUS
<1>3. Begin(es)
  <2>1. <<a>> \o <<b>> = <<a, b>>
      BY OneAndOne
  <2> QED
      BY <2>1, <1>1, <1>2
<1>4. c \in Cells
    BY RingPlaces
<1>5. EntryFits(b) /\ b.f \in {"read", "write"}
    BY <1>1, <1>4, AccessFits
<1>6. EntryFits(a) /\ "f" \in DOMAIN a /\ a.f = "flush" /\ a.f \in Plain
    BY <1>1, PlainFit, PlainEntries DEF Plain
<1>7. ASSUME todo'[1] = a, todo'[2] = b
      PROVE  (Guarded(1) /\ Gathers(1) /\ Marks(1))' /\ (Guarded(2) /\ Gathers(2) /\ Marks(2))'
  <2>1. (Guarded(1) /\ Gathers(1) /\ Marks(1))'
      BY <1>6, <1>7, PlainFirst
  <2>2. (Guarded(2) /\ Gathers(2) /\ Marks(2))'
    <3>1. 2 \in Nat /\ 2 > 1 /\ 2 - 1 = 1
        OBVIOUS
    <3>2. todo'[2 - 1].f = "flush"
        BY <3>1, <1>6, <1>7
    <3> QED
        BY <3>1, <3>2, <1>5, <1>7, FlushGuards
  <2> QED
      BY <2>1, <2>2
<1> QED
    BY <1>2, <1>3, <1>5, <1>6, <1>7, BeginsTwo

LEMMA ArgmaxKeeps ==
    ASSUME Main, CountFields, NEW c \in Tensors, NEW d \in Tensors, Argmax(c, d)
    PROVE  Main' /\ HostReadsResults'
<1>1. PICK a, b, e : a = Dispatch({c}, {d}) /\ b = Entry("flush") /\ e = Read(d)
    OBVIOUS
<1>2. PICK es : es = <<a, b, e>>
    OBVIOUS
<1>3. Begin(es)
  <2>1. <<a>> \o <<b>> \o <<e>> = <<a, b, e>>
    <3>1. PICK p : p = <<a>> \o <<b>>
        OBVIOUS
    <3>2. p = <<a, b>>
        BY <3>1, OneAndOne
    <3>3. p \o <<e>> = <<a, b, e>>
        BY <3>2, TwoAndOne
    <3> QED
        BY <3>1, <3>3
  <2>2. Begin(<<a>> \o <<b>> \o <<e>>)
      BY <1>1 DEF Argmax, Flush
  <2> QED
      BY <2>1, <2>2, <1>2
<1>4. {c, d} \subseteq Cells \ Uploads
    BY RingPlaces
<1>5. EntryFits(a) /\ ~UsesUpload(a) /\ a.f = "dispatch"
  <2>1. FiniteCells({c}) /\ FiniteCells({d}) /\ {c} \cap Uploads = {} /\ {d} \cap Uploads = {}
      BY <1>4, OneCell
  <2> QED
      BY <2>1, <1>1, DispatchFits
<1>6. EntryFits(b) /\ "f" \in DOMAIN b /\ b.f = "flush" /\ b.f \in Plain
    BY <1>1, PlainFit, PlainEntries DEF Plain
<1>7. EntryFits(e) /\ e.f \in {"read", "write"}
    BY <1>1, <1>4, AccessFits
<1>8. ASSUME todo'[1] = a, todo'[2] = b, todo'[3] = e
      PROVE  /\ (Guarded(1) /\ Gathers(1) /\ Marks(1))' /\ (Guarded(2) /\ Gathers(2) /\ Marks(2))'
             /\ (Guarded(3) /\ Gathers(3) /\ Marks(3))'
  <2>1. (Guarded(1) /\ Gathers(1) /\ Marks(1))'
      BY <1>5, <1>8, Unguarded
  <2>2. (Guarded(2) /\ Gathers(2) /\ Marks(2))'
      BY <1>6, <1>8, PlainFirst
  <2>3. (Guarded(3) /\ Gathers(3) /\ Marks(3))'
    <3>1. 3 \in Nat /\ 3 > 1 /\ 3 - 1 = 2
        OBVIOUS
    <3>2. todo'[3 - 1].f = "flush"
        BY <3>1, <1>6, <1>8
    <3> QED
        BY <3>1, <3>2, <1>7, <1>8, FlushGuards
  <2> QED
      BY <2>1, <2>2, <2>3
<1> QED
    BY <1>2, <1>3, <1>5, <1>6, <1>7, <1>8, BeginsThree

LEMMA MapMarkedKeeps ==
    ASSUME Main, CountFields, NEW c \in Tensors, MapMarked(c)
    PROVE  Main' /\ HostReadsResults'
<1>1. PICK a, b, es : a = WaitMark(held.mark) /\ b = Read(c) /\ es = <<a, b>>
    OBVIOUS
<1>2. Begin(es) /\ c \in held.clean /\ held' = held
    BY <1>1 DEF MapMarked, Begin
<1>3. c \in Cells
    BY RingPlaces
<1>4. EntryFits(b) /\ b.f = "read" /\ b.cell = c
    BY <1>1, <1>3, AccessFits
<1>5. "f" \in DOMAIN a /\ a.f = "wait_mark" /\ a.f \in Plain /\ a.mark = held.mark
    BY <1>1, PlainEntries DEF Plain
<1>6. EntryFits(a)
    BY <1>5, PlainFit
<1>7. ASSUME todo'[1] = a, todo'[2] = b
      PROVE  (Guarded(1) /\ Gathers(1) /\ Marks(1))' /\ (Guarded(2) /\ Gathers(2) /\ Marks(2))'
  <2>1. (Guarded(1) /\ Gathers(1) /\ Marks(1))'
      BY <1>5, <1>7, PlainFirst
  <2>2. Calm(2)'
    <3>1. \A m \in 1 .. 2 - 1 : m = 1
        OBVIOUS
    <3> QED
        BY <3>1, <1>5, <1>7 DEF Calm, Waiting
  <2>3. Marked(2, c)'
    <3>1. 1 \in 1 .. 2 - 1
        OBVIOUS
    <3> QED
        BY <3>1, <1>2, <1>5, <1>7 DEF Marked
  <2>4. Guarded(2)'
      BY <2>2, <2>3, <1>4, <1>7 DEF Guarded
  <2>5. Gathers(2)' /\ Marks(2)'
      BY <1>4, <1>7 DEF Gathers, Marks, UsesUpload
  <2> QED
      BY <2>1, <2>4, <2>5
<1> QED
    BY <1>1, <1>2, <1>4, <1>6, <1>7, BeginsTwo

LEMMA SubmissionKeeps ==
    ASSUME Main, CountFields, Submission \/ SubmitMark
    PROVE  Main' /\ HostReadsResults'
<1>1. CASE Submission
  <2>1. PICK a, es : a = Cut /\ es = <<a>>
      OBVIOUS
  <2>2. Begin(es)
      BY <2>1, <1>1 DEF Submission
  <2>3. "f" \in DOMAIN a /\ a.f \in Plain
      BY <2>1, PlainEntries DEF Plain
  <2>4. EntryFits(a) /\ (todo'[1] = a => (Guarded(1) /\ Gathers(1) /\ Marks(1))')
      BY <2>3, PlainFit, PlainFirst
  <2> QED
      BY <2>1, <2>2, <2>4, BeginsOne
<1>2. CASE SubmitMark
  <2>1. PICK a, es : a = Entry("mark") /\ es = <<a>>
      OBVIOUS
  <2>2. Begin(es) /\ ~mark.pending /\ mark' = mark
      BY <2>1, <1>2 DEF SubmitMark, Begin
  <2>3. "f" \in DOMAIN a /\ a.f = "mark"
      BY <2>1 DEF Entry
  <2>4. Len(todo') = 1
      BY <2>1, <2>2, OneEntry DEF Begin
  <2>5. EntryFits(a)
      BY <2>3 DEF EntryFits
  <2>6. todo'[1] = a => (Guarded(1) /\ Gathers(1) /\ Marks(1))'
      BY <2>2, <2>3, <2>4 DEF Guarded, Gathers, Marks, UsesUpload
  <2> QED
      BY <2>1, <2>2, <2>5, <2>6, BeginsOne
<1> QED
    BY <1>1, <1>2

LEMMA CallsKeepOrder ==
    ASSUME Main, CountFields, Calls
    PROVE  Main' /\ HostReadsResults'
    BY KernelKeeps, CopyBufferKeeps, LinearKeeps, RowsGatherKeeps, ArgmaxKeeps, DownloadKeeps,
       MapMarkedKeeps, SubmissionKeeps
       DEF Calls

LEMMA HostKeepsOrder ==
    ASSUME Main, CountFields, HostReadsResults, count.lost = 0, HostStep, count'.lost = 0
    PROVE  Main' /\ HostReadsResults'
<1>1. CASE ReadBack
    BY <1>1, ReadKeeps
<1>2. CASE ~ReadBack
  <2>1. answer' = answer
      BY <1>2 DEF HostStep, DispatchAcc, BufferCopy, Roll, RollSubmit, SeqFlush, AwaitFence,
                  ResetRings, SeqCut, SeqMark, SetMark, WaitMarkBegin, FlushMark, Spin, StageX,
                  GemmResident, ReserveU, Write
  <2>2. HostReadsResults'
      BY <2>1 DEF HostReadsResults
  <2>3. Main'
      BY <1>2, DispatchKeeps, CopyKeeps, RollKeeps, FlushKeeps, FenceKeeps, RingsKeep, CutKeeps,
         MarkKeeps, SetMarkKeeps, WaitMarkKeeps, FlushMarkKeeps, SpinKeeps, StageKeeps, GemmKeeps,
         ReserveKeeps, WriteKeeps
         DEF HostStep
  <2> QED
      BY <2>2, <2>3
<1> QED
    BY <1>1, <1>2

-----------------------------------------------------------------------------
(* From the start, in every step *)

LEMMA OrderInit == Init => MInv
<1> SUFFICES ASSUME Init PROVE MInv
    OBVIOUS
<1>1. /\ seq = [open |-> FALSE, cmd |-> 0, inCmd |-> 0, n |-> 0, failed |-> FALSE,
                dirty |-> <<>>, batch |-> <<>>, waitCopy |-> 0, signalComp |-> 0]
      /\ mark = [n |-> 0, pending |-> FALSE, inOpen |-> FALSE]
      /\ ring = [x |-> 0, u |-> 0] /\ todo = <<>> /\ held = [mark |-> 0, clean |-> {}]
      /\ answer = NoAnswer
      /\ count = [calls |-> 0, ids |-> 0, lost |-> 0, unreported |-> FALSE]
      /\ prog = [c \in Cells |-> 0] /\ mem = [c \in Cells |-> 0] /\ gpu = <<>> /\ event = FALSE
    BY DEF Init, SequenceInit, DeviceInit
<1>2. CountFields /\ count.lost \in Nat /\ count.ids = 0
    BY <1>1 DEF CountFields
<1>3. Pending = {} /\ BehindMark = {} /\ ~HasEvent(gpu) /\ ~HasEvent(seq.batch)
  <2>1. gpu = <<>> /\ seq.batch = <<>>
      BY <1>1
  <2> QED
      BY <2>1, None DEF Pending, BehindMark, Behind, CommandsOf, HasEvent
<1>4. Memory
  <2>1. InLine
    <3>1. gpu = <<>> /\ seq.batch = <<>> /\ CommandsOf(gpu) = {}
        BY <1>1, None DEF CommandsOf
    <3> QED
        BY <3>1, None DEF InLine, Rising
  <2>2. mem \in [Cells -> Nat \cup {Torn}] /\ prog \in [Cells -> Nat] /\ count.ids \in Nat
      BY <1>1, <1>2
  <2>3. CommandFields /\ Numbered /\ Separated /\ Alone /\ SeesOrder
      BY <1>3 DEF CommandFields, Numbered, Separated, Alone, SeesOrder
  <2>4. ProgramIsNext
      BY <1>1, <1>3 DEF ProgramIsNext, Found, NoWriter
  <2> QED
      BY <2>1, <2>2, <2>3, <2>4 DEF Memory
<1>5. SequenceShape
  <2>1. SequenceFields /\ gpu = <<>> /\ seq.batch = <<>> /\ seq.dirty = <<>>
      BY <1>1 DEF SequenceFields
  <2>2. Listed(gpu) /\ Listed(seq.batch) /\ seq.dirty \in Seq(Entries(seq.dirty))
      BY <2>1, None DEF Listed
  <2>3. /\ seq.n = 0 /\ seq.open = FALSE /\ seq.waitCopy = 0 /\ seq.signalComp = 0
        /\ seq.failed = FALSE
      BY <1>1
  <2>4. /\ seq.n \in Nat /\ seq.open \in BOOLEAN /\ ~seq.open /\ ~seq.failed
        /\ (seq.open <=> seq.n # 0) /\ (~seq.open => seq.batch = <<>>)
        /\ (seq.n = 0 => Pending = {} \/ AtFence)
    <3>1. seq.n \in Nat /\ seq.n = 0
        BY <2>3
    <3>2. seq.open \in BOOLEAN /\ ~seq.open
        BY <2>3, Zenon
    <3>3. ~seq.failed
        BY <2>3, Zenon
    <3>4. seq.n = 0 => Pending = {} \/ AtFence
        BY <1>3, Zenon
    <3> QED
        BY <3>1, <3>2, <3>3, <3>4, <2>1, Zenon
  <2> QED
      BY <2>1, <2>2, <2>3, <2>4 DEF SequenceShape
<1>6. TableKnows
    BY <1>3 DEF TableKnows
<1>7. RingsInUse
  <2>1. DOMAIN ring = {"x", "u"} /\ ring.x = 0 /\ ring.u = 0
      BY <1>1
  <2>2. 0 \in 0 .. XCap /\ 0 \in 0 .. UCap
      BY SequenceAssumption
  <2> QED
      BY <2>1, <2>2, <1>3 DEF RingsInUse
<1>8. MarkHeld
  <2>1. OneEvent(gpu) /\ OneEvent(seq.batch)
      BY <1>3 DEF OneEvent, HasEvent
  <2>2. /\ DOMAIN mark = {"n", "pending", "inOpen"} /\ mark.pending = FALSE
        /\ DOMAIN held = {"mark", "clean"} /\ held.clean = {} /\ event = FALSE
      BY <1>1
  <2> QED
      BY <2>1, <2>2, <1>3 DEF MarkHeld
<1>9. CallShape
  <2>1. todo = <<>> /\ todo \in Seq(Entries(todo)) /\ DOMAIN todo = {}
      BY <1>1, None DEF Listed
  <2> QED
      BY <2>1 DEF CallShape
<1>10. HostReadsResults
    BY <1>1 DEF HostReadsResults, NoAnswer
<1> QED
    BY <1>2, <1>4, <1>5, <1>6, <1>7, <1>8, <1>9, <1>10 DEF MInv, Main, Data

\* Submissions that are lost stay so.
LEMMA LostForGood ==
    ASSUME CountFields, count.lost \in Nat, [Next]_vars
    PROVE  CountFields' /\ count'.lost \in Nat /\ count'.lost >= count.lost
<1>1. CASE UNCHANGED count
    BY <1>1 DEF CountFields
<1>2. CASE \E es : Begin(es)
    BY <1>2 DEF Begin, CountFields
<1>3. CASE \E a : Record(a)
    BY <1>3 DEF Record, CountFields
<1>4. CASE \E ok \in BOOLEAN : Submit(ok)
  <2>1. PICK ok \in BOOLEAN : Submit(ok)
      BY <1>4
  <2>2. CASE ok
      BY <2>1, <2>2 DEF Submit, CountFields
  <2>3. CASE ~ok
    <3>1. count' = [count EXCEPT !.lost = @ + 1, !.unreported = TRUE]
        BY <2>1, <2>3 DEF Submit
    <3>2. count'.lost = count.lost + 1 /\ CountFields'
        BY <3>1 DEF CountFields
    <3> QED
        BY <3>2
  <2> QED
      BY <2>2, <2>3
<1>5. CASE \E c : HostStore(c)
    BY <1>5 DEF HostStore, CountFields
<1>6. CASE ReadBack
    BY <1>6 DEF ReadBack, CountFields
<1>7. CASE Calls
  <2>1. \E es : Begin(es)
      BY <1>7 DEF Calls, Kernel, CopyBuffer, Linear, RowsGather, Argmax, Download, Upload,
                  MapMarked, Submission, SubmitMark
  <2> QED
      BY <2>1, <1>2
<1>8. CASE HostStep /\ ~UNCHANGED count
  <2>1. \/ \E a : Record(a)
        \/ \E ok \in BOOLEAN : Submit(ok)
        \/ \E c : HostStore(c)
        \/ ReadBack
      BY <1>8 DEF HostStep, DispatchAcc, BufferCopy, Roll, RollSubmit, SeqFlush, AwaitFence,
                  ResetRings, SeqCut, SeqMark, SetMark, WaitMarkBegin, FlushMark, Spin, StageX,
                  GemmResident, ReserveU, Write
  <2> QED
      BY <2>1, <1>3, <1>4, <1>5, <1>6
<1> QED
    BY <1>1, <1>7, <1>8 DEF Next, vars, hostVars

LEMMA SameMain ==
    ASSUME Main, UNCHANGED <<mem, gpu, event, seq, mark, ring, todo, prog, held, answer, count>>
    PROVE  Main'
<1>1. Data /\ CallShape
    BY DEF Main
<1>2. Pending' = Pending
    BY DEF Pending
<1>3. CallShape'
  <2>1. \A k : EntryFits(todo[k])' <=> EntryFits(todo[k])
      BY DEF EntryFits
  <2>2. \A k : Gathers(k)' <=> Gathers(k)
      BY DEF Gathers, UsesUpload
  <2>3. \A k : Marks(k)' <=> Marks(k)
      BY DEF Marks
  <2>4. \A k : Guarded(k)' <=> Guarded(k)
      BY ZenonT(60), <1>2, Zenon DEF Guarded, Settles, Calm, AtFence, Ready, Marked
  <2>5. todo' = todo
      OBVIOUS
  <2> QED
      BY <1>1, <2>1, <2>2, <2>3, <2>4, <2>5, Zenon DEF CallShape
<1>4. Memory'
  <2>1. InLine'
      BY <1>1 DEF Data, Memory, InLine
  <2> QED
      BY <2>1, <1>1, <1>2, SameMemory DEF Data
<1>5. SequenceShape' /\ TableKnows' /\ RingsInUse' /\ MarkHeld'
  <2>1. SequenceShape'
      BY <1>1, <1>2 DEF Data, SequenceShape, SequenceFields, AtFence
  <2>2. TableKnows'
      BY <1>1, <1>2 DEF Data, TableKnows, Barrier, InTable
  <2>3. RingsInUse'
      BY <1>1, <1>2 DEF Data, RingsInUse
  <2>4. MarkHeld'
      BY <1>1, <1>2 DEF Data, MarkHeld, BehindMark
  <2> QED
      BY <2>1, <2>2, <2>3, <2>4
<1> QED
    BY <1>3, <1>4, <1>5 DEF Main, Data

LEMMA OrderNext == MInv /\ [Next]_vars => MInv'
<1> SUFFICES ASSUME MInv, [Next]_vars PROVE MInv'
    OBVIOUS
<1>1. CountFields' /\ count'.lost \in Nat /\ (count'.lost = 0 => count.lost = 0)
    BY LostForGood DEF MInv
<1>2. ASSUME count'.lost = 0 PROVE Main' /\ HostReadsResults'
  <2>1. Main /\ HostReadsResults /\ CountFields /\ count.lost = 0
      BY <1>1, <1>2 DEF MInv
  <2>2. CASE Calls
      BY <2>1, <2>2, CallsKeepOrder
  <2>3. CASE HostStep
      BY <1>2, <2>1, <2>3, HostKeepsOrder
  <2>4. CASE ComputeStep /\ UNCHANGED hostVars
    <3>1. Main'
        BY <2>1, <2>4, DeviceKeepsOrder
    <3>2. HostReadsResults'
        BY <2>1, <2>4 DEF HostReadsResults, hostVars
    <3> QED
        BY <3>1, <3>2
  <2>5. CASE UNCHANGED vars
    <3>1. UNCHANGED <<mem, gpu, event, seq, mark, ring, todo, prog, held, answer, count>>
        BY <2>5 DEF vars, deviceVars, hostVars
    <3>2. HostReadsResults'
        BY <2>1, <3>1 DEF HostReadsResults
    <3>3. Main'
        BY <2>1, <3>1, SameMain
    <3> QED
        BY <3>2, <3>3
  <2> QED
      BY <2>2, <2>3, <2>4, <2>5 DEF Next
<1> QED
    BY <1>1, <1>2 DEF MInv

\* No kernel ever computes on other inputs than program order gives it, whatever the
\* kernels, the sizes of the rings and the table, and where rolls, cuts and marks fall:
\* the barriers the hazard table leaves out were not needed.
THEOREM ProgramOrderSeen == Spec => []KernelsSeeProgramOrder
<1>1. MInv => KernelsSeeProgramOrder
    BY ValuesAssumption DEF MInv, Main, Data, Memory, KernelsSeeProgramOrder
<1> QED
    BY OrderInit, OrderNext, <1>1, PTL DEF Spec

\* What a readback or a mapped mark hands to the host is what the calls before it wrote.
THEOREM ReadsAreResults == Spec => []HostReadsResults
<1>1. MInv => HostReadsResults
    BY DEF MInv, HostReadsResults
<1> QED
    BY OrderInit, OrderNext, <1>1, PTL DEF Spec
=============================================================================
