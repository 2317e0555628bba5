----------------------------- MODULE SessionProofs -----------------------------
(***************************************************************************)
(* Proofs about Session.  Its invariant IInv is that of SessionOpsProofs at   *)
(* rest; while a prefill runs, its logits may be stale, so that only the text  *)
(* and the recurrence are claimed, and that the tokens still to go fit.  All   *)
(* of it is claimed as long as no backend operation has failed.  HInv holds    *)
(* after failures too; with it follow the promises about refusals, cancels    *)
(* and failures, and that Session implements Conversation.                    *)
(***************************************************************************)
EXTENDS Session, SessionOpsProofs

TypedJob == job \in [running : BOOLEAN, ids : Seq(Tokens), pin : BOOLEAN]

\* A prefill in progress.
RunningRest ==
    /\ Core(sess) /\ ~sess.txn.active /\ ~sess.deferred
    /\ job.ids # <<>> /\ RoomFor(sess, Len(job.ids))
    /\ job.pin => ~sess.recurrent

Sound ==
    /\ job.running => RunningRest
    /\ ~job.running => Rest(sess)
    /\ image.taken => GoodImage(image.of, sess)

IInv == faults \in Nat /\ TypedJob /\ (faults = 0 => Sound)

\* What a call's outcome adds to the failures.
LEMMA ReturnsFaults ==
    ASSUME faults \in Nat, NEW o, o.faults \in Nat, Returns(o)
    PROVE  faults' \in Nat /\ sess' = o.s /\ (faults' = 0 => faults = 0 /\ o.faults = 0)
BY DEF Returns

\* The state after a step that leaves the session at rest and the image alone.
LEMMA RestSound ==
    ASSUME Sound, Rest(sess'), SameModel(sess, sess'), ~job'.running, image' = image
    PROVE  Sound'
<1>1. Rest(sess)' <=> Rest(sess')
    BY DEF Rest, Core, Typed, Absorbed, Checkpoints, Current, IsSession, Content, CkptSlot
<1>2. image.taken => GoodImage(image.of, sess')
    BY GoodImageSame DEF Sound
<1>3. (image.taken => GoodImage(image.of, sess))'
    BY <1>2 DEF GoodImage
<1> QED
    BY <1>1, <1>3 DEF Sound

\* The same for a step that leaves a prefill in progress.
LEMMA RunningSound ==
    ASSUME Sound, Core(sess'), ~sess'.txn.active, ~sess'.deferred, SameModel(sess, sess'),
           job'.running, job'.ids # <<>>, RoomFor(sess', Len(job'.ids)), job'.pin => ~sess'.recurrent,
           image' = image
    PROVE  Sound'
<1>1. RunningRest'
    BY DEF RunningRest, Core, Typed, Absorbed, Checkpoints, IsSession, Content, CkptSlot, RoomFor
<1>2. image.taken => GoodImage(image.of, sess')
    BY GoodImageSame DEF Sound
<1>3. (image.taken => GoodImage(image.of, sess))'
    BY <1>2 DEF GoodImage
<1> QED
    BY <1>1, <1>3 DEF Sound

\* A call that runs to its end.
LEMMA CallSound ==
    ASSUME IInv, ~job.running, NEW outs, Call(outs), \A o \in outs : o.faults \in Nat,
           \A o \in outs : (Sound /\ o.faults = 0) => Rest(o.s) /\ SameModel(sess, o.s)
    PROVE  IInv'
<1>1. PICK o \in outs : Returns(o) /\ UNCHANGED <<job, image>>
    BY DEF Call
<1>2. faults' \in Nat /\ sess' = o.s /\ (faults' = 0 => faults = 0 /\ o.faults = 0)
    BY <1>1, ReturnsFaults DEF IInv
<1>3. TypedJob'
    BY <1>1 DEF IInv, TypedJob
<1>4. ASSUME faults' = 0
      PROVE  Sound'
    <2>1. Sound /\ Rest(sess') /\ SameModel(sess, sess')
        BY <1>2, <1>4 DEF IInv
    <2> QED
        BY <1>1, <2>1, RestSound
<1> QED
    BY <1>2, <1>3, <1>4 DEF IInv

-----------------------------------------------------------------------------
(* The initial state, and one lemma per action. *)

\* The invariant holds of a new session,
LEMMA InitInv == Init => IInv
<1> SUFFICES ASSUME Init PROVE IInv
    OBVIOUS
<1>1. Rest(sess)
    BY NewSessionRest DEF Init
<1>2. TypedJob /\ ~job.running
    BY DEF Init, NoJob, TypedJob
<1>3. ~image.taken
    BY DEF Init, NoImage
<1> QED
    BY <1>1, <1>2, <1>3 DEF Init, IInv, Sound

\* and every call keeps it: decode_step,
LEMMA DecodeInv == IInv /\ Decode => IInv'
<1> SUFFICES ASSUME IInv, Decode PROVE IInv'
    OBVIOUS
<1>1. ~job.running /\ Call(DecodeStep(sess, CanFail))
    BY DEF Decode, May, Idle
<1>2. \A o \in DecodeStep(sess, CanFail) : o.faults \in Nat
    BY DecodeStepCounted DEF Counted, Tallied
<1>3. \A o \in DecodeStep(sess, CanFail) : (Sound /\ o.faults = 0) => Rest(o.s) /\ SameModel(sess, o.s)
    BY <1>1, DecodeStepRest DEF Sound
<1> QED
    BY <1>1, <1>2, <1>3, CallSound

\* The tokens of a prompt.
LEMMA PromptsTyped ==
    ASSUME NEW n, NEW ids \in Prompts(n)
    PROVE  ids \in Seq(Tokens) /\ ids # <<>>
<1>1. PICK m \in 1 .. n : ids \in [1 .. m -> Tokens]
    BY DEF Prompts
<1>2. m \in Nat /\ m > 0
    BY <1>1
<1>3. ids \in Seq(Tokens) /\ Len(ids) = m
    BY <1>1, <1>2, SeqDef, LenProperties
<1> QED
    BY <1>2, <1>3

\* verify_drafts,
LEMMA VerifyInv == IInv /\ Verify => IInv'
<1> SUFFICES ASSUME IInv, Verify PROVE IInv'
    OBVIOUS
<1>1. PICK guesses \in Prompts(Bounds(sess).guesses) : Call(VerifyDrafts(sess, guesses, CanFail))
    BY DEF Verify
<1>2. ~job.running
    BY DEF Verify, May, Idle
<1>3. guesses \in Seq(Tokens)
    BY PromptsTyped
<1>4. \A o \in VerifyDrafts(sess, guesses, CanFail) : o.faults \in Nat
    BY VerifyDraftsCounted DEF Tallied
<1>5. \A o \in VerifyDrafts(sess, guesses, CanFail) :
          (Sound /\ o.faults = 0) => Rest(o.s) /\ SameModel(sess, o.s)
    BY <1>2, <1>3, VerifyDraftsRest DEF Sound
<1> QED
    BY <1>1, <1>2, <1>4, <1>5, CallSound

\* truncate,
LEMMA TruncateInv == IInv /\ TruncateTo => IInv'
<1> SUFFICES ASSUME IInv, TruncateTo PROVE IInv'
    OBVIOUS
<1>1. PICK n \in 0 .. sess.maxLen : Call(Truncate(sess, n, CanFail))
    BY DEF TruncateTo
<1>2. ~job.running /\ n \in Nat
    BY DEF TruncateTo, May, Idle
<1>3. \A o \in Truncate(sess, n, CanFail) : o.faults \in Nat
    BY TruncateCounted DEF Counted, Tallied
<1>4. \A o \in Truncate(sess, n, CanFail) : (Sound /\ o.faults = 0) => Rest(o.s) /\ SameModel(sess, o.s)
    BY <1>2, TruncateRest DEF Sound
<1> QED
    BY <1>1, <1>2, <1>3, <1>4, CallSound

\* checkpoint,
LEMMA CheckpointInv == IInv /\ TakeCheckpoint => IInv'
<1> SUFFICES ASSUME IInv, TakeCheckpoint PROVE IInv'
    OBVIOUS
<1>1. ~job.running /\ Call(Checkpoint(sess, CanFail))
    BY DEF TakeCheckpoint, May, Idle
<1>2. \A o \in Checkpoint(sess, CanFail) : o.faults \in Nat
    BY CheckpointCounted DEF Counted, Tallied
<1>3. \A o \in Checkpoint(sess, CanFail) : (Sound /\ o.faults = 0) => Rest(o.s) /\ SameModel(sess, o.s)
    BY <1>1, CheckpointRest DEF Sound
<1> QED
    BY <1>1, <1>2, <1>3, CallSound

\* reset,
LEMMA ResetInv == IInv /\ ResetSession => IInv'
<1> SUFFICES ASSUME IInv, ResetSession PROVE IInv'
    OBVIOUS
<1>1. ~job.running /\ Call({Ok(Reset(sess))})
    BY DEF ResetSession, May, Idle
<1>2. \A o \in {Ok(Reset(sess))} : o.faults \in Nat /\ o.s = Reset(sess)
    BY OkCounted
<1>3. \A o \in {Ok(Reset(sess))} : (Sound /\ o.faults = 0) => Rest(o.s) /\ SameModel(sess, o.s)
    BY <1>1, <1>2, ResetRest DEF Sound, Rest
<1> QED
    BY <1>1, <1>2, <1>3, CallSound

\* restoring a snapshot,
LEMMA RestoreInv == IInv /\ RestoreSession => IInv'
<1> SUFFICES ASSUME IInv, RestoreSession PROVE IInv'
    OBVIOUS
<1>1. ~job.running /\ image.taken /\ Call(Restore(sess, image.of, CanFail))
    BY DEF RestoreSession, May, Idle
<1>2. \A o \in Restore(sess, image.of, CanFail) : o.faults \in Nat
    BY RestoreCounted DEF Counted, Tallied
<1>3. \A o \in Restore(sess, image.of, CanFail) : (Sound /\ o.faults = 0) => Rest(o.s) /\ SameModel(sess, o.s)
    BY <1>1, RestoreRest DEF Sound, Rest
<1> QED
    BY <1>1, <1>2, <1>3, CallSound

\* taking one,
LEMMA SnapshotInv == IInv /\ Snapshot => IInv'
<1> SUFFICES ASSUME IInv, Snapshot PROVE IInv'
    OBVIOUS
<1>1. /\ ~job.running /\ image' = [taken |-> TRUE, of |-> Image(sess)] /\ Returns(Ok(sess)) /\ job' = job
    BY DEF Snapshot, May, Idle
<1>2. faults' \in Nat /\ sess' = sess /\ (faults' = 0 => faults = 0)
    BY <1>1, OkCounted, ReturnsFaults DEF IInv
<1>3. TypedJob'
    BY <1>1 DEF IInv, TypedJob
<1>4. ASSUME faults' = 0
      PROVE  Sound'
    <2>1. Rest(sess)
        BY <1>1, <1>2, <1>4 DEF IInv, Sound
    <2>2. Rest(sess)'
        BY <1>2, <2>1 DEF Rest, Core, Typed, Absorbed, Checkpoints, Current, IsSession, Content, CkptSlot
    <2>3. GoodImage(image'.of, sess')
        BY <1>1, <1>2, <2>1, ImageGood
    <2>4. GoodImage(image.of, sess)'
        BY <2>3 DEF GoodImage
    <2> QED
        BY <1>1, <2>2, <2>4 DEF Sound
<1> QED
    BY <1>2, <1>3, <1>4 DEF IInv

\* and a cancel from another thread, at rest or during a prefill.
LEMMA CancelInv == IInv /\ Cancel => IInv'
<1> SUFFICES ASSUME IInv, Cancel PROVE IInv'
    OBVIOUS
<1>1. PICK x \in BOOLEAN : x = TRUE
    OBVIOUS
<1>2. sess' = [sess EXCEPT !.cancel = x] /\ job' = job /\ image' = image /\ faults' = faults
    BY <1>1 DEF Cancel
<1>3. TypedJob'
    BY <1>2 DEF IInv, TypedJob
<1>4. ASSUME faults' = 0
      PROVE  Sound'
    <2>1. Sound
        BY <1>2, <1>4 DEF IInv
    <2>2. Core(sess)
        BY <2>1 DEF Sound, RunningRest, Rest
    <2>3. /\ Core(sess') /\ (Current(sess) => Current(sess'))
          /\ SameModel(sess, sess') /\ SameText(sess, sess') /\ sess'.logitsValid = sess.logitsValid
          /\ sess'.txn = sess.txn /\ sess'.deferred = sess.deferred
        BY <1>2, <2>2, UncancelledCore
    <2>4. CASE job.running
        <3>1. RunningRest
            BY <2>1, <2>4 DEF Sound
        <3>2. RoomFor(sess', Len(job'.ids)) /\ (job'.pin => ~sess'.recurrent)
            BY <1>2, <2>3, <3>1 DEF RunningRest, RoomFor, SameModel, SameText
        <3>3. ~sess'.txn.active /\ ~sess'.deferred /\ job'.running /\ job'.ids # <<>>
            BY <1>2, <2>3, <2>4, <3>1 DEF RunningRest
        <3> QED
            BY <1>2, <2>1, <2>3, <3>2, <3>3, RunningSound
    <2>5. CASE ~job.running
        <3>1. Rest(sess)
            BY <2>1, <2>5 DEF Sound
        <3>2. Rest(sess')
            BY <2>3, <3>1 DEF Rest
        <3> QED
            BY <1>2, <2>1, <2>3, <2>5, <3>2, RestSound
    <2> QED
        BY <2>4, <2>5
<1> QED
    BY <1>2, <1>3, <1>4 DEF IInv

\* The start of a prefill.
LEMMA PrefillInv == IInv /\ Prefill => IInv'
<1> SUFFICES ASSUME IInv, Prefill PROVE IInv'
    OBVIOUS
<1>1. PICK ids \in Prompts(Bounds(sess).prompt), o \in Settle(sess, CanFail) :
         IF o.st # "OK" \/ ~RoomFor(o.s, Len(ids))
         THEN /\ Returns(IF o.st # "OK" THEN o
                         ELSE Out(Commit(o.s), "TOO_MANY_TOKENS", <<>>, 0))
              /\ UNCHANGED job
         ELSE /\ Returns([o EXCEPT !.st = "RUNNING", !.s = Commit(@)])
              /\ job' = [running |-> TRUE, ids |-> ids, pin |-> FALSE]
    BY DEF Prefill
<1>2. ~job.running /\ image' = image /\ faults \in Nat /\ TypedJob
    BY DEF Prefill, May, Idle, IInv
<1>3. Counted(o) /\ IsOut(o)
    BY SettleCounted DEF Counted, Tallied
<1>4. ids \in Seq(Tokens) /\ ids # <<>>
    BY PromptsTyped
<1>5. ASSUME Sound, o.faults = 0
      PROVE  /\ Rest(o.s) /\ SameModel(sess, o.s) /\ (o.st = "OK" => ~o.s.deferred)
             /\ Rest(Commit(o.s)) /\ SameModel(sess, Commit(o.s)) /\ Commit(o.s).deferred = o.s.deferred
             /\ RoomFor(o.s, Len(ids)) => RoomFor(Commit(o.s), Len(ids))
    <2>1. Rest(sess)
        BY <1>2, <1>5 DEF Sound
    <2>2. Rest(o.s) /\ SameModel(sess, o.s) /\ (o.st = "OK" => ~o.s.deferred)
        BY <1>5, <2>1, SettleRest
    <2> DEFINE c == Commit(o.s)
    <2>3. /\ Core(c) /\ ~c.txn.active /\ Current(c) /\ SameModel(o.s, c) /\ SameText(o.s, c)
          /\ c.logitsValid = o.s.logitsValid /\ c.deferred = o.s.deferred
        BY <2>2, CommitCore DEF Rest
    <2> HIDE DEF c
    <2>4. Rest(c) /\ SameModel(sess, c)
        BY <2>2, <2>3 DEF Rest, SameModel
    <2>5. RoomFor(o.s, Len(ids)) => RoomFor(c, Len(ids))
        BY <2>3 DEF RoomFor, SameModel, SameText
    <2> QED
        BY <2>2, <2>3, <2>4, <2>5 DEF c
<1>6. CASE o.st # "OK"
    <2>1. Returns(o) /\ job' = job
        BY <1>1, <1>6
    <2>2. faults' \in Nat /\ sess' = o.s /\ (faults' = 0 => faults = 0 /\ o.faults = 0)
        BY <1>2, <1>3, <2>1, ReturnsFaults DEF Counted, Tallied
    <2>3. ASSUME faults' = 0
          PROVE  Sound'
        <3>1. Sound /\ Rest(sess') /\ SameModel(sess, sess')
            BY <1>5, <2>2, <2>3 DEF IInv
        <3> QED
            BY <1>2, <2>1, <3>1, RestSound
    <2> QED
        BY <1>2, <2>1, <2>2, <2>3 DEF IInv, TypedJob
<1>7. CASE o.st = "OK" /\ ~RoomFor(o.s, Len(ids))
    <2> DEFINE c == Commit(o.s)
               r == Out(c, "TOO_MANY_TOKENS", <<>>, 0)
    <2>1. Returns(r) /\ job' = job
        BY <1>1, <1>7
    <2>2. r.s = c /\ r.faults = 0
        BY OutCounted
    <2> HIDE DEF r
    <2>3. faults' \in Nat /\ sess' = c /\ (faults' = 0 => faults = 0)
        BY <1>2, <2>1, <2>2, ReturnsFaults
    <2>4. ASSUME faults' = 0
          PROVE  Sound'
        <3>1. Sound /\ o.faults = 0
            BY <1>3, <1>7, <2>3, <2>4 DEF IInv, Counted, Tallied
        <3>2. Rest(sess') /\ SameModel(sess, sess')
            BY <1>5, <2>3, <3>1
        <3> QED
            BY <1>2, <2>1, <3>1, <3>2, RestSound
    <2> QED
        BY <1>2, <2>1, <2>3, <2>4 DEF IInv, TypedJob
<1>8. CASE o.st = "OK" /\ RoomFor(o.s, Len(ids))
    <2> DEFINE c == Commit(o.s)
               r == [o EXCEPT !.st = "RUNNING", !.s = c]
    <2>1. Returns(r) /\ job' = [running |-> TRUE, ids |-> ids, pin |-> FALSE]
        BY <1>1, <1>3, <1>8 DEF IsOut
    <2>2. r.s = c /\ r.faults = o.faults
        BY <1>3 DEF IsOut
    <2> HIDE DEF r
    <2>3. o.faults = 0
        BY <1>3, <1>8 DEF Counted, Tallied
    <2>4. faults' \in Nat /\ sess' = c /\ (faults' = 0 => faults = 0)
        BY <1>2, <2>1, <2>2, <2>3, ReturnsFaults
    <2>5. TypedJob' /\ job'.running /\ job'.ids = ids /\ ~job'.pin
        BY <1>4, <2>1 DEF TypedJob
    <2>6. ASSUME faults' = 0
          PROVE  Sound'
        <3>1. Sound
            BY <2>4, <2>6 DEF IInv
        <3>2. /\ Rest(sess') /\ SameModel(sess, sess') /\ ~sess'.deferred /\ RoomFor(sess', Len(job'.ids))
            BY <1>5, <1>8, <2>3, <2>4, <2>5, <3>1
        <3>3. Core(sess') /\ ~sess'.txn.active
            BY <3>2 DEF Rest
        <3>4. job'.ids # <<>> /\ job'.running /\ (job'.pin => ~sess'.recurrent)
            BY <1>4, <2>5
        <3> QED
            BY <1>2, <3>1, <3>2, <3>3, <3>4, RunningSound
    <2> QED
        BY <2>4, <2>5, <2>6 DEF IInv
<1> QED
    BY <1>6, <1>7, <1>8

\* One sub-batch of a running prefill, and the pin after the last one.
LEMMA SubBatchInv == IInv /\ SubBatch => IInv'
<1> SUFFICES ASSUME IInv, SubBatch PROVE IInv'
    OBVIOUS
<1>1. /\ job.running /\ image' = image /\ faults \in Nat /\ job.ids \in Seq(Tokens)
      /\ job = [running |-> job.running, ids |-> job.ids, pin |-> job.pin] /\ job.pin \in BOOLEAN
    BY DEF SubBatch, IInv, TypedJob
<1>2. PICK L \in Nat, ids \in Seq(Tokens) : ids = job.ids /\ L = Len(ids)
    BY <1>1
<1>3. PICK n : n = IF L < MMax THEN L ELSE MMax
    OBVIOUS
<1>4. PICK last \in BOOLEAN : last = (n = L)
    OBVIOUS
<1>5. PICK chunk, more : chunk = SubSeq(ids, 1, n) /\ more = SubSeq(ids, n + 1, L)
    OBVIOUS
<1>6. PICK o \in PrefillChunk(sess, chunk, last, CanFail) :
         IF o.st = "OK" /\ ~last
         THEN Returns([o EXCEPT !.st = "RUNNING"]) /\ job' = [job EXCEPT !.ids = more]
         ELSE /\ Returns(IF o.st = "OK" /\ job.pin THEN [o EXCEPT !.s.prefixLength = o.s.kvLen] ELSE o)
              /\ job' = NoJob
    BY <1>1, <1>2, <1>3, <1>4, <1>5 DEF SubBatch
<1>7. Counted(o) /\ IsOut(o)
    BY PrefillChunkCounted DEF Counted, Tallied
<1>8. n \in 0 .. L /\ n \in Nat /\ L - n \in Nat
    BY <1>3, SessionConstants
<1>9. chunk \in Seq(Tokens) /\ Len(chunk) = n
    BY <1>1, <1>2, <1>5, <1>8, CutText
<1>10. more \in Seq(Tokens) /\ Len(more) = L - n
    <2>1. \A i \in n + 1 .. L : ids[i] \in Tokens
        <3>1. TAKE i \in n + 1 .. L
        <3>2. i \in 1 .. Len(ids)
            BY <1>2, <1>8
        <3> QED
            BY <1>1, <1>2, <3>2, ElementOfSeq
    <2>2. n + 1 \in Int /\ L \in Int
        BY <1>8
    <2>3. more \in Seq(Tokens) /\ Len(more) = IF n + 1 <= L THEN L - (n + 1) + 1 ELSE 0
        BY <1>5, <2>1, <2>2, SubSeqProperties
    <2> QED
        BY <1>8, <2>3
<1>11. ASSUME Sound, o.faults = 0
       PROVE  /\ ChunkDone(sess, chunk, last, o) /\ ~o.s.deferred /\ (job.pin => ~o.s.recurrent)
              /\ sess.kvLen + L <= sess.maxLen /\ sess.kvLen \in Nat
    <2>1. RunningRest
        BY <1>1, <1>11 DEF Sound
    <2>2. PICK k \in Nat : k = sess.kvLen
        BY <2>1 DEF RunningRest, Core, Typed
    <2>3. sess.maxLen \in Nat
        <3>1. PICK m \in Models : sess.maxLen = m.maxLen
            BY <2>1 DEF RunningRest, Core, Typed, MaxLens
        <3> QED
            BY <3>1, SessionConstants
    <2>4. k + L <= sess.maxLen /\ k + n <= sess.maxLen
        BY <1>2, <1>8, <2>1, <2>2, <2>3 DEF RunningRest, RoomFor
    <2>5. RoomFor(sess, Len(chunk))
        BY <1>9, <2>2, <2>4 DEF RoomFor
    <2>6. ChunkDone(sess, chunk, last, o)
        BY <1>9, <1>11, <2>1, <2>5, PrefillChunkCore DEF RunningRest
    <2> QED
        BY <2>1, <2>2, <2>4, <2>6 DEF RunningRest, ChunkDone, SameModel
\* Sub-batches are left.
<1>12. CASE o.st = "OK" /\ ~last
    <2> DEFINE r == [o EXCEPT !.st = "RUNNING"]
    <2>1. Returns(r) /\ job' = [job EXCEPT !.ids = more]
        BY <1>6, <1>12
    <2>2. r.s = o.s /\ r.faults = o.faults /\ o.faults = 0
        BY <1>7, <1>12 DEF IsOut, Counted, Tallied
    <2> HIDE DEF r
    <2>3. faults' \in Nat /\ sess' = o.s /\ (faults' = 0 => faults = 0)
        BY <1>1, <2>1, <2>2, ReturnsFaults
    <2>4. job'.running /\ job'.ids = more /\ job'.pin = job.pin /\ TypedJob'
        BY <1>1, <1>10, <2>1 DEF TypedJob
    <2>5. ASSUME faults' = 0
          PROVE  Sound'
        <3>1. Sound
            BY <2>3, <2>5 DEF IInv
        <3>2. /\ ChunkDone(sess, chunk, last, o) /\ ~o.s.deferred /\ (job.pin => ~o.s.recurrent)
              /\ sess.kvLen + L <= sess.maxLen /\ sess.kvLen \in Nat
            BY <1>11, <2>2, <3>1
        <3>3. Core(o.s) /\ ~o.s.txn.active /\ SameModel(sess, o.s) /\ o.s.kvLen = sess.kvLen + n
            BY <1>9, <1>12, <3>2 DEF ChunkDone
        <3>4. RoomFor(o.s, Len(more))
            <4>1. PICK k \in Nat : k = sess.kvLen
                BY <3>2
            <4>2. k + n + (L - n) = k + L
                BY <1>8
            <4>3. o.s.maxLen = sess.maxLen
                BY <3>3 DEF SameModel
            <4> QED
                BY <1>10, <3>2, <3>3, <4>1, <4>2, <4>3 DEF RoomFor
        <3>5. more # <<>>
            <4>1. n # L
                BY <1>4, <1>12
            <4>2. Len(more) # 0
                BY <1>8, <1>10, <4>1
            <4> QED
                BY <4>2
        <3>6. /\ Core(sess') /\ ~sess'.txn.active /\ ~sess'.deferred /\ SameModel(sess, sess')
              /\ RoomFor(sess', Len(job'.ids)) /\ (job'.pin => ~sess'.recurrent) /\ job'.ids # <<>>
            BY <2>3, <2>4, <3>2, <3>3, <3>4, <3>5
        <3> QED
            BY <1>1, <2>4, <3>1, <3>6, RunningSound
    <2> QED
        BY <2>3, <2>4, <2>5 DEF IInv
\* The last one, or one that was cancelled.
<1>13. CASE ~(o.st = "OK" /\ ~last)
    <2> DEFINE p == [o.s EXCEPT !.prefixLength = o.s.kvLen]
               r == IF o.st = "OK" /\ job.pin THEN [o EXCEPT !.s = p] ELSE o
    <2>1. Returns(r) /\ job' = NoJob
        <3>1. /\ Returns(IF o.st = "OK" /\ job.pin THEN [o EXCEPT !.s.prefixLength = o.s.kvLen] ELSE o)
              /\ job' = NoJob
            BY <1>6, <1>13
        <3>2. [o EXCEPT !.s.prefixLength = o.s.kvLen] = [o EXCEPT !.s = p]
            BY <1>7 DEF IsOut
        <3> QED
            BY <3>1, <3>2
    <2>2. r.s = (IF o.st = "OK" /\ job.pin THEN p ELSE o.s) /\ r.faults = o.faults
        BY <1>7 DEF IsOut
    <2> HIDE DEF r
    <2>3. faults' \in Nat /\ sess' = r.s /\ (faults' = 0 => faults = 0 /\ o.faults = 0)
        BY <1>1, <1>7, <2>1, <2>2, ReturnsFaults DEF Counted, Tallied
    <2>4. ~job'.running /\ TypedJob'
        BY <2>1 DEF NoJob, TypedJob
    <2>5. ASSUME faults' = 0
          PROVE  Sound'
        <3>1. Sound /\ o.faults = 0
            BY <2>3, <2>5 DEF IInv
        <3>2. ChunkDone(sess, chunk, last, o) /\ ~o.s.deferred /\ (job.pin => ~o.s.recurrent)
            BY <1>11, <3>1
        <3>3. Core(o.s) /\ ~o.s.txn.active /\ SameModel(sess, o.s) /\ Current(o.s)
            BY <1>13, <3>2 DEF ChunkDone, Current
        <3>4. Rest(o.s)
            BY <3>2, <3>3 DEF Rest
        <3>5. CASE ~(o.st = "OK" /\ job.pin)
            <4>1. Rest(sess') /\ SameModel(sess, sess')
                BY <2>2, <2>3, <3>3, <3>4, <3>5
            <4> QED
                BY <1>1, <2>4, <3>1, <4>1, RestSound
        <3>6. CASE o.st = "OK" /\ job.pin
            <4>1. PICK k : k = o.s.kvLen
                OBVIOUS
            <4>2. k \in 0 .. o.s.kvLen /\ (o.s.recurrent => k = 0)
                BY <3>2, <3>3, <3>6, <4>1 DEF Core, Typed
            <4> DEFINE t == [o.s EXCEPT !.prefixLength = k]
            <4>3. /\ Core(t) /\ Current(t) /\ SameModel(o.s, t) /\ t.deferred = o.s.deferred /\ t.txn = o.s.txn
                BY <3>3, <4>2, RepinnedCore
            <4>4. sess' = t
                BY <2>2, <2>3, <3>6, <4>1
            <4> HIDE DEF t
            <4>5. Rest(sess') /\ SameModel(sess, sess')
                BY <3>2, <3>3, <4>3, <4>4 DEF Rest, SameModel
            <4> QED
                BY <1>1, <2>4, <3>1, <4>5, RestSound
        <3> QED
            BY <3>5, <3>6
    <2> QED
        BY <2>3, <2>4, <2>5 DEF IInv
<1> QED
    BY <1>12, <1>13

\* The start of pin_prefix.
LEMMA PinInv == IInv /\ PinPrefix => IInv'
<1> SUFFICES ASSUME IInv, PinPrefix PROVE IInv'
    OBVIOUS
<1>1. PICK ids \in Prompts(Bounds(sess).prompt) \cup {<<>>}, o \in Settle(sess, CanFail) :
         LET empty == Reset([o.s EXCEPT !.prefixLength = 0]) IN
         \/ o.st # "OK" /\ Returns(o) /\ UNCHANGED job
         \/ o.st = "OK" /\ Returns([o EXCEPT !.st = "UNSUPPORTED"]) /\ UNCHANGED job
         \/ o.st = "OK" /\ Returns([o EXCEPT !.s = empty]) /\ UNCHANGED job
         \/ /\ o.st = "OK" /\ ids # <<>> /\ ~sess.recurrent /\ RoomFor(empty, Len(ids))
            /\ Returns([o EXCEPT !.st = "RUNNING", !.s = empty])
            /\ job' = [running |-> TRUE, ids |-> ids, pin |-> TRUE]
         \/ o.st = "OK" /\ Returns([o EXCEPT !.st = "TOO_MANY_TOKENS", !.s = empty]) /\ UNCHANGED job
    BY DEF PinPrefix
<1> DEFINE empty == Reset([o.s EXCEPT !.prefixLength = 0])
<1>2. ~job.running /\ image' = image /\ faults \in Nat /\ TypedJob
    BY DEF PinPrefix, May, Idle, IInv
<1>3. Counted(o) /\ IsOut(o)
    BY SettleCounted DEF Counted, Tallied
<1>4. ASSUME Sound, o.faults = 0
      PROVE  Rest(o.s) /\ SameModel(sess, o.s) /\ Rest(empty) /\ SameModel(sess, empty) /\ ~empty.deferred
    <2>1. Rest(sess)
        BY <1>2, <1>4 DEF Sound
    <2>2. Rest(o.s) /\ SameModel(sess, o.s)
        BY <1>4, <2>1, SettleRest
    <2>3. Rest(empty) /\ SameModel(o.s, empty) /\ ~empty.deferred
        BY <2>2, EmptiedRest
    <2> QED
        BY <2>2, <2>3 DEF SameModel
<1>5. PICK e : e = empty
    OBVIOUS
\* A call that ends here, with s' in {the settled session, the emptied one}.
<1>6. ASSUME NEW r, Returns(r), r.faults = o.faults, r.s = o.s \/ r.s = e, job' = job
      PROVE  IInv'
    <2>1. faults' \in Nat /\ sess' = r.s /\ (faults' = 0 => faults = 0 /\ o.faults = 0)
        BY <1>2, <1>3, <1>6, ReturnsFaults DEF Counted, Tallied
    <2>2. ASSUME faults' = 0
          PROVE  Sound'
        <3>1. Sound
            BY <2>1, <2>2 DEF IInv
        <3>2. Rest(sess') /\ SameModel(sess, sess')
            BY <1>4, <1>5, <1>6, <2>1, <2>2, <3>1
        <3> QED
            BY <1>2, <1>6, <3>1, <3>2, RestSound
    <2> QED
        BY <1>2, <1>6, <2>1, <2>2 DEF IInv, TypedJob
<1>7. CASE Returns(o) /\ job' = job
    BY <1>6, <1>7
<1>8. CASE Returns([o EXCEPT !.st = "UNSUPPORTED"]) /\ job' = job
    <2>1. PICK r : r = [o EXCEPT !.st = "UNSUPPORTED"]
        OBVIOUS
    <2>2. r.faults = o.faults /\ r.s = o.s
        BY <1>3, <2>1 DEF IsOut
    <2> QED
        BY <1>6, <1>8, <2>1, <2>2
<1>9. CASE Returns([o EXCEPT !.s = e]) /\ job' = job
    <2>1. PICK r : r = [o EXCEPT !.s = e]
        OBVIOUS
    <2>2. r.faults = o.faults /\ r.s = e
        BY <1>3, <2>1 DEF IsOut
    <2> QED
        BY <1>6, <1>9, <2>1, <2>2
<1>10. CASE Returns([o EXCEPT !.st = "TOO_MANY_TOKENS", !.s = e]) /\ job' = job
    <2>1. PICK r : r = [o EXCEPT !.st = "TOO_MANY_TOKENS", !.s = e]
        OBVIOUS
    <2>2. r.faults = o.faults /\ r.s = e
        BY <1>3, <2>1 DEF IsOut
    <2> QED
        BY <1>6, <1>10, <2>1, <2>2
<1>11. CASE /\ o.st = "OK" /\ ids # <<>> /\ ~sess.recurrent /\ RoomFor(e, Len(ids))
            /\ Returns([o EXCEPT !.st = "RUNNING", !.s = e])
            /\ job' = [running |-> TRUE, ids |-> ids, pin |-> TRUE]
    <2>1. PICK r : r = [o EXCEPT !.st = "RUNNING", !.s = e]
        OBVIOUS
    <2>2. r.faults = o.faults /\ r.s = e
        BY <1>3, <2>1 DEF IsOut
    <2>3. faults' \in Nat /\ sess' = e /\ (faults' = 0 => faults = 0 /\ o.faults = 0)
        BY <1>2, <1>3, <1>11, <2>1, <2>2, ReturnsFaults DEF Counted, Tallied
    <2>4. ids \in Seq(Tokens)
        BY <1>11, PromptsTyped
    <2>5. TypedJob' /\ job'.running /\ job'.ids = ids /\ job'.ids # <<>>
        BY <1>11, <2>4 DEF TypedJob
    <2>6. ASSUME faults' = 0
          PROVE  Sound'
        <3>1. Sound
            BY <2>3, <2>6 DEF IInv
        <3>2. Rest(sess') /\ SameModel(sess, sess') /\ ~sess'.deferred
            BY <1>4, <1>5, <2>3, <2>6, <3>1
        <3>3. Core(sess') /\ ~sess'.txn.active /\ RoomFor(sess', Len(job'.ids)) /\ ~sess'.recurrent
            BY <1>11, <2>3, <2>5, <3>2 DEF Rest, SameModel
        <3> QED
            BY <1>2, <2>5, <3>1, <3>2, <3>3, RunningSound
    <2> QED
        BY <2>3, <2>5, <2>6 DEF IInv
<1> QED
    BY <1>1, <1>5, <1>7, <1>8, <1>9, <1>10, <1>11

-----------------------------------------------------------------------------
(* The theorems. *)

\* The inductive invariant holds in every state.
THEOREM Invariant == Spec => []IInv
<1>1. Init => IInv
    BY InitInv
<1>2. IInv /\ [Next]_vars => IInv'
    <2> SUFFICES ASSUME IInv, [Next]_vars PROVE IInv'
        OBVIOUS
    <2>1. CASE UNCHANGED vars
        BY <2>1 DEF vars, IInv, TypedJob, Sound, RunningRest, Rest, Core, Typed, Absorbed, Checkpoints,
                    Current, IsSession, Content, CkptSlot, RoomFor, GoodImage
    <2> QED
        BY <2>1, PrefillInv, PinInv, SubBatchInv, CancelInv, DecodeInv, VerifyInv, TruncateInv,
           CheckpointInv, ResetInv, SnapshotInv, RestoreInv DEF Next
<1> QED
    BY <1>1, <1>2, PTL DEF Spec

\* Logits that are pending between two calls are those of the whole state, and
\* an owed forward is owed to such logits.
THEOREM PendingAlwaysCurrent == Spec => []PendingIsCurrent
<1>1. IInv => PendingIsCurrent
    BY DEF IInv, Sound, RunningRest, Rest, Current, PendingIsCurrent, Idle
<1> QED
    BY <1>1, Invariant, PTL

\* The recurrent state has absorbed exactly the cached positions.
THEOREM RecurrenceAlwaysMatches == Spec => []RecurrenceMatchesCache
<1>1. IInv => RecurrenceMatchesCache
    BY DEF IInv, Sound, RunningRest, Rest, Core, Absorbed, RecurrenceMatchesCache
<1> QED
    BY <1>1, Invariant, PTL

-----------------------------------------------------------------------------
(* The invariant of Session, whatever has failed. *)

\* A prefill in progress.
HeldJob ==
    /\ Typed(sess) /\ Owes(sess) /\ OnlyRecurrent(sess) /\ ~sess.deferred
    /\ job.ids # <<>> /\ RoomFor(sess, Len(job.ids))

HeldAt ==
    /\ job.running => HeldJob
    /\ ~job.running => Held(sess)
    /\ image.taken => HeldImage(image.of, sess)

HInv == TypedJob /\ faults \in Nat /\ HeldAt

\* A call that leaves the job and the image alone, by what the caller sees of it.
SpeaksTo(o) ==
    /\ sess' = o.s /\ out' = [st |-> o.st, toks |-> o.toks] /\ UNCHANGED <<job, image>>
    /\ Speaks(sess, o)

\* The mapped variables after a call.
LEMMA MappedStep ==
    ASSUME NEW o, sess' = o.s, out' = [st |-> o.st, toks |-> o.toks]
    PROVE  Text(sess)' = Text(o.s) /\ Pin(sess)' = Pin(o.s) /\ Says' = SaidBy(o)
BY DEF Text, Content, PendingToken, Pin, Says, SaidBy

\* A call that speaks is a step of the conversation.
LEMMA SpeaksNext ==
    ASSUME ~job.running, NEW o, SpeaksTo(o)
    PROVE  Contract!Next
<1>1. /\ sess' = o.s /\ out' = [st |-> o.st, toks |-> o.toks] /\ job' = job /\ image' = image
      /\ Speaks(sess, o)
    BY DEF SpeaksTo
<1>2. Text(sess)' = Text(o.s) /\ Pin(sess)' = Pin(o.s) /\ Says' = SaidBy(o)
    BY <1>1, MappedStep
<1>3. CASE Extends(sess, o)
    <2>1. Contract!Extend
        BY <1>1, <1>2, <1>3 DEF Extends, StartOf, Contract!Extend, Contract!Begins, Pin
    <2> QED
        BY <2>1 DEF Contract!Next
<1>4. CASE Emits(sess, o)
    <2>1. Contract!Emit
        BY <1>1, <1>2, <1>4 DEF Emits, Contract!Emit, Pin, Idle
    <2> QED
        BY <2>1 DEF Contract!Next
<1>5. CASE Rewinds(sess, o)
    <2>1. Contract!Rewind
        BY <1>1, <1>2, <1>5 DEF Rewinds, StartOf, Contract!Rewind, Contract!Begins, Pin, Idle
    <2> QED
        BY <2>1 DEF Contract!Next
<1> QED
    BY <1>1, <1>3, <1>4, <1>5 DEF Speaks

-----------------------------------------------------------------------------
(* What every step keeps. *)

RefusalStep ==
    (out' # out /\ out'.st \in Refusals) =>
        /\ Text(sess') = Text(sess) /\ sess'.logitsValid = sess.logitsValid
        /\ sess'.ckptLens = sess.ckptLens /\ sess'.prefixLength = sess.prefixLength

CancelStep ==
    /\ (sess.cancel /\ ~sess'.cancel) <=> (out'.st = "CANCELLED" /\ sess.cancel /\ sess' # sess)
    /\ (out'.st = "CANCELLED" /\ job.running /\ ~job'.running) =>
          ~sess'.logitsValid /\ Text(sess') = Text(sess)

NothingLost ==
    faults' # faults => /\ StartOf(Text(sess), Text(sess'))
                        /\ sess'.prefixLength \in {0, sess.prefixLength}

ConversationStep == [faults' = 0 => Contract!Next]_(Contract!vars)

\* The invariant after a call.
LEMMA HeldAfter ==
    ASSUME HInv, Held(sess'), SameModel(sess, sess'), faults' \in Nat, TypedJob', ~job'.running, image' = image
    PROVE  HInv'
<1>1. Held(sess)' <=> Held(sess')
    BY DEF Held, Typed, IsSession, Owes, PendingToken
<1>2. image.taken => HeldImage(image.of, sess')
    BY DEF HInv, HeldAt, HeldImage, SameModel
<1>3. (image.taken => HeldImage(image.of, sess))'
    BY <1>2 DEF HeldImage
<1> QED
    BY <1>1, <1>3 DEF HInv, HeldAt

\* And while a prefill runs.
LEMMA HeldRunning ==
    ASSUME HInv, Typed(sess'), Owes(sess'), OnlyRecurrent(sess'), ~sess'.deferred, SameModel(sess, sess'),
           faults' \in Nat, TypedJob', job'.running, job'.ids # <<>>, RoomFor(sess', Len(job'.ids)), image' = image
    PROVE  HInv'
<1>1. HeldJob'
    BY DEF HeldJob, Typed, IsSession, Owes, PendingToken, RoomFor
<1>2. image.taken => HeldImage(image.of, sess')
    BY DEF HInv, HeldAt, HeldImage, SameModel
<1>3. (image.taken => HeldImage(image.of, sess))'
    BY <1>2 DEF HeldImage
<1> QED
    BY <1>1, <1>3 DEF HInv, HeldAt

\* A cancel request by its outcome.
LEMMA CancelsStep ==
    ASSUME NEW o, Cancels(sess, o), sess' = o.s, out'.st = o.st
    PROVE  (sess.cancel /\ ~sess'.cancel) <=> (out'.st = "CANCELLED" /\ sess.cancel /\ sess' # sess)
<1>1. CASE o.st = "CANCELLED"
    <2>1. sess.cancel /\ ~sess'.cancel
        BY <1>1 DEF Cancels
    <2>2. sess' # sess
        BY <2>1
    <2> QED
        BY <1>1, <2>1, <2>2
<1>2. CASE o.st # "CANCELLED"
    <2>1. sess'.cancel = sess.cancel
        BY <1>2 DEF Cancels
    <2> QED
        BY <1>2, <2>1
<1> QED
    BY <1>1, <1>2

\* A call that keeps its promises.
LEMMA CallKeeps ==
    ASSUME HInv, ~job.running, NEW o, o.faults \in Nat, Promise(sess, o), Returns(o), UNCHANGED <<job, image>>
    PROVE  HInv' /\ RefusalStep /\ CancelStep /\ NothingLost
<1>1. sess' = o.s /\ out'.st = o.st /\ job' = job /\ image' = image
    BY DEF Returns
<1>2. Held(o.s) /\ SameModel(sess, o.s) /\ Cancels(sess, o) /\ (o.st \in Refusals => SameView(sess, o.s))
      /\ (o.faults # 0 => Starts(sess, o))
    BY DEF Promise
<1>3. faults' \in Nat /\ (faults' # faults => o.faults # 0)
    <2>1. PICK f, g \in Nat : f = faults /\ g = o.faults
        BY DEF HInv
    <2>2. faults' = f + g
        BY <2>1 DEF Returns
    <2> QED
        BY <2>1, <2>2
<1>4. HInv'
    <2>1. TypedJob' /\ ~job'.running
        BY <1>1 DEF HInv, TypedJob
    <2> QED
        BY <1>1, <1>2, <1>3, <2>1, HeldAfter
<1>5. RefusalStep
    BY <1>1, <1>2 DEF RefusalStep, SameView
<1>6. CancelStep
    BY <1>1, <1>2, CancelsStep DEF CancelStep
<1>7. NothingLost
    BY <1>1, <1>2, <1>3 DEF NothingLost, Starts
<1> QED
    BY <1>4, <1>5, <1>6, <1>7

\* A call that speaks when nothing has failed.
LEMMA CallConverses ==
    ASSUME IInv, ~job.running, NEW o, o.faults \in Nat, Rest(sess) /\ o.faults = 0 => Speaks(sess, o),
           Returns(o), UNCHANGED <<job, image>>
    PROVE  ConversationStep
<1>1. faults' = 0 => faults = 0 /\ o.faults = 0
    BY ReturnsFaults DEF IInv
<1>2. ASSUME faults' = 0
      PROVE  Contract!Next
    <2>1. Rest(sess)
        BY <1>1, <1>2 DEF IInv, Sound
    <2>2. SpeaksTo(o)
        BY <1>1, <1>2, <2>1 DEF SpeaksTo, Returns
    <2> QED
        BY <2>2, SpeaksNext
<1> QED
    BY <1>2 DEF ConversationStep

\* All of it.
StepKeeps == HInv' /\ RefusalStep /\ CancelStep /\ NothingLost /\ ConversationStep

-----------------------------------------------------------------------------
(* The initial state, and one lemma per action. *)

\* A call that runs to its end.
LEMMA CallKept ==
    ASSUME IInv, HInv, ~job.running, NEW outs, Call(outs),
           \A o \in outs : o.faults \in Nat,
           \A o \in outs : Promise(sess, o),
           \A o \in outs : Rest(sess) /\ o.faults = 0 => Speaks(sess, o)
    PROVE  StepKeeps
<1>1. PICK o \in outs : Returns(o) /\ UNCHANGED <<job, image>>
    BY DEF Call
<1>2. HInv' /\ RefusalStep /\ CancelStep /\ NothingLost
    BY <1>1, CallKeeps
<1>3. ConversationStep
    BY <1>1, CallConverses
<1> QED
    BY <1>2, <1>3 DEF StepKeeps

\* Between two calls the session is held.
LEMMA HeldIdle == HInv /\ ~job.running => Held(sess)
BY DEF HInv, HeldAt

\* A new session keeps its promises,
LEMMA InitHeld == Init => HInv
<1> SUFFICES ASSUME Init PROVE HInv
    OBVIOUS
<1>1. PICK m \in Models : sess = NewSession(m)
    BY DEF Init
<1>2. Typed(sess)
    BY <1>1, NewSessionRest DEF Rest, Core
<1>3. sess.logitsValid = FALSE /\ sess.deferred = FALSE /\ sess.txn = NoTxn /\ sess.pending = NoPending
    BY <1>1 DEF NewSession
<1>4. OnlyRecurrent(sess)
    BY <1>3 DEF NoTxn, OnlyRecurrent
<1>5. Predict(<<>>) \in Tokens
    <2>1. <<>> \in Seq(Tokens) /\ Len(<<>>) <= sess.maxLen /\ sess.maxLen \in MaxLens
        BY <1>2, TypedNumbers DEF Typed
    <2> QED
        BY <2>1, PredictTyped
<1>6. NoPending.on = <<>>
    BY DEF NoPending
<1>7. Held(sess)
    BY <1>2, <1>3, <1>4, <1>5, <1>6 DEF Held, Owes, PendingToken
<1>8. TypedJob /\ ~job.running
    BY DEF Init, NoJob, TypedJob
<1>9. ~image.taken
    BY DEF Init, NoImage
<1> QED
    BY <1>7, <1>8, <1>9 DEF Init, HInv, HeldAt

\* and begins a conversation.
LEMMA InitConverses == Init => Contract!Init
<1> SUFFICES ASSUME Init PROVE Contract!Init
    OBVIOUS
<1>1. PICK m \in Models : sess = NewSession(m)
    BY DEF Init
<1>2. sess.rows = <<>> /\ sess.kvLen = 0 /\ sess.prefixLength = 0 /\ sess.logitsValid = FALSE /\ sess.deferred = FALSE
    BY <1>1 DEF NewSession
<1>3. SubSeq(<<>>, 1, 0) = <<>> /\ <<>> \o <<>> = <<>>
    OBVIOUS
<1>4. Text(sess) = <<>> /\ SubSeq(sess.rows, 1, sess.prefixLength) = <<>>
    BY <1>2, <1>3 DEF Text, Content
<1>5. PICK i : i = Image(NewSession(CHOOSE x \in Models : TRUE))
    OBVIOUS
<1>6. i.rows = <<>> /\ i.prefixLength = 0 /\ i.logitsValid = FALSE /\ i.deferred = FALSE
    <2>1. PICK y : y = NewSession(CHOOSE x \in Models : TRUE)
        OBVIOUS
    <2>2. y.rows = <<>> /\ y.kvLen = 0 /\ y.prefixLength = 0 /\ y.logitsValid = FALSE /\ y.deferred = FALSE
        BY <2>1 DEF NewSession
    <2> QED
        BY <1>3, <1>5, <2>1, <2>2 DEF Image, Content
<1>7. image.taken = FALSE /\ image.of = i
    BY <1>5 DEF Init, NoImage
<1>8. Says = <<>>
    BY DEF Init, Says
<1> QED
    BY <1>2, <1>3, <1>4, <1>6, <1>7, <1>8 DEF Contract!Init, Contract!NoImage

\* The steps: decode_step,
LEMMA DecodeKeeps == IInv /\ HInv /\ Decode => StepKeeps
<1> SUFFICES ASSUME IInv, HInv, Decode PROVE StepKeeps
    OBVIOUS
<1>1. ~job.running /\ Call(DecodeStep(sess, CanFail))
    BY DEF Decode, May, Idle
<1>2. Held(sess)
    BY <1>1, HeldIdle
<1>3. \A o \in DecodeStep(sess, CanFail) : o.faults \in Nat
    BY DecodeStepCounted DEF Counted, Tallied
<1>4. \A o \in DecodeStep(sess, CanFail) : Promise(sess, o) /\ (Rest(sess) /\ o.faults = 0 => Speaks(sess, o))
    BY <1>2, DecodeStepSpeaks
<1> QED
    BY <1>1, <1>3, <1>4, CallKept

\* verify_drafts,
LEMMA VerifyKeeps == IInv /\ HInv /\ Verify => StepKeeps
<1> SUFFICES ASSUME IInv, HInv, Verify PROVE StepKeeps
    OBVIOUS
<1>1. ~job.running
    BY DEF Verify, May, Idle
<1>2. PICK guesses \in Prompts(Bounds(sess).guesses) : Call(VerifyDrafts(sess, guesses, CanFail))
    BY DEF Verify
<1>3. guesses \in Seq(Tokens)
    BY PromptsTyped
<1>4. Held(sess)
    BY <1>1, HeldIdle
<1>5. \A o \in VerifyDrafts(sess, guesses, CanFail) : o.faults \in Nat
    BY VerifyDraftsCounted DEF Tallied
<1>6. \A o \in VerifyDrafts(sess, guesses, CanFail) :
         Promise(sess, o) /\ (Rest(sess) /\ o.faults = 0 => Speaks(sess, o))
    BY <1>3, <1>4, VerifyDraftsSpeaks
<1> QED
    BY <1>1, <1>2, <1>5, <1>6, CallKept

\* truncate,
LEMMA TruncateKeeps == IInv /\ HInv /\ TruncateTo => StepKeeps
<1> SUFFICES ASSUME IInv, HInv, TruncateTo PROVE StepKeeps
    OBVIOUS
<1>1. ~job.running
    BY DEF TruncateTo, May, Idle
<1>2. Held(sess)
    BY <1>1, HeldIdle
<1>3. PICK n \in 0 .. sess.maxLen : Call(Truncate(sess, n, CanFail))
    BY DEF TruncateTo
<1>4. n \in Nat
    BY <1>2, TypedNumbers DEF Held
<1>5. \A o \in Truncate(sess, n, CanFail) : o.faults \in Nat
    BY TruncateCounted DEF Counted, Tallied
<1>6. \A o \in Truncate(sess, n, CanFail) : Promise(sess, o) /\ Speaks(sess, o)
    BY <1>2, <1>4, TruncateSpeaks
<1> QED
    BY <1>1, <1>3, <1>5, <1>6, CallKept

\* checkpoint,
LEMMA CheckpointKeeps == IInv /\ HInv /\ TakeCheckpoint => StepKeeps
<1> SUFFICES ASSUME IInv, HInv, TakeCheckpoint PROVE StepKeeps
    OBVIOUS
<1>1. ~job.running /\ Call(Checkpoint(sess, CanFail))
    BY DEF TakeCheckpoint, May, Idle
<1>2. Held(sess)
    BY <1>1, HeldIdle
<1>3. \A o \in Checkpoint(sess, CanFail) : o.faults \in Nat
    BY CheckpointCounted DEF Counted, Tallied
<1>4. \A o \in Checkpoint(sess, CanFail) : Promise(sess, o) /\ Speaks(sess, o)
    BY <1>2, CheckpointSpeaks
<1> QED
    BY <1>1, <1>3, <1>4, CallKept

\* reset,
LEMMA ResetKeeps == IInv /\ HInv /\ ResetSession => StepKeeps
<1> SUFFICES ASSUME IInv, HInv, ResetSession PROVE StepKeeps
    OBVIOUS
<1>1. ~job.running /\ Call({Ok(Reset(sess))})
    BY DEF ResetSession, May, Idle
<1>2. Held(sess)
    BY <1>1, HeldIdle
<1>3. \A o \in {Ok(Reset(sess))} : o.faults \in Nat
    BY OkCounted DEF Counted, Tallied
<1>4. \A o \in {Ok(Reset(sess))} : Promise(sess, o) /\ Speaks(sess, o)
    BY <1>2, ResetSpeaks
<1> QED
    BY <1>1, <1>3, <1>4, CallKept

\* a snapshot,
LEMMA SnapshotKeeps == IInv /\ HInv /\ Snapshot => StepKeeps
<1> SUFFICES ASSUME IInv, HInv, Snapshot PROVE StepKeeps
    OBVIOUS
<1>1. ~job.running /\ Held(sess)
    BY HeldIdle DEF Snapshot, May, Idle
<1>2. sess' = sess /\ out'.st = "OK" /\ out'.toks = <<>> /\ faults' = faults + 0 /\ job' = job
    <2>1. Returns(Ok(sess)) /\ job' = job
        BY DEF Snapshot
    <2>2. Ok(sess).s = sess /\ Ok(sess).st = "OK" /\ Ok(sess).toks = <<>> /\ Ok(sess).faults = 0
        BY DEF Ok, Out
    <2> QED
        BY <2>1, <2>2 DEF Returns
<1>3. faults' = faults /\ faults' \in Nat
    BY <1>2 DEF HInv
<1>4. PICK i : i = Image(sess)
    OBVIOUS
<1>5. image'.taken = TRUE /\ image'.of = i
    BY <1>4 DEF Snapshot
<1>6. HeldImage(i, sess) /\ ImageText(i) = Text(sess) /\ ImagePin(i) = Pin(sess) /\ i.logitsValid = sess.logitsValid
    BY <1>1, <1>4, ImageHeld
<1>7. HInv'
    <2>1. Held(sess)'
        BY <1>1, <1>2 DEF Held, Typed, IsSession, Owes, PendingToken
    <2>2. HeldImage(image.of, sess)'
        BY <1>2, <1>5, <1>6 DEF HeldImage
    <2>3. TypedJob' /\ ~job'.running
        BY <1>1, <1>2 DEF HInv, TypedJob
    <2> QED
        BY <1>3, <2>1, <2>2, <2>3 DEF HInv, HeldAt
<1>8. RefusalStep /\ CancelStep /\ NothingLost
    BY <1>2, <1>3 DEF RefusalStep, Refusals, CancelStep, NothingLost
<1>9. ConversationStep
    <2>1. Contract!Snapshot
        <3>1. /\ image'.of.rows \o (IF image'.of.deferred THEN <<Predict(image'.of.pending.on)>> ELSE <<>>) = Text(sess)
              /\ SubSeq(image'.of.rows, 1, image'.of.prefixLength) = SubSeq(sess.rows, 1, sess.prefixLength)
              /\ image'.of.logitsValid = sess.logitsValid
            BY <1>5, <1>6 DEF ImageText, ImagePin, Pin
        <3>2. (Idle /\ sess.logitsValid) = sess.logitsValid
            BY <1>1 DEF Idle, Held, Owes
        <3>3. Says' = <<>>
            BY <1>2 DEF Says
        <3>4. Text(sess)' = Text(sess) /\ (Idle /\ sess.logitsValid)' = (Idle /\ sess.logitsValid)
            BY <1>2 DEF Text, Content, PendingToken, Idle
        <3> QED
            BY <1>2, <1>5, <3>1, <3>2, <3>3, <3>4 DEF Contract!Snapshot
    <2> QED
        BY <2>1 DEF ConversationStep, Contract!Next
<1> QED
    BY <1>7, <1>8, <1>9 DEF StepKeeps

\* a cancel,
LEMMA CancelKeeps == IInv /\ HInv /\ Cancel => StepKeeps
<1> SUFFICES ASSUME IInv, HInv, Cancel PROVE StepKeeps
    OBVIOUS
<1>1. /\ ~sess.cancel /\ sess' = [sess EXCEPT !.cancel = TRUE]
      /\ job' = job /\ image' = image /\ out' = out /\ faults' = faults
    BY DEF Cancel
<1>2. Typed(sess) /\ Owes(sess)
    BY DEF HInv, HeldAt, HeldJob, Held
<1>3. /\ IsSession(sess') /\ SameModel(sess, sess') /\ SameLogits(sess, sess')
      /\ sess'.rows = sess.rows /\ sess'.kvLen = sess.kvLen /\ sess'.prefixLength = sess.prefixLength
      /\ sess'.txn = sess.txn /\ sess'.deferred = sess.deferred /\ sess'.ckptLens = sess.ckptLens
      /\ sess'.cancel = TRUE
    BY <1>1, <1>2 DEF Typed, IsSession, SameModel, SameLogits
<1>4. Typed(sess') /\ Owes(sess') /\ Text(sess') = Text(sess)
    BY <1>2, <1>3 DEF Typed, SameModel, SameLogits, Owes, PendingToken, Text, Content
<1>5. HInv'
    <2>1. faults' \in Nat /\ TypedJob'
        BY <1>1 DEF HInv, TypedJob
    <2>2. CASE job.running
        <3>1. HeldJob
            BY <2>2 DEF HInv, HeldAt
        <3>2. OnlyRecurrent(sess') /\ ~sess'.deferred /\ job'.ids # <<>> /\ RoomFor(sess', Len(job'.ids))
            BY <1>1, <1>3, <3>1 DEF HeldJob, RoomFor, SameModel, OnlyRecurrent
        <3> QED
            BY <1>1, <1>3, <1>4, <2>1, <2>2, <3>2, HeldRunning
    <2>3. CASE ~job.running
        <3>1. Held(sess')
            BY <1>3, <1>4, <2>3, HeldIdle DEF Held, SameLogits, OnlyRecurrent, SameModel
        <3> QED
            BY <1>1, <1>3, <2>1, <2>3, <3>1, HeldAfter
    <2> QED
        BY <2>2, <2>3
<1>6. RefusalStep /\ CancelStep /\ NothingLost
    BY <1>1, <1>3, <1>4 DEF RefusalStep, CancelStep, NothingLost
<1>7. ConversationStep
    <2>1. UNCHANGED Contract!vars
        <3>0. Text(sess)' = Text(sess')
            BY DEF Text, Content, PendingToken
        <3>1. Text(sess)' = Text(sess) /\ Says' = Says
            BY <1>1, <1>4, <3>0 DEF Says
        <3>2. (Idle /\ sess.logitsValid)' = (Idle /\ sess.logitsValid)
            BY <1>1, <1>3 DEF Idle, SameLogits
        <3> QED
            BY <1>1, <1>3, <3>1, <3>2 DEF Contract!vars
    <2> QED
        BY <2>1 DEF ConversationStep
<1> QED
    BY <1>5, <1>6, <1>7 DEF StepKeeps

\* and a restore, whose failure empties the session.
LEMMA RestoreKeeps ==
    IInv /\ HInv /\ RestoreSession =>
        /\ HInv' /\ RefusalStep /\ CancelStep /\ ConversationStep
        /\ faults' # faults => Text(sess') = <<>> /\ ~sess'.logitsValid
<1> SUFFICES ASSUME IInv, HInv, RestoreSession
             PROVE  /\ HInv' /\ RefusalStep /\ CancelStep /\ ConversationStep
                    /\ faults' # faults => Text(sess') = <<>> /\ ~sess'.logitsValid
    OBVIOUS
<1>1. ~job.running /\ image.taken /\ Call(Restore(sess, image.of, CanFail))
    BY DEF RestoreSession, May, Idle
<1>2. PICK o \in Restore(sess, image.of, CanFail) : Returns(o) /\ UNCHANGED <<job, image>>
    BY <1>1 DEF Call
<1>3. Held(sess) /\ HeldImage(image.of, sess)
    BY <1>1 DEF HInv, HeldAt
<1>4. PICK i : i = image.of
    OBVIOUS
<1>5. RestoredAs(sess, i, o)
    BY <1>2, <1>3, <1>4, RestoreSaid
<1>6. /\ sess' = o.s /\ out'.st = o.st /\ out'.toks = o.toks /\ job' = job /\ image' = image
      /\ faults' = faults + o.faults
    BY <1>2 DEF Returns
<1>7. o.faults \in Nat
    BY <1>2, RestoreCounted DEF Counted, Tallied
<1>8. faults' \in Nat /\ (faults' # faults => o.faults # 0) /\ (faults' = 0 => o.faults = 0)
    <2>1. PICK f, g \in Nat : f = faults /\ g = o.faults
        BY <1>7 DEF HInv
    <2>2. faults' = f + g
        BY <1>6, <2>1
    <2> QED
        BY <2>1, <2>2
<1>9. HInv'
    <2>1. TypedJob' /\ ~job'.running
        BY <1>1, <1>6 DEF HInv, TypedJob
    <2> QED
        BY <1>5, <1>6, <1>8, <2>1, HeldAfter DEF RestoredAs
<1>10. RefusalStep
    BY <1>5, <1>6 DEF RestoredAs, RefusalStep, Refusals
<1>11. CancelStep
    <2>1. Cancels(sess, o)
        BY <1>5 DEF RestoredAs, Cancels
    <2> QED
        BY <1>1, <1>6, <2>1, CancelsStep DEF CancelStep
<1>12. ASSUME faults' # faults
       PROVE  Text(sess') = <<>> /\ ~sess'.logitsValid
    BY <1>5, <1>6, <1>8, <1>12 DEF RestoredAs
<1>13. ConversationStep
    <2>1. ASSUME faults' = 0
          PROVE  Contract!Restore
        <3>1. o.st = "OK"
            BY <1>5, <1>8, <2>1 DEF RestoredAs
        <3>2. /\ Text(o.s) = ImageText(i) /\ Pin(o.s) = ImagePin(i) /\ o.s.logitsValid = i.logitsValid
              /\ SaidBy(o) = <<>>
            BY <1>5, <3>1 DEF RestoredAs
        <3>3. Text(sess)' = ImageText(i) /\ Pin(sess)' = ImagePin(i) /\ Says' = <<>>
            BY <1>6, <3>2 DEF Text, Content, PendingToken, Pin, Says, SaidBy
        <3>4. (Idle /\ sess.logitsValid)' = i.logitsValid
            BY <1>1, <1>3, <1>4, <1>6, <3>2 DEF Idle, HeldImage
        <3> QED
            BY <1>1, <1>4, <1>6, <3>3, <3>4 DEF Contract!Restore, ImageText, ImagePin, Pin
    <2> QED
        BY <2>1 DEF ConversationStep, Contract!Next
<1> QED
    BY <1>9, <1>10, <1>11, <1>12, <1>13

-----------------------------------------------------------------------------
(* The calls of several steps: a prefill and a pin. *)

\* A call that ends at once.
LEMMA EndedKept ==
    ASSUME IInv, HInv, ~job.running, NEW r, Returns(r), UNCHANGED <<job, image>>, r.faults \in Nat,
           Promise(sess, r), Speaks(sess, r)
    PROVE  StepKeeps
BY CallKeeps, CallConverses DEF StepKeeps

\* A step that only extends the text is one of the conversation, at any moment.
LEMMA ExtendsNext ==
    ASSUME NEW o, sess' = o.s, out' = [st |-> o.st, toks |-> o.toks], image' = image, Extends(sess, o)
    PROVE  ConversationStep
<1>1. Text(sess)' = Text(o.s) /\ Pin(sess)' = Pin(o.s) /\ Says' = SaidBy(o)
    BY MappedStep
<1>2. Contract!Extend
    BY <1>1 DEF Extends, StartOf, Contract!Extend, Contract!Begins, Pin
<1> QED
    BY <1>2 DEF Contract!Next, ConversationStep

\* A step without a failure, a refusal or a cancelled call.
LEMMA PlainStep ==
    ASSUME faults \in Nat, NEW r, Returns(r), r.faults = 0, r.st \in {"OK", "TOO_MANY_TOKENS", "RUNNING"},
           r.s.cancel = sess.cancel
    PROVE  RefusalStep /\ CancelStep /\ NothingLost /\ faults' = faults
<1>1. out'.st = r.st /\ sess' = r.s
    BY DEF Returns
<1>2. faults' = faults
    BY DEF Returns
<1>3. Cancels(sess, r)
    BY DEF Cancels
<1>4. CancelStep
    BY <1>1, <1>3, CancelsStep DEF CancelStep
<1> QED
    BY <1>1, <1>2, <1>4 DEF RefusalStep, Refusals, NothingLost

\* The start of a prefill.
LEMMA PrefillKeeps == IInv /\ HInv /\ Prefill => StepKeeps
<1> SUFFICES ASSUME IInv, HInv, Prefill PROVE StepKeeps
    OBVIOUS
<1>1. PICK ids \in Prompts(Bounds(sess).prompt), o \in Settle(sess, CanFail) :
         IF o.st # "OK" \/ ~RoomFor(o.s, Len(ids))
         THEN /\ Returns(IF o.st # "OK" THEN o
                         ELSE Out(Commit(o.s), "TOO_MANY_TOKENS", <<>>, 0))
              /\ UNCHANGED job
         ELSE /\ Returns([o EXCEPT !.st = "RUNNING", !.s = Commit(@)])
              /\ job' = [running |-> TRUE, ids |-> ids, pin |-> FALSE]
    BY DEF Prefill
<1>2. ~job.running /\ image' = image /\ faults \in Nat /\ Held(sess)
    BY HeldIdle DEF Prefill, May, Idle, HInv
<1>3. Counted(o) /\ IsOut(o)
    BY SettleCounted DEF Counted, Tallied
<1>4. ids \in Seq(Tokens) /\ ids # <<>>
    BY PromptsTyped
<1>5. /\ Held(o.s) /\ SameView(sess, o.s) /\ o.s.cancel = sess.cancel /\ SaidBy(o) = <<>>
      /\ o.st \in {"OK", "TOO_MANY_TOKENS", "BACKEND"} /\ (o.st = "OK" => ~o.s.deferred)
    BY <1>2, SettleUnseen, SettleSays DEF SettledAs
<1>6. Typed(sess) /\ Owes(sess) /\ Typed(o.s) /\ Owes(o.s)
    BY <1>2, <1>5 DEF Held
<1>7. CASE o.st # "OK"
    <2>1. Returns(o) /\ job' = job
        BY <1>1, <1>7
    <2>2. Promise(sess, o) /\ Speaks(sess, o)
        BY <1>5, <1>6, UnseenPromise
    <2> QED
        BY <1>2, <1>3, <2>1, <2>2, EndedKept DEF Counted, Tallied
<1> DEFINE c == Commit(o.s)
<1>8. /\ Grows(o.s, c, <<>>) /\ SameLogits(o.s, c) /\ Owes(c) /\ OnlyRecurrent(c)
      /\ c.cancel = o.s.cancel /\ c.deferred = o.s.deferred /\ c.kvLen = o.s.kvLen
    BY <1>6, CommitGrows
<1> HIDE DEF c
<1>9. SameView(sess, c) /\ Held(c) /\ SameModel(o.s, c)
    <2>1. SameView(o.s, c)
        BY <1>6, <1>8, GrowsUnseen
    <2>2. SameView(sess, c)
        BY <1>5, <2>1 DEF SameView, SameModel
    <2>3. Held(c)
        BY <1>5, <1>8 DEF Held, Grows, SameLogits
    <2> QED
        BY <2>1, <2>2, <2>3 DEF SameView
<1>10. CASE o.st = "OK" /\ ~RoomFor(o.s, Len(ids))
    <2>1. PICK r : r = Out(c, "TOO_MANY_TOKENS", <<>>, 0)
        OBVIOUS
    <2>2. Returns(r) /\ job' = job
        BY <1>1, <1>10, <2>1 DEF c
    <2>3. r.s = c /\ r.faults = 0 /\ r.st = "TOO_MANY_TOKENS" /\ SaidBy(r) = <<>>
        BY <2>1, OutCounted DEF SaidBy
    <2>4. Promise(sess, r) /\ Speaks(sess, r)
        BY <1>5, <1>6, <1>8, <1>9, <2>3, UnseenPromise
    <2> QED
        BY <1>2, <2>2, <2>3, <2>4, EndedKept
<1>11. CASE o.st = "OK" /\ RoomFor(o.s, Len(ids))
    <2>1. PICK r : r = [o EXCEPT !.st = "RUNNING", !.s = c]
        OBVIOUS
    <2>2. Returns(r) /\ job' = [running |-> TRUE, ids |-> ids, pin |-> FALSE]
        BY <1>1, <1>3, <1>11, <2>1 DEF IsOut, c
    <2>3. r.s = c /\ r.faults = 0 /\ r.st = "RUNNING" /\ SaidBy(r) = <<>>
        BY <1>3, <1>11, <2>1 DEF Counted, Tallied, IsOut, SaidBy
    <2>4. sess' = c /\ out' = [st |-> r.st, toks |-> r.toks]
        BY <2>2, <2>3 DEF Returns
    <2>5. RefusalStep /\ CancelStep /\ NothingLost /\ faults' = faults
        BY <1>2, <1>5, <1>8, <2>2, <2>3, PlainStep
    <2>6. HInv'
        <3>1. TypedJob' /\ job'.running /\ job'.ids = ids
            BY <1>4, <2>2 DEF TypedJob
        <3>2. SameModel(sess, c) /\ RoomFor(c, Len(ids)) /\ Typed(c) /\ ~c.deferred
            BY <1>5, <1>8, <1>9, <1>11 DEF SameView, RoomFor, SameModel, Held
        <3> QED
            BY <1>2, <1>4, <1>8, <2>4, <2>5, <3>1, <3>2, HeldRunning
    <2>7. ConversationStep
        <3>1. Extends(sess, r)
            <4>1. StartOf(Text(sess), Text(sess))
                BY <1>6, TextTyped, StartSelf
            <4> QED
                BY <1>9, <2>3, <4>1 DEF Extends, SameView
        <3> QED
            BY <1>2, <2>3, <2>4, <3>1, ExtendsNext
    <2> QED
        BY <2>5, <2>6, <2>7 DEF StepKeeps
<1> QED
    BY <1>7, <1>10, <1>11

\* A step to the emptied session.
LEMMA UnpinStep ==
    ASSUME NEW r, Returns(r), image' = image, EmptiedAs(sess, r.s), SaidBy(r) = <<>>
    PROVE  ConversationStep
<1>1. sess' = r.s /\ out' = [st |-> r.st, toks |-> r.toks]
    BY DEF Returns
<1>2. Text(sess)' = Text(r.s) /\ Pin(sess)' = Pin(r.s) /\ Says' = SaidBy(r)
    BY <1>1, MappedStep
<1>3. Contract!Unpin
    BY <1>1, <1>2 DEF EmptiedAs, Contract!Unpin, Pin
<1> QED
    BY <1>3 DEF Contract!Next, ConversationStep

\* The start of pin_prefix.
LEMMA PinKeeps == IInv /\ HInv /\ PinPrefix => StepKeeps
<1> SUFFICES ASSUME IInv, HInv, PinPrefix PROVE StepKeeps
    OBVIOUS
<1>1. PICK ids \in Prompts(Bounds(sess).prompt) \cup {<<>>}, o \in Settle(sess, CanFail) :
         LET empty == Reset([o.s EXCEPT !.prefixLength = 0]) IN
         \/ o.st # "OK" /\ Returns(o) /\ UNCHANGED job
         \/ o.st = "OK" /\ Returns([o EXCEPT !.st = "UNSUPPORTED"]) /\ UNCHANGED job
         \/ o.st = "OK" /\ Returns([o EXCEPT !.s = empty]) /\ UNCHANGED job
         \/ /\ o.st = "OK" /\ ids # <<>> /\ RoomFor(empty, Len(ids))
            /\ Returns([o EXCEPT !.st = "RUNNING", !.s = empty])
            /\ job' = [running |-> TRUE, ids |-> ids, pin |-> TRUE]
         \/ o.st = "OK" /\ Returns([o EXCEPT !.st = "TOO_MANY_TOKENS", !.s = empty]) /\ UNCHANGED job
    BY DEF PinPrefix
<1>2. ~job.running /\ image' = image /\ faults \in Nat /\ Held(sess)
    BY HeldIdle DEF PinPrefix, May, Idle, HInv
<1>3. Counted(o) /\ IsOut(o)
    BY SettleCounted DEF Counted, Tallied
<1>4. /\ Held(o.s) /\ SameView(sess, o.s) /\ o.s.cancel = sess.cancel /\ SaidBy(o) = <<>>
      /\ o.st \in {"OK", "TOO_MANY_TOKENS", "BACKEND"} /\ (o.st = "OK" => ~o.s.deferred)
    BY <1>2, SettleUnseen, SettleSays DEF SettledAs
<1>5. Typed(sess) /\ Owes(sess)
    BY <1>2 DEF Held
<1>6. PICK e : e = Reset([o.s EXCEPT !.prefixLength = 0])
    OBVIOUS
<1>7. EmptiedAs(sess, e)
    <2>1. EmptiedAs(o.s, e)
        BY <1>4, <1>6, EmptiedHeld
    <2> QED
        BY <1>4, <2>1 DEF EmptiedAs, SameView, SameModel
\* A call that ends here, on the settled session,
<1>8. ASSUME NEW r, Returns(r), r.faults = o.faults, r.s = o.s, r.st # "CANCELLED", SaidBy(r) = <<>>, job' = job
      PROVE  StepKeeps
    <2>1. Promise(sess, r) /\ Speaks(sess, r)
        BY <1>4, <1>5, <1>8, UnseenPromise
    <2> QED
        BY <1>2, <1>3, <1>8, <2>1, EndedKept DEF Counted, Tallied
\* or on the emptied one.
<1>9. ASSUME NEW r, Returns(r), r.faults = 0, r.s = e, r.st \in {"OK", "TOO_MANY_TOKENS"}, SaidBy(r) = <<>>,
             job' = job
      PROVE  StepKeeps
    <2>1. RefusalStep /\ CancelStep /\ NothingLost /\ faults' = faults
        BY <1>2, <1>7, <1>9, PlainStep DEF EmptiedAs
    <2>2. ConversationStep
        BY <1>2, <1>7, <1>9, UnpinStep
    <2>3. HInv'
        <3>1. sess' = e /\ TypedJob' /\ ~job'.running
            BY <1>2, <1>9 DEF Returns, HInv, TypedJob
        <3> QED
            BY <1>2, <1>7, <2>1, <3>1, HeldAfter DEF EmptiedAs
    <2> QED
        BY <2>1, <2>2, <2>3 DEF StepKeeps
<1>10. CASE o.st # "OK" /\ Returns(o) /\ job' = job
    BY <1>4, <1>8, <1>10
<1>11. CASE Returns([o EXCEPT !.st = "UNSUPPORTED"]) /\ job' = job
    <2>1. PICK r : r = [o EXCEPT !.st = "UNSUPPORTED"]
        OBVIOUS
    <2>2. r.faults = o.faults /\ r.s = o.s /\ r.st = "UNSUPPORTED" /\ SaidBy(r) = <<>>
        BY <1>3, <2>1 DEF IsOut, SaidBy
    <2> QED
        BY <1>8, <1>11, <2>1, <2>2
<1>12. CASE o.st = "OK" /\ Returns([o EXCEPT !.s = e]) /\ job' = job
    <2>1. PICK r : r = [o EXCEPT !.s = e]
        OBVIOUS
    <2>2. r.faults = 0 /\ r.s = e /\ r.st = "OK" /\ SaidBy(r) = <<>>
        BY <1>3, <1>4, <1>12, <2>1 DEF IsOut, Counted, Tallied, SaidBy
    <2> QED
        BY <1>9, <1>12, <2>1, <2>2
<1>13. CASE o.st = "OK" /\ Returns([o EXCEPT !.st = "TOO_MANY_TOKENS", !.s = e]) /\ job' = job
    <2>1. PICK r : r = [o EXCEPT !.st = "TOO_MANY_TOKENS", !.s = e]
        OBVIOUS
    <2>2. r.faults = 0 /\ r.s = e /\ r.st = "TOO_MANY_TOKENS" /\ SaidBy(r) = <<>>
        BY <1>3, <1>13, <2>1 DEF IsOut, Counted, Tallied, SaidBy
    <2> QED
        BY <1>9, <1>13, <2>1, <2>2
<1>14. CASE /\ o.st = "OK" /\ ids # <<>> /\ RoomFor(e, Len(ids))
            /\ Returns([o EXCEPT !.st = "RUNNING", !.s = e])
            /\ job' = [running |-> TRUE, ids |-> ids, pin |-> TRUE]
    <2>1. PICK r : r = [o EXCEPT !.st = "RUNNING", !.s = e]
        OBVIOUS
    <2>2. Returns(r) /\ r.faults = 0 /\ r.s = e /\ r.st = "RUNNING" /\ SaidBy(r) = <<>>
        BY <1>3, <1>14, <2>1 DEF IsOut, Counted, Tallied, SaidBy
    <2>3. RefusalStep /\ CancelStep /\ NothingLost /\ faults' = faults
        BY <1>2, <1>7, <2>2, PlainStep DEF EmptiedAs
    <2>4. ConversationStep
        BY <1>2, <1>7, <2>2, UnpinStep
    <2>5. HInv'
        <3>1. sess' = e
            BY <2>2 DEF Returns
        <3>2. ids \in Seq(Tokens)
            BY <1>14, PromptsTyped
        <3>3. TypedJob' /\ job'.running /\ job'.ids = ids
            BY <1>14, <3>2 DEF TypedJob
        <3>4. Typed(e) /\ Owes(e) /\ OnlyRecurrent(e) /\ ~e.deferred /\ SameModel(sess, e)
            BY <1>7 DEF EmptiedAs, Held
        <3> QED
            BY <1>2, <1>14, <2>3, <3>1, <3>3, <3>4, HeldRunning
    <2> QED
        BY <2>3, <2>4, <2>5 DEF StepKeeps
<1> QED
    BY <1>1, <1>6, <1>10, <1>11, <1>12, <1>13, <1>14

\* The next sub-batch, and the pin after the last one.
LEMMA SubBatchKeeps == IInv /\ HInv /\ SubBatch => StepKeeps
<1> SUFFICES ASSUME IInv, HInv, SubBatch PROVE StepKeeps
    OBVIOUS
<1>1. /\ job.running /\ image' = image /\ faults \in Nat /\ job.ids \in Seq(Tokens)
      /\ job = [running |-> job.running, ids |-> job.ids, pin |-> job.pin] /\ job.pin \in BOOLEAN
    BY DEF SubBatch, HInv, TypedJob
<1>2. PICK L \in Nat, ids \in Seq(Tokens) : ids = job.ids /\ L = Len(ids)
    BY <1>1
<1>3. PICK n : n = IF L < MMax THEN L ELSE MMax
    OBVIOUS
<1>4. PICK last \in BOOLEAN : last = (n = L)
    OBVIOUS
<1>5. PICK chunk, more : chunk = SubSeq(ids, 1, n) /\ more = SubSeq(ids, n + 1, L)
    OBVIOUS
<1>6. PICK o \in PrefillChunk(sess, chunk, last, CanFail) :
         IF o.st = "OK" /\ ~last
         THEN Returns([o EXCEPT !.st = "RUNNING"]) /\ job' = [job EXCEPT !.ids = more]
         ELSE /\ Returns(IF o.st = "OK" /\ job.pin THEN [o EXCEPT !.s.prefixLength = o.s.kvLen] ELSE o)
              /\ job' = NoJob
    BY <1>1, <1>2, <1>3, <1>4, <1>5 DEF SubBatch
<1>7. Counted(o) /\ IsOut(o)
    BY PrefillChunkCounted DEF Counted, Tallied
<1>8. n \in 0 .. L /\ n \in Nat /\ L - n \in Nat
    BY <1>3, SessionConstants
<1>9. chunk \in Seq(Tokens) /\ Len(chunk) = n
    BY <1>1, <1>2, <1>5, <1>8, CutText
<1>10. more \in Seq(Tokens) /\ Len(more) = L - n
    <2>1. \A i \in n + 1 .. L : ids[i] \in Tokens
        <3>1. TAKE i \in n + 1 .. L
        <3>2. i \in 1 .. Len(ids)
            BY <1>2, <1>8
        <3> QED
            BY <1>1, <1>2, <3>2, ElementOfSeq
    <2>2. n + 1 \in Int /\ L \in Int
        BY <1>8
    <2>3. more \in Seq(Tokens) /\ Len(more) = IF n + 1 <= L THEN L - (n + 1) + 1 ELSE 0
        BY <1>5, <2>1, <2>2, SubSeqProperties
    <2> QED
        BY <1>8, <2>3
<1>11. Typed(sess) /\ Owes(sess) /\ OnlyRecurrent(sess) /\ ~sess.deferred /\ RoomFor(sess, L)
    BY <1>1, <1>2 DEF HInv, HeldAt, HeldJob
<1>12. PICK k, M \in Nat : k = sess.kvLen /\ M = sess.maxLen /\ k + L <= M
    <2>1. PICK k, p, R, M \in Nat : k = sess.kvLen /\ p = sess.prefixLength /\ R = Len(sess.rows) /\ M = sess.maxLen
        BY <1>11, TypedNumbers
    <2> QED
        BY <1>11, <2>1 DEF RoomFor
<1>13. RoomFor(sess, Len(chunk))
    BY <1>8, <1>9, <1>12 DEF RoomFor
<1>14. Fed(sess, chunk, o) /\ (o.st = "OK" /\ last => o.s.logitsValid)
    BY <1>9, <1>11, <1>13, PrefillChunkFed
<1>15. /\ Typed(o.s) /\ Owes(o.s) /\ OnlyRecurrent(o.s) /\ ~o.s.deferred /\ Cancels(sess, o) /\ SaidBy(o) = <<>>
       /\ o.st \in {"OK", "CANCELLED", "BACKEND", "TOO_MANY_TOKENS"}
       /\ o.st = "OK" => Grows(sess, o.s, chunk)
       /\ o.st = "CANCELLED" => Grows(sess, o.s, <<>>) /\ ~o.s.logitsValid
    BY <1>11, <1>14 DEF Fed
<1>16. PICK g \in Seq(Tokens) : Grows(sess, o.s, g) /\ (o.st = "CANCELLED" => g = <<>>)
    <2>1. <<>> \in Seq(Tokens)
        OBVIOUS
    <2> QED
        BY <1>9, <1>14, <2>1 DEF Fed
<1>17. /\ Text(o.s) = Content(o.s) /\ Text(o.s) = Text(sess) \o g /\ StartOf(Text(sess), Text(o.s))
       /\ Text(sess) \in Seq(Tokens) /\ Pin(o.s) = Pin(sess) /\ SameModel(sess, o.s)
       /\ o.s.prefixLength = sess.prefixLength
    BY <1>11, <1>15, <1>16, GrowsText, GrowsPin, TextTyped DEF Grows
<1>18. Extends(sess, o)
    BY <1>15, <1>17 DEF Extends
\* Sub-batches are left.
<1>19. CASE o.st = "OK" /\ ~last
    <2>1. PICK r : r = [o EXCEPT !.st = "RUNNING"]
        OBVIOUS
    <2>2. Returns(r) /\ job' = [job EXCEPT !.ids = more]
        BY <1>6, <1>19, <2>1
    <2>3. r.s = o.s /\ r.faults = 0 /\ r.st = "RUNNING" /\ SaidBy(r) = <<>>
        BY <1>7, <1>19, <2>1 DEF IsOut, Counted, Tallied, SaidBy
    <2>4. o.s.cancel = sess.cancel
        BY <1>15, <1>19 DEF Cancels
    <2>5. RefusalStep /\ CancelStep /\ NothingLost /\ faults' = faults
        BY <1>1, <2>2, <2>3, <2>4, PlainStep
    <2>6. sess' = o.s /\ out' = [st |-> r.st, toks |-> r.toks]
        BY <2>2, <2>3 DEF Returns
    <2>7. ConversationStep
        <3>1. Extends(sess, r)
            BY <1>18, <2>3 DEF Extends
        <3> QED
            BY <1>1, <2>3, <2>6, <3>1, ExtendsNext
    <2>8. HInv'
        <3>1. job'.running /\ job'.ids = more /\ TypedJob'
            BY <1>1, <1>10, <2>2 DEF TypedJob
        <3>2. RoomFor(o.s, Len(more))
            <4>1. o.s.kvLen = k + n /\ o.s.maxLen = M
                BY <1>9, <1>12, <1>15, <1>17, <1>19 DEF Grows, SameModel
            <4>2. k + n + (L - n) <= M
                BY <1>8, <1>12
            <4> QED
                BY <1>10, <4>1, <4>2 DEF RoomFor
        <3>3. more # <<>>
            <4>1. n # L
                BY <1>4, <1>19
            <4>2. Len(more) # 0
                BY <1>8, <1>10, <4>1
            <4> QED
                BY <4>2
        <3> QED
            BY <1>1, <1>15, <1>17, <2>5, <2>6, <3>1, <3>2, <3>3, HeldRunning
    <2> QED
        BY <2>5, <2>7, <2>8 DEF StepKeeps
<1>20. ASSUME job' = NoJob
       PROVE  ~job'.running /\ TypedJob'
    BY <1>20 DEF NoJob, TypedJob
\* The prefill ends: it is done, was cancelled or failed.
<1>21. CASE ~(o.st = "OK" /\ ~last) /\ ~(o.st = "OK" /\ job.pin)
    <2>1. Returns(o) /\ job' = NoJob
        BY <1>6, <1>21
    <2>2. sess' = o.s /\ out'.st = o.st /\ out' = [st |-> o.st, toks |-> o.toks]
        BY <2>1 DEF Returns
    <2>3. faults' \in Nat
        BY <1>1, <1>7, <2>1, ReturnsFaults DEF Counted, Tallied
    <2>4. HInv'
        <3>1. Held(o.s)
            BY <1>15 DEF Held
        <3> QED
            BY <1>1, <1>17, <1>20, <2>1, <2>2, <2>3, <3>1, HeldAfter
    <2>5. RefusalStep
        BY <1>15, <2>2 DEF RefusalStep, Refusals
    <2>6. CancelStep
        <3>1. o.st = "CANCELLED" => ~o.s.logitsValid /\ Text(o.s) = Text(sess)
            BY <1>15, <1>16, <1>17, ConcatNothing
        <3>2. (sess.cancel /\ ~sess'.cancel) <=> (out'.st = "CANCELLED" /\ sess.cancel /\ sess' # sess)
            BY <1>15, <2>2, CancelsStep
        <3> QED
            BY <2>2, <3>1, <3>2 DEF CancelStep
    <2>7. NothingLost
        BY <1>17, <2>2 DEF NothingLost
    <2>8. ConversationStep
        BY <1>1, <1>18, <2>2, ExtendsNext
    <2> QED
        BY <2>4, <2>5, <2>6, <2>7, <2>8 DEF StepKeeps
\* It is done, and its text is pinned.
<1>22. CASE o.st = "OK" /\ last /\ job.pin
    <2>1. PICK t : t = [o.s EXCEPT !.prefixLength = o.s.kvLen]
        OBVIOUS
    <2>2. PICK r : r = [o EXCEPT !.s = t]
        OBVIOUS
    <2>3. Returns(r) /\ job' = NoJob
        <3>1. Returns([o EXCEPT !.s.prefixLength = o.s.kvLen]) /\ job' = NoJob
            BY <1>6, <1>22
        <3>2. [o EXCEPT !.s.prefixLength = o.s.kvLen] = r
            BY <1>7, <2>1, <2>2 DEF IsOut
        <3> QED
            BY <3>1, <3>2
    <2>4. r.s = t /\ r.faults = 0 /\ r.st = "OK" /\ SaidBy(r) = <<>>
        BY <1>7, <1>15, <1>22, <2>2 DEF IsOut, Counted, Tallied, SaidBy
    <2>5. /\ IsSession(t) /\ SameModel(o.s, t) /\ SameLogits(o.s, t) /\ t.rows = o.s.rows /\ t.kvLen = o.s.kvLen
          /\ t.prefixLength = o.s.kvLen /\ t.cancel = o.s.cancel /\ t.txn = o.s.txn /\ t.deferred = o.s.deferred
        BY <1>15, <2>1 DEF Typed, IsSession, SameModel, SameLogits
    <2>6. t.cancel = sess.cancel
        BY <1>15, <1>22, <2>5 DEF Cancels
    <2>7. RefusalStep /\ CancelStep /\ NothingLost /\ faults' = faults
        BY <1>1, <2>3, <2>4, <2>6, PlainStep
    <2>8. Typed(t)
        BY <1>15, <2>5 DEF Typed, SameModel
    <2>9. Held(t) /\ SameModel(sess, t)
        BY <1>15, <1>17, <2>5, <2>8 DEF Held, Owes, PendingToken, SameLogits, SameModel, OnlyRecurrent
    <2>10. sess' = t /\ out' = [st |-> r.st, toks |-> r.toks]
        BY <2>3, <2>4 DEF Returns
    <2>11. HInv'
        BY <1>1, <1>20, <2>3, <2>7, <2>9, <2>10, HeldAfter
    <2>12. ConversationStep
        <3>1. Text(sess)' = Text(t) /\ Pin(sess)' = Pin(t) /\ Says' = <<>>
            BY <2>4, <2>10, MappedStep
        <3>2. Text(t) = Text(o.s) /\ Pin(t) = Text(o.s)
            BY <1>17, <2>5 DEF Text, Content, PendingToken, SameLogits, Pin
        <3>3. (Idle /\ sess.logitsValid)'
            BY <1>14, <1>20, <1>22, <2>3, <2>5, <2>10 DEF Idle, SameLogits
        <3>4. Contract!Pin
            BY <1>1, <1>17, <3>1, <3>2, <3>3 DEF StartOf, Contract!Pin, Contract!Begins, Pin
        <3> QED
            BY <3>4 DEF Contract!Next, ConversationStep
    <2> QED
        BY <2>7, <2>11, <2>12 DEF StepKeeps
<1> QED
    BY <1>19, <1>21, <1>22

-----------------------------------------------------------------------------
(* The theorems. *)

\* A step of Session that is not a restore keeps all of it,
LEMMA NextKeeps == IInv /\ HInv /\ Next /\ ~RestoreSession => StepKeeps
BY PrefillKeeps, PinKeeps, SubBatchKeeps, CancelKeeps, DecodeKeeps, VerifyKeeps, TruncateKeeps,
   CheckpointKeeps, ResetKeeps, SnapshotKeeps DEF Next

\* and every step keeps what it says of failures.
LEMMA EveryStep ==
    IInv /\ HInv /\ [Next]_vars =>
        /\ HInv' /\ RefusalStep /\ CancelStep /\ ConversationStep
        /\ faults' # faults => IF RestoreSession THEN Text(sess') = <<>> /\ ~sess'.logitsValid
                               ELSE /\ Contract!Begins(Text(sess), Text(sess'))
                                    /\ sess'.prefixLength \in {0, sess.prefixLength}
<1> SUFFICES ASSUME IInv, HInv, [Next]_vars
             PROVE  /\ HInv' /\ RefusalStep /\ CancelStep /\ ConversationStep
                    /\ faults' # faults => IF RestoreSession THEN Text(sess') = <<>> /\ ~sess'.logitsValid
                                           ELSE /\ Contract!Begins(Text(sess), Text(sess'))
                                                /\ sess'.prefixLength \in {0, sess.prefixLength}
    OBVIOUS
<1>1. CASE RestoreSession
    BY <1>1, RestoreKeeps
<1>2. CASE Next /\ ~RestoreSession
    BY <1>2, NextKeeps DEF StepKeeps, NothingLost, StartOf, Contract!Begins
<1>3. CASE UNCHANGED vars
    <2>1. sess' = sess /\ job' = job /\ image' = image /\ out' = out /\ faults' = faults
        BY <1>3 DEF vars
    <2>2. HInv'
        BY <2>1 DEF HInv, TypedJob, HeldAt, HeldJob, Held, Typed, IsSession, Owes, PendingToken, RoomFor, HeldImage
    <2>3. RefusalStep /\ CancelStep
        BY <2>1 DEF RefusalStep, CancelStep
    <2>4. ConversationStep
        <3>1. UNCHANGED Contract!vars
            BY <2>1 DEF Contract!vars, Text, Content, PendingToken, Says, Idle
        <3> QED
            BY <3>1 DEF ConversationStep
    <2> QED
        BY <1>3, <2>1, <2>2, <2>3, <2>4, RestoreKeeps
<1> QED
    BY <1>1, <1>2, <1>3

\* Whatever has failed before, the session is one a call can be made on: its
\* numbers fit, the owed forward has a token to feed, no transaction is left open,
\* and the tokens a running prefill has still to feed have room.
THEOREM HeldAlways == Spec => []HInv
<1>1. Init => HInv
    BY InitHeld
<1>2. IInv /\ HInv /\ [Next]_vars => HInv'
    BY EveryStep
<1> QED
    BY <1>1, <1>2, Invariant, PTL DEF Spec

\* A refused call leaves text, logits, checkpoints and pin as they were, after
\* failures too.
THEOREM RefusalsAlwaysSpare == Spec => RefusalsChangeNothing
<1>1. IInv /\ HInv /\ [Next]_vars =>
        [(out' # out /\ out'.st \in {"UNSUPPORTED", "INVALID_ARG", "INVALID_STATE"}) =>
          /\ Text(sess') = Text(sess)
          /\ sess'.logitsValid = sess.logitsValid
          /\ sess'.ckptLens = sess.ckptLens
          /\ sess'.prefixLength = sess.prefixLength]_vars
    BY EveryStep DEF RefusalStep, Refusals
<1> QED
    BY <1>1, Invariant, HeldAlways, PTL DEF Spec, RefusalsChangeNothing

\* The request to cancel goes away with the call that reports it, and with no
\* other, and that call leaves a text without logits.
THEOREM CancelAlwaysExact == Spec => CancelIsExact
<1>1. IInv /\ HInv /\ [Next]_vars =>
        [/\ (sess.cancel /\ ~sess'.cancel) <=> (out'.st = "CANCELLED" /\ sess.cancel /\ sess' # sess)
         /\ (out'.st = "CANCELLED" /\ job.running /\ ~job'.running) =>
               ~sess'.logitsValid /\ Text(sess') = Text(sess)]_vars
    BY EveryStep DEF CancelStep
<1> QED
    BY <1>1, Invariant, HeldAlways, PTL DEF Spec, CancelIsExact

\* A backend failure takes nothing from the text, except that of a restore.
THEOREM FailuresAlwaysKeep == Spec => FailuresLoseNothing
<1>1. IInv /\ HInv /\ [Next]_vars =>
        [faults' # faults =>
          IF RestoreSession
          THEN Text(sess') = <<>> /\ ~sess'.logitsValid
          ELSE /\ Contract!Begins(Text(sess), Text(sess'))
               /\ sess'.prefixLength \in {0, sess.prefixLength}]_vars
    BY EveryStep
<1> QED
    BY <1>1, Invariant, HeldAlways, PTL DEF Spec, FailuresLoseNothing

\* As long as nothing fails, Session implements Conversation.
THEOREM SessionImplementsConversation == Spec => ImplementsConversation
<1>1. Init => Contract!Init
    BY InitConverses
<1>2. IInv /\ HInv /\ [Next]_vars => [faults' = 0 => Contract!Next]_(Contract!vars)
    BY EveryStep DEF ConversationStep
<1> QED
    BY <1>1, <1>2, Invariant, HeldAlways, PTL DEF Spec, ImplementsConversation
=============================================================================
