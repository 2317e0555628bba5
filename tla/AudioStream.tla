----------------------------- MODULE AudioStream -----------------------------
(***************************************************************************)
(* The streaming audio turn: session.c's audio_begin, push, poll, end and   *)
(* destroy over the encoder of encoder_stream.c, whose worker thread encodes *)
(* blocks while audio still arrives.  The encoder belongs to the model, so a *)
(* new session meets what the last one left in it.                           *)
(*                                                                           *)
(* Everything under the encoder's mutex is one step; the worker computes     *)
(* outside it, in steps that a reset may come between.  Audio is counted in  *)
(* mel frames of MEL_HOP samples.  A soft token is the turn and the place of *)
(* its audio, and whether its value is the one-shot encoder's.               *)
(*                                                                           *)
(* Callers keep to one turn at a time per model, as geist_util.h asks, and   *)
(* one session after the other stands for all.  A push is one step, though   *)
(* it tests audio_streaming before it locks: whatever comes between, it is   *)
(* then refused by the encoder or taken by the turn that is open.            *)
(***************************************************************************)
EXTENDS Integers, Sequences

CONSTANTS Chunk,      \* CHUNK_SIZE, soft tokens of a block
          MelCap,     \* AUDIO_MAX_MEL_FRAMES, what pcm_buf holds
          Pushes,     \* bound: frames of one push
          MaxTurns,   \* bound: turns
          MaxFaults   \* bound: failures of prefill_audio and pthread_create

ASSUME AudioAssumption ==
    /\ Chunk \in Nat \ {0}
    /\ MelCap \in Nat
    /\ Pushes \subseteq Nat \ {0}
    /\ MaxTurns \in Nat
    /\ MaxFaults \in Nat

VARIABLES
    mel,       \* mel_n_computed
    owner,     \* which turn wrote each frame of mel_buf
    endInput,  \* end_input_flag
    computed,  \* computed_flag
    shutdown,  \* shutdown_flag
    kick, final, lastMel,    \* worker_kick, worker_final, worker_last_mel
    subBuf, cached, melSeen, \* sub_buf, subs.n_t_out1, subs.n_mel_seen
    nSub,      \* n_sub_total
    kv,        \* attn[].n
    soft, nSoft, nDrained,   \* soft, n_soft, n_drained
    wpc,       \* where the worker is
    job,       \* the worker's locals
    spc,       \* where the session thread is: audio_streaming is spc = "open"
    heard,     \* tokens prefill_audio took this turn
    tail,      \* tokens audio_end has pulled so far
    pushed,    \* frames accepted this turn
    status,    \* what the last call that could end the turn returned
    told,      \* a call of this turn has failed
    turn,      \* turns begun
    aborted,   \* the last turn was destroyed while open
    clean,     \* this turn began with the worker idle, or after an ended turn
    faults     \* failures so far

lockedVars == <<mel, owner, endInput, computed, shutdown, kick, final, lastMel>>
streamVars == <<subBuf, cached, melSeen, nSub, kv, soft, nSoft>>
sessionVars == <<heard, tail, pushed, status, told, turn, aborted, clean, faults>>
vars == <<lockedVars, streamVars, nDrained, wpc, job, spc, sessionVars>>

-----------------------------------------------------------------------------
Least(a, b) == IF a < b THEN a ELSE b
Halved(n) == (n + 1) \div 2

\* Rows the two stride-2 convolutions make of n frames.
SubTokens(n) == Halved(Halved(n))

\* Mutant: the last row counts although its window reaches past the frames.
StableEager(n) == SubTokens(n)

\* Rows that no later frame can change.
Stable(n) ==
    IF n < 2 THEN 0
    ELSE (IF n % 2 = 0 THEN Halved(n) ELSE Halved(n) - 1) \div 2

\* What Stable has to answer to: row p of the second convolution reads rows up
\* to 2p + 1 of the first, and those read frames up to 4p + 3.
Settled(p, n) == 4 * p + 3 < n

SoftBound(n) == (n + 3) \div 4 + 4
SoftCap == SoftBound(MelCap + 1)
MaxSub == SubTokens(MelCap + 1)
Rows == 0 .. MaxSub - 1

Token(t, p, exact) == [turn |-> t, pos |-> p, exact |-> exact]
NoToken == Token(0, 0, FALSE)
NoJob == [snap |-> 0, final |-> FALSE, full |-> 0, block |-> 0, last |-> 0,
          kvAfter |-> 0, exact |-> FALSE]

Idle == wpc \in {"none", "sleep", "look"}
Wake(pc, asleep, awake) == IF pc = asleep THEN awake ELSE pc

Init ==
    /\ mel = 0 /\ owner = [f \in 0 .. MelCap - 1 |-> 0]
    /\ endInput = FALSE /\ computed = FALSE /\ shutdown = FALSE
    /\ kick = FALSE /\ final = FALSE /\ lastMel = 0
    /\ subBuf = [p \in Rows |-> NoToken] /\ cached = 0 /\ melSeen = 0 /\ nSub = 0 /\ kv = 0
    /\ soft = [p \in Rows |-> NoToken] /\ nSoft = 0 /\ nDrained = 0
    /\ wpc = "none" /\ job = NoJob
    /\ spc = "closed" /\ heard = <<>> /\ tail = <<>> /\ pushed = 0
    /\ status = "none" /\ told = FALSE /\ turn = 0 /\ aborted = FALSE /\ clean = TRUE
    /\ faults = 0

\* Mutant: the drain pointer survives.
ResetUndrained ==
    /\ mel' = 0 /\ endInput' = FALSE /\ computed' = FALSE
    /\ kick' = FALSE /\ final' = FALSE /\ lastMel' = 0
    /\ cached' = 0 /\ melSeen' = 0 /\ nSub' = 0 /\ kv' = 0 /\ nSoft' = 0 /\ nDrained' = nDrained
    /\ UNCHANGED <<owner, shutdown, subBuf, soft>>

\* audio_encoder_reset: takes the mutex, and does not wait for the worker.
EncoderReset ==
    /\ mel' = 0 /\ endInput' = FALSE /\ computed' = FALSE
    /\ kick' = FALSE /\ final' = FALSE /\ lastMel' = 0
    /\ cached' = 0 /\ melSeen' = 0 /\ nSub' = 0 /\ kv' = 0 /\ nSoft' = 0 /\ nDrained' = 0
    /\ UNCHANGED <<owner, shutdown, subBuf, soft>>

Fails == faults < MaxFaults /\ faults' = faults + 1
-----------------------------------------------------------------------------
(* The session thread, and the capture thread's push *)

Begin ==
    /\ spc = "closed" /\ ~shutdown
    /\ turn < MaxTurns
    /\ EncoderReset
    /\ wpc' = IF wpc = "none" THEN "look" ELSE wpc
    /\ spc' = "open"
    /\ heard' = <<>> /\ tail' = <<>> /\ pushed' = 0 /\ status' = "none" /\ told' = FALSE
    /\ turn' = turn + 1
    /\ clean' = (Idle \/ ~aborted)
    /\ aborted' = FALSE
    /\ UNCHANGED <<job, faults>>

\* The first turn's pthread_create fails.
BeginFails ==
    /\ spc = "closed" /\ wpc = "none" /\ ~shutdown
    /\ Fails
    /\ status' = "failed"
    /\ UNCHANGED <<lockedVars, streamVars, nDrained, wpc, job, spc, heard, tail, pushed,
                   told, turn, aborted, clean>>

\* Mutant: the worker is kicked and not woken.
SignalNobody == UNCHANGED wpc
\* pthread_cond_signal: nobody but the worker waits on cv while input is open.
SignalWorker == wpc' = Wake(wpc, "sleep", "look")

Fits(n) == mel + n <= MelCap

Push ==
    /\ spc = "open" /\ ~endInput
    /\ \E n \in Pushes :
         /\ Fits(n)
         /\ mel' = mel + n
         /\ owner' = [f \in DOMAIN owner |-> IF f \in mel .. mel + n - 1 THEN turn ELSE owner[f]]
         /\ pushed' = pushed + n
         /\ IF mel + n >= lastMel + 4 * Chunk
            THEN kick' = TRUE /\ SignalWorker
            ELSE UNCHANGED <<kick, wpc>>
    /\ UNCHANGED <<endInput, computed, shutdown, final, lastMel, streamVars, nDrained, job,
                   spc, heard, tail, status, told, turn, aborted, clean, faults>>

\* More than the buffer holds: refused whole.
PushRefused ==
    /\ spc = "open"
    /\ \E n \in Pushes : ~Fits(n)
    /\ told' = TRUE
    /\ UNCHANGED <<lockedVars, streamVars, nDrained, wpc, job, spc, heard, tail, pushed,
                   status, turn, aborted, clean, faults>>

Available == [i \in 1 .. nSoft - nDrained |-> soft[nDrained + i - 1]]

\* Drains what is ready and prefills it; a failing prefill drops it.
Poll ==
    /\ spc = "open"
    /\ nSoft > nDrained
    /\ nDrained' = nSoft
    /\ \/ heard' = heard \o Available /\ UNCHANGED <<told, faults>>
       \/ Fails /\ told' = TRUE /\ UNCHANGED heard
    /\ UNCHANGED <<lockedVars, streamVars, wpc, job, spc, tail, pushed, status, turn,
                   aborted, clean>>

\* Mutant: end_input only marks the end.
EndUnkicked ==
    /\ spc = "open"
    /\ endInput' = TRUE /\ final' = TRUE
    /\ SignalWorker
    /\ spc' = "pull"
    /\ UNCHANGED <<mel, owner, computed, shutdown, kick, lastMel, streamVars, nDrained, job,
                   sessionVars>>

\* audio_end up to its first pull.
End ==
    /\ spc = "open"
    /\ endInput' = TRUE /\ kick' = TRUE /\ final' = TRUE
    /\ wpc' = Wake(wpc, "sleep", "look")
    /\ spc' = "pull"
    /\ UNCHANGED <<mel, owner, computed, shutdown, lastMel, streamVars, nDrained, job,
                   sessionVars>>

\* pull_softtokens without a timeout.
PullSome ==
    /\ spc = "pull"
    /\ nSoft > nDrained
    /\ tail' = tail \o Available
    /\ nDrained' = nSoft
    /\ UNCHANGED <<lockedVars, streamVars, wpc, job, spc, heard, pushed, status, told, turn,
                   aborted, clean, faults>>

PullWaits ==
    /\ spc = "pull"
    /\ nSoft <= nDrained /\ ~computed
    /\ spc' = "wait"
    /\ UNCHANGED <<lockedVars, streamVars, nDrained, wpc, job, sessionVars>>

\* The pull that finds nothing more, and the rest of audio_end.
PullLast ==
    /\ spc = "pull"
    /\ nSoft <= nDrained /\ computed
    /\ spc' = "closed"
    /\ tail' = <<>>
    /\ LET total == Len(heard) + Len(tail) IN
       \/ /\ total \in 1 .. SoftCap - 1
          /\ heard' = heard \o tail /\ status' = "ok" /\ UNCHANGED <<told, faults>>
       \/ /\ total \notin 1 .. SoftCap - 1
          /\ status' = "failed" /\ told' = TRUE /\ UNCHANGED <<heard, faults>>
       \/ /\ total \in 1 .. SoftCap - 1 /\ tail # <<>> /\ Fails
          /\ status' = "failed" /\ told' = TRUE /\ UNCHANGED heard
    /\ UNCHANGED <<lockedVars, streamVars, nDrained, wpc, job, pushed, turn, aborted, clean>>

\* A session destroyed with its turn open aborts it.
Destroy ==
    /\ spc = "open"
    /\ EncoderReset
    /\ spc' = "closed" /\ status' = "none" /\ aborted' = TRUE
    /\ UNCHANGED <<wpc, job, heard, tail, pushed, told, turn, clean, faults>>

\* The model is unloaded: audio_encoder_destroy up to its join of the worker.
Shutdown ==
    /\ spc = "closed" /\ ~shutdown
    /\ shutdown' = TRUE
    /\ wpc' = Wake(wpc, "sleep", "look")
    /\ UNCHANGED <<mel, owner, endInput, computed, kick, final, lastMel, streamVars, nDrained,
                   job, spc, sessionVars>>

\* POSIX lets pthread_cond_wait return without a signal.
SpuriousWakeup ==
    /\ \/ wpc = "sleep" /\ wpc' = "look" /\ UNCHANGED spc
       \/ spc = "wait" /\ spc' = "pull" /\ UNCHANGED wpc
    /\ UNCHANGED <<lockedVars, streamVars, nDrained, job, sessionVars>>

-----------------------------------------------------------------------------
(* The worker: audio_encoder_stream_worker and stream_push *)

GoToSleep ==
    /\ wpc = "look"
    /\ ~kick /\ ~shutdown
    /\ wpc' = "sleep"
    /\ UNCHANGED <<lockedVars, streamVars, nDrained, job, spc, sessionVars>>

Exit ==
    /\ wpc = "look"
    /\ shutdown
    /\ wpc' = "gone"
    /\ UNCHANGED <<lockedVars, streamVars, nDrained, job, spc, sessionVars>>

TakeKick ==
    /\ wpc = "look"
    /\ kick /\ ~shutdown
    /\ kick' = FALSE
    /\ lastMel' = mel
    /\ job' = [NoJob EXCEPT !.snap = mel, !.final = final]
    /\ wpc' = IF mel = 0 THEN "done" ELSE "subsample"
    /\ UNCHANGED <<mel, owner, endInput, computed, shutdown, final, streamVars, nDrained, spc,
                   sessionVars>>

\* The incremental subsample: rows from the first unstable one on are made
\* again; a final push adds the padded frame.  Then the blocks to emit.
Subsample ==
    LET n     == job.snap + (IF job.final THEN 1 ELSE 0)
        fresh == n > melSeen
        rows  == IF fresh THEN SubTokens(n) ELSE cached
        full  == IF job.final THEN rows ELSE Least(rows, Stable(n))
        first == nSub \div Chunk
        last  == IF job.final THEN (full + Chunk - 1) \div Chunk ELSE full \div Chunk
    IN
    /\ wpc = "subsample"
    /\ IF fresh
       THEN /\ subBuf' = [p \in Rows |->
                            IF p \in cached .. rows - 1
                            THEN Token(owner[Least(4 * p, job.snap - 1)], p,
                                       job.final \/ Settled(p, n))
                            ELSE subBuf[p]]
            /\ cached' = Stable(n) /\ melSeen' = n
       ELSE UNCHANGED <<subBuf, cached, melSeen>>
    /\ job' = [job EXCEPT !.full = full, !.block = first, !.last = last]
    /\ wpc' = IF full <= nSub \/ last <= first THEN "done" ELSE "attend"
    /\ UNCHANGED <<lockedVars, nSub, kv, soft, nSoft, nDrained, spc, sessionVars>>

BlockRows == job.block * Chunk .. Least((job.block + 1) * Chunk, job.full) - 1
BlockEnd == Least((job.block + 1) * Chunk, job.full)

\* The layers read their caches at the block's own positions.
Attend ==
    /\ wpc = "attend"
    /\ job' = [job EXCEPT !.kvAfter = kv + BlockEnd - job.block * Chunk,
                          !.exact = (kv = job.block * Chunk)]
    /\ wpc' = "project"
    /\ UNCHANGED <<lockedVars, streamVars, nDrained, spc, sessionVars>>

Project ==
    /\ wpc = "project"
    /\ kv' = job.kvAfter
    /\ soft' = [p \in Rows |->
                  LET q == job.block * Chunk + (p - nSoft) IN
                  IF p >= nSoft /\ q < BlockEnd
                  THEN [subBuf[q] EXCEPT !.exact = @ /\ job.exact] ELSE soft[p]]
    /\ wpc' = "publish"
    /\ UNCHANGED <<lockedVars, subBuf, cached, melSeen, nSub, nSoft, nDrained, job, spc,
                   sessionVars>>

Publish ==
    /\ wpc = "publish"
    /\ nSoft' = nSoft + BlockEnd - job.block * Chunk
    /\ wpc' = "count"
    /\ UNCHANGED <<lockedVars, subBuf, cached, melSeen, nSub, kv, soft, nDrained, job, spc,
                   sessionVars>>

Count ==
    /\ wpc = "count"
    /\ nSub' = BlockEnd
    /\ job' = [job EXCEPT !.block = @ + 1]
    /\ wpc' = IF job.block + 1 < job.last THEN "attend" ELSE "done"
    /\ UNCHANGED <<lockedVars, subBuf, cached, melSeen, kv, soft, nSoft, nDrained, spc,
                   sessionVars>>

Finish ==
    /\ wpc = "done"
    /\ computed' = (computed \/ job.final)
    /\ final' = (final /\ ~job.final)
    /\ job' = NoJob
    /\ wpc' = "look"
    /\ spc' = Wake(spc, "wait", "pull")
    /\ UNCHANGED <<mel, owner, endInput, shutdown, kick, lastMel, streamVars, nDrained,
                   sessionVars>>

WorkerStep == \/ GoToSleep \/ Exit \/ TakeKick \/ Subsample
              \/ Attend \/ Project \/ Publish \/ Count \/ Finish
PullStep == PullSome \/ PullWaits \/ PullLast

Next == \/ Begin \/ BeginFails \/ Push \/ PushRefused \/ Poll \/ End \/ PullStep
        \/ Destroy \/ Shutdown \/ SpuriousWakeup \/ WorkerStep

Spec == Init /\ [][Next]_vars

\* The worker runs when it can, and so does a thread inside audio_end; nobody
\* has to begin, push or end.
FairSpec == Spec /\ WF_vars(WorkerStep) /\ WF_vars(PullStep)
-----------------------------------------------------------------------------
(* Properties *)

\* A turn is equivalent to attach_audio over its concatenated audio: the
\* tokens handed to the decoder are the one-shot encoder's, in order, from the
\* first on, and all of them when audio_end returns OK, wherever the worker
\* cut the audio and whatever was polled before.  Turns that a destroyed turn's
\* push is still running into are excused here, see TurnsDoNotMix.
Attached(n) == [i \in 1 .. SubTokens(n + 1) |-> Token(turn, i - 1, TRUE)]
TurnIsAttach ==
    (clean /\ ~told /\ turn > 0 /\ ~aborted) =>
        /\ Len(heard) + Len(tail) <= SubTokens(pushed + 1)
        /\ heard \o tail = SubSeq(Attached(pushed), 1, Len(heard) + Len(tail))
        /\ status = "ok" => heard = Attached(pushed)

\* The drain pointer never passes the tokens published, so that a pull never
\* computes a negative number of them, not even while a push of a turn that
\* was destroyed goes on.
DrainBehindPublish == nDrained <= nSoft /\ nSoft <= MaxSub

\* The encoder works while the audio arrives: the first block's tokens are
\* there without waiting for audio_end, which then pays for the tail only.
FirstBlockIsEarly ==
    (clean /\ spc = "open" /\ mel >= 4 * Chunk) ~> (nSoft >= Chunk \/ spc = "closed")

\* Nobody waits for ever: audio_end returns, and so does the join of
\* audio_encoder_destroy, for which the worker has to exit.
WaitsEnd == /\ (spc \in {"pull", "wait"}) ~> (spc = "closed")
            /\ shutdown ~> (wpc \in {"none", "gone"})

\* A turn never hears another's audio.  encoder arch.c says that an aborted
\* stream and one never opened are the same state; the abort does not wait for
\* a push the worker has begun.
TurnsDoNotMix ==
    \A i \in 1 .. Len(heard \o tail) : spc # "closed" => (heard \o tail)[i].turn = turn
=============================================================================
