------------------------- MODULE AudioStreamProofs -------------------------
(***************************************************************************)
(* Proofs about AudioStream, for every block size, buffer and pushes: the    *)
(* drain pointer stays behind what is published, whatever an aborted turn's  *)
(* push still does (DrainBehindPublish), and a turn hands the decoder the    *)
(* tokens of the one-shot encoder (TurnIsAttach).                            *)
(***************************************************************************)
EXTENDS AudioStream, SequenceTheorems, TLAPS

-----------------------------------------------------------------------------
(* The inductive invariant *)

SoftTokens == [turn : Nat, pos : Nat, exact : BOOLEAN]
Jobs == [snap : 0 .. MelCap, final : BOOLEAN, full : Nat, block : Nat, last : Nat,
         kvAfter : Int, exact : BOOLEAN]

FlagTypes ==
    /\ endInput \in BOOLEAN /\ computed \in BOOLEAN /\ shutdown \in BOOLEAN
    /\ kick \in BOOLEAN /\ final \in BOOLEAN
FrameTypes ==
    /\ mel \in 0 .. MelCap
    /\ owner \in [0 .. MelCap - 1 -> Nat]
    /\ lastMel \in Nat
StreamTypes ==
    /\ subBuf \in [Rows -> SoftTokens] /\ soft \in [Rows -> SoftTokens]
    /\ cached \in Nat /\ melSeen \in Nat
    /\ nSub \in Nat /\ kv \in Int /\ nSoft \in Nat /\ nDrained \in Nat
WorkerTypes ==
    /\ wpc \in {"none", "sleep", "look", "subsample", "attend", "project", "publish", "count",
                "done", "gone"}
    /\ job \in Jobs
SessionTypes ==
    /\ spc \in {"closed", "open", "pull", "wait"}
    /\ heard \in Seq(SoftTokens) /\ tail \in Seq(SoftTokens)
    /\ status \in {"none", "ok", "failed"}
    /\ pushed \in Nat /\ turn \in Nat
    /\ told \in BOOLEAN /\ aborted \in BOOLEAN /\ clean \in BOOLEAN
TypeInv == FlagTypes /\ FrameTypes /\ StreamTypes /\ WorkerTypes /\ SessionTypes

Busy == wpc \in {"subsample", "attend", "project", "publish", "count", "done"}
InBlock == wpc \in {"attend", "project", "publish", "count"}
Ending == spc \in {"pull", "wait"}

\* How far a turn has come: the last push is the worker's job only while the session
\* waits for it, and is answered once.
Course ==
    /\ final => Ending
    /\ Busy /\ job.final => Ending /\ ~kick /\ ~computed /\ job.snap = mel
    /\ computed => ~final /\ ~kick /\ spc # "open" /\ ~Busy
    /\ spc = "closed" /\ ~aborted => ~Busy /\ ~kick
    /\ wpc = "subsample" => job.snap > 0
    /\ ~Ending => tail = <<>>

\* The blocks a job still has to emit: whole ones, and the rest in a final job.
Blocks ==
    InBlock => /\ job.block < job.last
               /\ job.full <= MaxSub
               /\ job.last * Chunk < job.full + Chunk
               /\ IF job.final THEN job.full <= job.last * Chunk
                  ELSE job.last * Chunk <= job.full

\* Blocks are emitted whole until the last job of the turn.
Aligned == \/ \E k \in Nat : nSub = k * Chunk
           \/ computed
           \/ wpc = "done" /\ job.final

\* What is published never runs ahead of the place of the block the worker is at, even
\* where a reset has taken the counts back under it.
Published ==
    /\ nDrained <= nSoft
    /\ wpc \in {"attend", "project", "publish"} => nSoft <= job.block * Chunk
    /\ wpc = "count" => nSoft <= BlockEnd
    /\ ~InBlock => nSoft <= nSub
    /\ nSub <= MaxSub
    /\ cached <= MaxSub

BInv == TypeInv /\ Course /\ Blocks /\ Aligned /\ Published

Exact(p) == Token(turn, p, TRUE)
Whole == IF mel = 0 THEN 0 ELSE SubTokens(mel + 1)

\* What a turn begun on an idle worker has done so far is the one-shot encoder's work on
\* a part of its audio.
Frames ==
    /\ mel = pushed /\ turn > 0
    /\ \A f \in 0 .. mel - 1 : owner[f] = turn
    /\ Busy => job.snap <= mel
Sampled ==
    /\ cached = Stable(melSeen)
    /\ \/ melSeen <= mel
       \/ computed
       \/ (InBlock \/ wpc = "done") /\ job.final
    /\ \A p \in Rows : p < cached => subBuf[p] = Exact(p)
    /\ InBlock => \A p \in Rows : p < job.full => subBuf[p] = Exact(p)
Encoded ==
    /\ InBlock => nSub = job.block * Chunk /\ job.full <= Whole
    /\ InBlock /\ job.final => job.full = Whole
    /\ nSub <= Whole
    /\ nSoft = (IF wpc = "count" THEN BlockEnd ELSE nSub)
    /\ kv = (IF wpc \in {"publish", "count"} THEN BlockEnd ELSE nSub)
    /\ wpc = "project" => job.kvAfter = BlockEnd /\ job.exact
    /\ \A p \in Rows : p < (IF wpc = "publish" THEN BlockEnd ELSE nSoft) => soft[p] = Exact(p)
    /\ computed \/ (wpc = "done" /\ job.final) => nSub = Whole
FirstTokens(s, t, n) == Len(s) = n /\ \A i \in 1 .. n : s[i] = Token(t, i - 1, TRUE)
Handed ==
    /\ ~told => FirstTokens(heard \o tail, turn, nDrained)
    /\ status # "ok"

Sound == clean /\ spc # "closed" => Frames /\ Sampled /\ Encoded /\ Handed
Over == spc = "closed" => TurnIsAttach
TInv == BInv /\ Sound /\ Over


-----------------------------------------------------------------------------
(* Arithmetic *)

\* Division with remainder.
LEMMA Division ==
    ASSUME NEW a \in Nat, NEW b \in Nat \ {0}
    PROVE  /\ a \div b \in Nat
           /\ (a \div b) * b \in Nat
           /\ (a \div b) * b <= a
           /\ a < (a \div b) * b + b
<1>1. /\ a \div b \in Nat /\ a % b \in Nat /\ a % b < b
      /\ a = (a \div b) * b + (a % b)
    OBVIOUS
<1>2. PICK q \in Nat : q = a \div b
    BY <1>1
<1>3. q * b \in Nat
    OBVIOUS
<1> QED
    BY <1>1, <1>2, <1>3

\* The place of the next block is a block further on, and no block before another ends
\* behind its place.
LEMMA BlockPlaces ==
    ASSUME NEW a \in Nat, NEW b \in Nat, a < b
    PROVE  /\ a * Chunk \in Nat /\ b * Chunk \in Nat
           /\ (a + 1) * Chunk = a * Chunk + Chunk
           /\ a * Chunk + Chunk <= b * Chunk
<1>1. Chunk \in Nat
    BY AudioAssumption
<1>2. PICK d \in Nat : b = (a + 1) + d
    <2>1. b - (a + 1) \in Nat /\ b = (a + 1) + (b - (a + 1))
        OBVIOUS
    <2> QED
        BY <2>1
<1>3. b * Chunk = (a * Chunk + Chunk) + d * Chunk
    BY <1>1, <1>2
<1>4. a * Chunk \in Nat /\ d * Chunk \in Nat /\ (a + 1) * Chunk = a * Chunk + Chunk
    BY <1>1
<1> QED
    BY <1>1, <1>3, <1>4

\* A product with the block size is a number of rows.
LEMMA PlaceTyped ==
    ASSUME NEW a \in Nat
    PROVE  /\ a * Chunk \in Nat
           /\ (a + 1) * Chunk = a * Chunk + Chunk
    BY AudioAssumption

\* The rows the convolutions make of more frames are not fewer.
LEMMA SubTokensGrow ==
    ASSUME NEW m \in Nat, NEW n \in Nat, m <= n
    PROVE  /\ SubTokens(m) \in Nat /\ SubTokens(n) \in Nat
           /\ SubTokens(m) <= SubTokens(n)
    BY DEF SubTokens, Halved

\* What Stable has to answer to: the rows it counts exist, and read frames that are there.
LEMMA StableIsSettled ==
    ASSUME NEW n \in Nat
    PROVE  /\ Stable(n) \in Nat
           /\ Stable(n) <= SubTokens(n)
           /\ \A p \in Nat : p < Stable(n) => Settled(p, n)
    BY DEF Stable, Settled, SubTokens, Halved

\* Rows is a range that starts at 0.
LEMMA RowsTyped ==
    /\ MelCap \in Nat /\ MaxSub \in Nat
    /\ SubTokens(1) = 1 /\ 1 <= MaxSub
    /\ Rows \subseteq Nat
    /\ \A p \in Nat : p < MaxSub => p \in Rows
<1>1. MelCap \in Nat
    BY AudioAssumption
<1>2. SubTokens(1) = 1
    BY DEF SubTokens, Halved
<1>3. MaxSub \in Nat /\ 1 <= MaxSub
    BY <1>1, <1>2, SubTokensGrow DEF MaxSub
<1> QED
    BY <1>1, <1>2, <1>3 DEF Rows


-----------------------------------------------------------------------------
(* Steps *)

LEMMA InitHolds == Init => TInv
<1> SUFFICES ASSUME Init
             PROVE  TInv
    OBVIOUS
<1> USE DEF Init
<1>1. NoToken \in SoftTokens /\ NoJob \in Jobs
    BY RowsTyped DEF NoToken, Token, SoftTokens, NoJob, Jobs
<1>2. TypeInv
    <2>1. FlagTypes /\ FrameTypes
        BY RowsTyped DEF FlagTypes, FrameTypes
    <2>2. StreamTypes
        BY <1>1 DEF StreamTypes
    <2>3. WorkerTypes
        BY <1>1 DEF WorkerTypes
    <2>4. <<>> \in Seq(SoftTokens)
        OBVIOUS
    <2>5. SessionTypes
        BY <2>4 DEF SessionTypes
    <2> QED
        BY <2>1, <2>2, <2>3, <2>5 DEF TypeInv
<1>3. Course /\ Blocks
    BY DEF Course, Blocks, InBlock, Busy, Ending
<1>4. Aligned
    <2>1. 0 \in Nat /\ nSub = 0 * Chunk
        BY AudioAssumption
    <2> QED
        BY <2>1 DEF Aligned
<1>5. Published
    BY RowsTyped DEF Published, InBlock
<1>6. Sound /\ Over
    BY DEF Sound, Over, TurnIsAttach
<1> QED
    BY <1>2, <1>3, <1>4, <1>5, <1>6 DEF TInv, BInv

\* Steps that move neither audio nor tokens: somebody goes to sleep or wakes up, the
\* session starts to wait, or a call is refused.
LEMMA QuietStep ==
    ASSUME TInv, TypeInv',
           UNCHANGED <<mel, owner, endInput, computed, kick, final, lastMel, streamVars,
                       nDrained, job, heard, tail, pushed, turn, aborted, clean>>,
           wpc' = wpc \/ (~Busy /\ ~Busy'),
           spc' = spc \/ (Ending /\ Ending'),
           told => told',
           status' = status \/ status' # "ok"
    PROVE  TInv'
<1> USE DEF streamVars
<1>1. Course'
    BY DEF TInv, BInv, Course, Busy, Ending
<1>2. Blocks' /\ Aligned'
    BY DEF TInv, BInv, Blocks, Aligned, Busy, InBlock
<1>3. Published'
    BY DEF TInv, BInv, Published, Busy, InBlock, BlockEnd
<1>4. ASSUME clean', spc' # "closed"
      PROVE  Frames' /\ Sampled' /\ Encoded' /\ Handed'
    <2>1. Frames /\ Sampled /\ Encoded /\ Handed
        BY <1>4 DEF TInv, Sound, Ending
    <2>2. Frames'
        BY <2>1 DEF Frames, Busy
    <2>3. Sampled'
        BY <2>1 DEF Sampled, Busy, InBlock, Exact
    <2>4. Encoded'
        BY <2>1 DEF Encoded, Busy, InBlock, Exact, BlockEnd, Whole
    <2>5. told \in BOOLEAN /\ told' \in BOOLEAN
        BY DEF TInv, BInv, TypeInv, SessionTypes
    <2>6. Handed'
        BY <2>1, <2>5 DEF Handed, Exact, Ending
    <2> QED
        BY <2>2, <2>3, <2>4, <2>6
<1>5. Over'
    <2>1. told \in BOOLEAN /\ told' \in BOOLEAN
        BY DEF TInv, BInv, TypeInv, SessionTypes
    <2>2. CASE spc' = "closed"
        <3>1. spc = "closed" /\ TurnIsAttach
            BY <2>2 DEF TInv, Over, Ending
        <3> QED
            BY <2>1, <2>2, <3>1 DEF Over, TurnIsAttach, Attached
    <2> QED
        BY <2>2 DEF Over
<1> QED
    BY <1>1, <1>2, <1>3, <1>4, <1>5 DEF TInv, BInv, Sound

LEMMA QuietSteps ==
    ASSUME TInv,
           \/ BeginFails \/ PushRefused \/ PullWaits \/ Shutdown
           \/ SpuriousWakeup \/ GoToSleep \/ Exit
    PROVE  TInv'
<1>1. UNCHANGED <<mel, owner, endInput, computed, kick, final, lastMel, streamVars,
                  nDrained, job, heard, tail, pushed, turn, aborted, clean>>
    BY DEF BeginFails, PushRefused, PullWaits, Shutdown, SpuriousWakeup, GoToSleep, Exit,
        lockedVars, sessionVars
<1>2. /\ wpc' = wpc \/ (~Busy /\ ~Busy')
      /\ spc' = spc \/ (Ending /\ Ending')
      /\ told => told'
      /\ status' = status \/ status' # "ok"
    BY DEF BeginFails, PushRefused, PullWaits, Shutdown, SpuriousWakeup, GoToSleep, Exit,
        sessionVars, Wake, Busy, Ending
<1>3. TypeInv'
    <2>1. /\ shutdown' \in {shutdown, TRUE}
          /\ wpc' \in {wpc, "look", "sleep", "gone"}
          /\ spc' \in {spc, "wait", "pull"}
          /\ told' \in {told, TRUE}
          /\ status' \in {status, "failed"}
        BY DEF BeginFails, PushRefused, PullWaits, Shutdown, SpuriousWakeup, GoToSleep, Exit,
            lockedVars, sessionVars, Wake
    <2>2. FlagTypes' /\ FrameTypes' /\ StreamTypes'
        BY <1>1, <2>1 DEF TInv, BInv, TypeInv, FlagTypes, FrameTypes, StreamTypes, streamVars
    <2>3. WorkerTypes' /\ SessionTypes'
        BY <1>1, <2>1 DEF TInv, BInv, TypeInv, WorkerTypes, SessionTypes
    <2> QED
        BY <2>2, <2>3 DEF TypeInv
<1> QED
    BY <1>1, <1>2, <1>3, QuietStep


\* A reset of the encoder leaves nothing of the turn, and the worker in its job.
LEMMA ResetStep ==
    ASSUME TInv, EncoderReset, UNCHANGED job,
           wpc' = wpc \/ (~Busy /\ ~Busy'), WorkerTypes', SessionTypes',
           ~Ending, tail' = <<>>,
           spc' = "closed" /\ ~aborted' => ~Busy'
    PROVE  BInv'
<1> USE DEF EncoderReset, TInv, BInv
<1>1. TypeInv'
    <2>1. FlagTypes'
        BY DEF TypeInv, FlagTypes
    <2>3. FrameTypes'
        BY RowsTyped DEF TypeInv, FrameTypes
    <2>2. StreamTypes'
        BY DEF TypeInv, StreamTypes
    <2> QED
        BY <2>1, <2>2, <2>3 DEF TypeInv
<1>2. Blocks'
    BY DEF Blocks, Busy, InBlock
<1>3. Aligned'
    <2>1. 0 \in Nat /\ 0 = 0 * Chunk
        BY AudioAssumption
    <2> QED
        BY <2>1 DEF Aligned
<1>4. Published'
    <2>1. InBlock' => InBlock /\ job.block \in Nat /\ job.full \in Nat
        BY DEF InBlock, Busy, TypeInv, WorkerTypes, Jobs
    <2>2. InBlock' => job.block * Chunk \in Nat /\ BlockEnd \in Nat
        BY <2>1, PlaceTyped, AudioAssumption DEF BlockEnd, Least
    <2>3. wpc' = "count" => nSoft' <= BlockEnd'
        BY <2>2 DEF InBlock, BlockEnd
    <2> QED
        BY <2>2, <2>3, RowsTyped DEF Published, InBlock
<1>5. Course'
    BY DEF Course, Busy, Ending
<1> QED
    BY <1>1, <1>2, <1>3, <1>4, <1>5

LEMMA DestroyStep ==
    ASSUME TInv, Destroy
    PROVE  TInv'
<1>1. WorkerTypes' /\ SessionTypes'
    BY DEF TInv, BInv, TypeInv, WorkerTypes, SessionTypes, Destroy
<1>2. BInv'
    <2>1. ~Ending /\ tail' = <<>>
        BY DEF TInv, BInv, Course, Destroy, Ending
    <2>2. EncoderReset /\ UNCHANGED <<job, wpc>> /\ (aborted' <=> TRUE)
        BY DEF Destroy
    <2> QED
        BY <1>1, <2>1, <2>2, ResetStep
<1>3. Sound'
    BY DEF Sound, Destroy
<1>4. Over'
    BY DEF Over, Destroy, TurnIsAttach
<1> QED
    BY <1>2, <1>3, <1>4 DEF TInv

\* A turn that is counted as clean begins on a worker without a job: nothing of another
\* turn is left.
LEMMA BeginStep ==
    ASSUME TInv, Begin
    PROVE  TInv'
<1> USE DEF Begin
<1>1. WorkerTypes' /\ SessionTypes'
    <2>1. <<>> \in Seq(SoftTokens)
        OBVIOUS
    <2>2. clean' \in BOOLEAN
        BY DEF Idle
    <2>3. turn' \in Nat
        BY DEF TInv, BInv, TypeInv, SessionTypes
    <2>4. SessionTypes'
        BY <2>1, <2>2, <2>3 DEF SessionTypes
    <2> QED
        BY <2>4 DEF TInv, BInv, TypeInv, WorkerTypes
<1>2. BInv'
    <2>1. wpc' = wpc \/ (~Busy /\ ~Busy')
        BY DEF Busy
    <2>2. ~Ending /\ tail' = <<>> /\ spc' # "closed" /\ EncoderReset /\ UNCHANGED job
        BY DEF Ending
    <2> QED
        BY <1>1, <2>1, <2>2, ResetStep
<1>3. ASSUME clean'
      PROVE  Frames' /\ Sampled' /\ Encoded' /\ Handed'
    <2>1. ~Busy'
        BY <1>3 DEF TInv, BInv, Course, Idle, Busy
    <2>2. Frames'
        BY <2>1 DEF TInv, BInv, TypeInv, SessionTypes, Frames, EncoderReset
    <2>3. Sampled'
        BY <2>1, RowsTyped DEF Sampled, EncoderReset, InBlock, Busy, Stable
    <2>4. Encoded'
        BY <2>1, RowsTyped DEF Encoded, EncoderReset, InBlock, Busy, Whole
    <2>5. heard' \o tail' = <<>> /\ Len(<<>>) = 0
        BY ConcatEmptySeq, EmptySeq
    <2>6. Handed'
        BY <2>5 DEF Handed, EncoderReset, FirstTokens
    <2> QED
        BY <2>2, <2>3, <2>4, <2>6
<1>4. Sound' /\ Over'
    BY <1>3 DEF Sound, Over
<1> QED
    BY <1>2, <1>4 DEF TInv


-----------------------------------------------------------------------------
(* What the session takes *)

\* A pull takes the tokens between the drain pointer and those published.
LEMMA AvailableTyped ==
    ASSUME BInv
    PROVE  /\ nSoft \in 0 .. MaxSub /\ nDrained \in 0 .. nSoft
           /\ Available \in Seq(SoftTokens)
           /\ Len(Available) = nSoft - nDrained
           /\ \A i \in 1 .. nSoft - nDrained :
                nDrained + i - 1 \in Rows /\ Available[i] = soft[nDrained + i - 1]
<1> USE DEF BInv
<1>1. nSoft \in Nat /\ nDrained \in Nat /\ nDrained <= nSoft
    BY DEF TypeInv, StreamTypes, Published
<1>2. nSoft <= MaxSub
    <2>1. CASE InBlock
        <3>1. PICK f \in Nat, b \in Nat, c \in Nat :
                 f = job.full /\ b = job.block * Chunk /\ c = (job.block + 1) * Chunk
            BY PlaceTyped DEF TypeInv, WorkerTypes, Jobs
        <3>2. f <= MaxSub /\ MaxSub \in Nat
            BY <2>1, <3>1, RowsTyped DEF Blocks
        <3>3. job.block * Chunk <= job.full
            <4>1. PICK bl \in Nat, la \in Nat : bl = job.block /\ la = job.last /\ bl < la
                BY <2>1 DEF Blocks, TypeInv, WorkerTypes, Jobs
            <4>2. b + Chunk <= la * Chunk /\ la * Chunk \in Nat /\ Chunk \in Nat
                BY <3>1, <4>1, BlockPlaces, AudioAssumption
            <4>3. la * Chunk < f + Chunk
                BY <2>1, <3>1, <4>1 DEF Blocks
            <4> QED
                BY <3>1, <4>2, <4>3
        <3>4. BlockEnd <= f
            BY <3>1 DEF BlockEnd, Least
        <3>5. BlockEnd \in Nat
            BY <3>1 DEF BlockEnd, Least
        <3> QED
            BY <1>1, <2>1, <3>1, <3>2, <3>3, <3>4, <3>5 DEF Published, InBlock
    <2>2. CASE ~InBlock
        BY <1>1, <2>2, RowsTyped DEF Published, TypeInv, StreamTypes
    <2> QED
        BY <2>1, <2>2
<1>3. MaxSub \in Nat
    BY RowsTyped
<1>4. \A i \in 1 .. nSoft - nDrained : nDrained + i - 1 \in Rows
    BY <1>1, <1>2, <1>3 DEF Rows
<1>5. \A i \in 1 .. nSoft - nDrained : soft[nDrained + i - 1] \in SoftTokens
    BY <1>4 DEF TypeInv, StreamTypes
<1>6. nSoft - nDrained \in Nat
    BY <1>1
<1> QED
    BY <1>1, <1>2, <1>3, <1>4, <1>5, <1>6, IsASeq DEF Available

\* Tokens taken one after the other are the first ones.
LEMMA TokensExtend ==
    ASSUME NEW s \in Seq(SoftTokens), NEW a \in Seq(SoftTokens), NEW t,
           NEW n \in Nat, NEW m \in Nat, n <= m,
           FirstTokens(s, t, n), Len(a) = m - n,
           \A i \in 1 .. m - n : a[i] = Token(t, n + i - 1, TRUE)
    PROVE  FirstTokens(s \o a, t, m)
<1>1. PICK e : /\ e = s \o a /\ Len(e) = m
               /\ \A i \in 1 .. m : e[i] = IF i <= n THEN s[i] ELSE a[i - n]
    <2>1. Len(s) = n /\ Len(s) + Len(a) = m
        BY DEF FirstTokens
    <2>2. /\ Len(s \o a) = Len(s) + Len(a)
          /\ \A i \in 1 .. Len(s) + Len(a) :
                (s \o a)[i] = IF i <= Len(s) THEN s[i] ELSE a[i - Len(s)]
        BY ConcatProperties
    <2> QED
        BY <2>1, <2>2
<1>2. ASSUME NEW i \in 1 .. m
      PROVE  e[i] = Token(t, i - 1, TRUE)
    <2>1. CASE i <= n
        <3>1. e[i] = s[i]
            BY <1>1, <2>1
        <3> QED
            <4>1. i \in 1 .. n
                BY <2>1
            <4>2. \A j \in 1 .. n : s[j] = Token(t, j - 1, TRUE)
                BY DEF FirstTokens
            <4> QED
                BY <3>1, <4>1, <4>2
    <2>2. CASE ~(i <= n)
        <3>1. i - n \in 1 .. m - n /\ n + (i - n) - 1 = i - 1
            BY <2>2
        <3>2. e[i] = a[i - n]
            BY <1>1, <2>2
        <3> QED
            BY <3>1, <3>2 DEF Token
    <2> QED
        BY <2>1, <2>2
<1> QED
    BY <1>1, <1>2 DEF FirstTokens

\* A pull, from the session's thread or from a poll, goes on where the last one stopped.
LEMMA PullKeeps ==
    ASSUME TInv, clean, spc # "closed", ~told
    PROVE  FirstTokens((heard \o tail) \o Available, turn, nSoft)
<1>1. Encoded /\ Handed
    BY DEF TInv, Sound
<1>2. PICK n \in Nat, m \in Nat : n = nDrained /\ m = nSoft /\ n <= m
    BY AvailableTyped DEF TInv, BInv, TypeInv, StreamTypes
<1>3. heard \o tail \in Seq(SoftTokens) /\ Available \in Seq(SoftTokens)
    BY AvailableTyped, ConcatProperties DEF TInv, BInv, TypeInv, SessionTypes
<1>4. \A p \in Rows : p < m => soft[p] = Exact(p)
    <2>1. CASE wpc = "publish"
        <3>1. BlockEnd \in Int /\ nSoft <= BlockEnd
            <4>1. nSoft = nSub /\ nSub = job.block * Chunk
                BY <1>1, <2>1 DEF Encoded, InBlock
            <4>2. PICK bl \in Nat, la \in Nat, f \in Nat :
                     bl = job.block /\ la = job.last /\ f = job.full /\ bl < la
                BY <2>1 DEF TInv, BInv, Blocks, InBlock, TypeInv, WorkerTypes, Jobs
            <4>3. /\ bl * Chunk \in Nat /\ la * Chunk \in Nat /\ Chunk \in Nat
                  /\ (bl + 1) * Chunk = bl * Chunk + Chunk
                  /\ bl * Chunk + Chunk <= la * Chunk
                BY <4>2, BlockPlaces, AudioAssumption
            <4>4. la * Chunk < f + Chunk
                BY <2>1, <4>2 DEF TInv, BInv, Blocks, InBlock
            <4> QED
                BY <4>1, <4>2, <4>3, <4>4 DEF BlockEnd, Least
        <3> QED
            BY <1>1, <1>2, <2>1, <3>1, RowsTyped DEF Encoded
    <2>2. CASE wpc # "publish"
        BY <1>1, <1>2, <2>2 DEF Encoded
    <2> QED
        BY <2>1, <2>2
<1>5. \A i \in 1 .. m - n : Available[i] = Token(turn, n + i - 1, TRUE)
    <2>1. BInv
        BY DEF TInv
    <2>2. ASSUME NEW i \in 1 .. m - n
          PROVE  Available[i] = Token(turn, n + i - 1, TRUE)
        <3>1. n + i - 1 \in Rows /\ Available[i] = soft[n + i - 1] /\ n + i - 1 < m
            BY <1>2, <2>1, AvailableTyped
        <3> QED
            BY <1>4, <3>1 DEF Exact, Token
    <2> QED
        BY <2>2
<1>6. Len(Available) = m - n
    BY <1>2, AvailableTyped DEF TInv
<1>7. FirstTokens(heard \o tail, turn, n)
    BY <1>1, <1>2 DEF Handed
<1> QED
    BY <1>2, <1>3, <1>5, <1>6, <1>7, TokensExtend


-----------------------------------------------------------------------------
(* The session's calls *)

\* While the turn is open no job is the last one.
LEMMA OpenTurn ==
    ASSUME TInv, spc = "open"
    PROVE  ~computed /\ ~final /\ (Busy => ~job.final)
    BY DEF TInv, BInv, Course, Ending

\* A worker that is woken has no job.
LEMMA Woken ==
    ASSUME WorkerTypes, wpc' = wpc \/ wpc' = Wake(wpc, "sleep", "look"), UNCHANGED job
    PROVE  WorkerTypes' /\ (wpc' = wpc \/ (~Busy /\ ~Busy'))
    BY DEF WorkerTypes, Wake, Busy

LEMMA EndStep ==
    ASSUME TInv, End
    PROVE  TInv'
<1> USE DEF End
<1>1. /\ UNCHANGED <<mel, owner, computed, shutdown, lastMel, streamVars, nDrained, job,
                     heard, tail, pushed, status, told, turn, aborted, clean>>
      /\ spc = "open" /\ spc' = "pull"
    BY DEF sessionVars
<1>2. TypeInv /\ Course /\ Blocks /\ Aligned /\ Published
    BY DEF TInv, BInv
<1>3. WorkerTypes' /\ (wpc' = wpc \/ (~Busy /\ ~Busy'))
    BY <1>2, Woken DEF TypeInv
<1>4. TypeInv'
    <2>1. FlagTypes'
        BY <1>1, <1>2 DEF TypeInv, FlagTypes
    <2>2. FrameTypes' /\ StreamTypes'
        BY <1>1, <1>2 DEF TypeInv, FrameTypes, StreamTypes, streamVars
    <2>3. SessionTypes'
        BY <1>1, <1>2 DEF TypeInv, SessionTypes
    <2> QED
        BY <1>3, <2>1, <2>2, <2>3 DEF TypeInv
<1>5. Course'
    BY <1>1, <1>2, <1>3, OpenTurn DEF Course, Ending, Busy
<1>6. Blocks' /\ Aligned'
    BY <1>1, <1>2, <1>3 DEF Blocks, Aligned, Busy, InBlock, streamVars
<1>7. Published'
    BY <1>1, <1>2, <1>3 DEF Published, Busy, InBlock, streamVars, BlockEnd
<1>8. ASSUME clean'
      PROVE  Frames' /\ Sampled' /\ Encoded' /\ Handed'
    <2>1. Frames /\ Sampled /\ Encoded /\ Handed
        BY <1>1, <1>8 DEF TInv, Sound
    <2>2. Frames'
        BY <1>1, <1>3, <2>1 DEF Frames, Busy
    <2>3. Sampled'
        BY <1>1, <1>3, <2>1 DEF Sampled, Busy, InBlock, streamVars, Exact, Token
    <2>4. Encoded'
        BY <1>1, <1>3, <2>1 DEF Encoded, Busy, InBlock, streamVars, Exact, Token, BlockEnd, Whole
    <2>5. Handed'
        BY <1>1, <2>1 DEF Handed
    <2> QED
        BY <2>2, <2>3, <2>4, <2>5
<1> QED
    BY <1>1, <1>4, <1>5, <1>6, <1>7, <1>8 DEF TInv, BInv, Sound, Over

LEMMA PushStep ==
    ASSUME TInv, Push
    PROVE  TInv'
<1>1. PICK n \in Pushes :
        /\ Fits(n)
        /\ mel' = mel + n
        /\ owner' = [f \in DOMAIN owner |-> IF f \in mel .. mel + n - 1 THEN turn ELSE owner[f]]
        /\ pushed' = pushed + n
        /\ kick' \in {kick, TRUE}
        /\ wpc' = wpc \/ wpc' = Wake(wpc, "sleep", "look")
    BY DEF Push, SignalWorker
<1>2. /\ UNCHANGED <<endInput, computed, shutdown, final, lastMel, streamVars, nDrained, job,
                     heard, tail, status, told, turn, aborted, clean>>
      /\ spc = "open" /\ spc' = "open"
    BY DEF Push
<1>3. TypeInv /\ Course /\ Blocks /\ Aligned /\ Published
    BY DEF TInv, BInv
<1>4. WorkerTypes' /\ (wpc' = wpc \/ (~Busy /\ ~Busy'))
    BY <1>1, <1>2, <1>3, Woken DEF TypeInv
<1>5. n \in Nat /\ mel \in Nat /\ mel + n <= MelCap
    BY <1>1, <1>3, AudioAssumption DEF Fits, TypeInv, FrameTypes
<1>6. TypeInv'
    <2>1. FlagTypes'
        BY <1>1, <1>2, <1>3 DEF TypeInv, FlagTypes
    <2>2. mel' \in 0 .. MelCap /\ lastMel' \in Nat
        BY <1>1, <1>2, <1>3, <1>5, RowsTyped DEF TypeInv, FrameTypes
    <2>3. owner' \in [0 .. MelCap - 1 -> Nat]
        BY <1>1, <1>3 DEF TypeInv, FrameTypes, SessionTypes
    <2>4. StreamTypes'
        BY <1>2, <1>3 DEF TypeInv, StreamTypes, streamVars
    <2>5. SessionTypes'
        BY <1>1, <1>2, <1>3, <1>5 DEF TypeInv, SessionTypes
    <2> QED
        BY <1>4, <2>1, <2>2, <2>3, <2>4, <2>5 DEF TypeInv, FrameTypes
<1>7. Course'
    BY <1>2, <1>3, <1>4, OpenTurn DEF Course, Ending, Busy
<1>8. Blocks' /\ Aligned'
    BY <1>2, <1>3, <1>4 DEF Blocks, Aligned, Busy, InBlock, streamVars
<1>9. Published'
    BY <1>2, <1>3, <1>4 DEF Published, Busy, InBlock, streamVars, BlockEnd
<1>10. ASSUME clean'
       PROVE  Frames' /\ Sampled' /\ Encoded' /\ Handed'
    <2>1. Frames /\ Sampled /\ Encoded /\ Handed
        BY <1>2, <1>10 DEF TInv, Sound
    <2>2. ~computed /\ (Busy => ~job.final)
        BY <1>2, OpenTurn
    <2>3. Whole \in Nat /\ Whole' \in Nat /\ Whole <= Whole'
        <3>1. SubTokens(mel + 1) \in Nat /\ SubTokens(mel' + 1) \in Nat
              /\ SubTokens(mel + 1) <= SubTokens(mel' + 1)
            BY <1>1, <1>5, SubTokensGrow
        <3> QED
            BY <1>1, <1>5, <3>1 DEF Whole
    <2>4. Frames'
        <3>1. mel' = pushed' /\ turn' > 0
            BY <1>1, <1>2, <2>1 DEF Frames
        <3>2. \A f \in 0 .. mel' - 1 : owner'[f] = turn'
            <4>1. \A f \in 0 .. mel - 1 : owner[f] = turn
                BY <2>1 DEF Frames
            <4>2. DOMAIN owner = 0 .. MelCap - 1 /\ MelCap \in Nat
                BY <1>3, RowsTyped DEF TypeInv, FrameTypes
            <4>3. ASSUME NEW f \in 0 .. mel + n - 1
                  PROVE  owner'[f] = turn
                <5>1. f \in DOMAIN owner /\ (f \in mel .. mel + n - 1 \/ f \in 0 .. mel - 1)
                    BY <1>5, <4>2
                <5> QED
                    BY <1>1, <4>1, <5>1
            <4>4. mel' = mel + n /\ turn' = turn
                BY <1>1, <1>2
            <4> QED
                BY <1>5, <4>3, <4>4
        <3>3. Busy' => job'.snap <= mel'
            BY <1>1, <1>2, <1>3, <1>4, <1>5, <2>1 DEF Frames, Busy, TypeInv, WorkerTypes, Jobs
        <3> QED
            BY <3>1, <3>2, <3>3 DEF Frames
    <2>5. Sampled'
        <3>1. melSeen' <= mel'
            BY <1>1, <1>2, <1>3, <1>5, <2>1, <2>2 DEF Sampled, Busy, InBlock, TypeInv,
                StreamTypes, streamVars
        <3> QED
            BY <1>2, <1>4, <2>1, <3>1 DEF Sampled, Busy, InBlock, Exact, Token, streamVars
    <2>6. Encoded'
        <3>1. InBlock' => nSub' = job'.block * Chunk /\ job'.full <= Whole'
            BY <1>2, <1>3, <1>4, <2>1, <2>3 DEF Encoded, Busy, InBlock, TypeInv,
                WorkerTypes, Jobs, streamVars
        <3>2. nSub' <= Whole'
            BY <1>2, <1>3, <2>1, <2>3 DEF Encoded, TypeInv, StreamTypes, streamVars
        <3>3. ~(InBlock' /\ job'.final) /\ ~computed' /\ ~(wpc' = "done" /\ job'.final)
            BY <1>2, <1>4, <2>2 DEF Busy, InBlock
        <3> QED
            BY <1>2, <1>4, <2>1, <3>1, <3>2, <3>3 DEF Encoded, Busy, InBlock, Exact,
                Token, BlockEnd, streamVars
    <2>7. Handed'
        BY <1>2, <2>1 DEF Handed
    <2> QED
        BY <2>4, <2>5, <2>6, <2>7
<1> QED
    BY <1>2, <1>6, <1>7, <1>8, <1>9, <1>10 DEF TInv, BInv, Sound, Over


\* A step that only moves the drain pointer up to what is published, and hands over what
\* lies between or loses it.
LEMMA DrainStep ==
    ASSUME TInv, spc \in {"open", "pull"},
           UNCHANGED <<lockedVars, streamVars, wpc, job, spc, pushed, status, turn, aborted,
                       clean>>,
           nDrained' = nSoft,
           heard' \in Seq(SoftTokens), tail' \in Seq(SoftTokens),
           told' \in BOOLEAN,
           spc = "open" => tail' = tail,
           ~told' => ~told /\ heard' \o tail' = (heard \o tail) \o Available
    PROVE  TInv'
<1>1. TypeInv /\ Course /\ Blocks /\ Aligned /\ Published
    BY DEF TInv, BInv
<1>2. TypeInv'
    <2>1. FlagTypes' /\ FrameTypes'
        BY <1>1 DEF TypeInv, FlagTypes, FrameTypes, lockedVars
    <2>2. StreamTypes'
        BY <1>1 DEF TypeInv, StreamTypes, streamVars
    <2>3. WorkerTypes' /\ SessionTypes'
        BY <1>1 DEF TypeInv, WorkerTypes, SessionTypes
    <2> QED
        BY <2>1, <2>2, <2>3 DEF TypeInv
<1>3. Course'
    BY <1>1 DEF Course, Ending, Busy, lockedVars
<1>4. Blocks' /\ Aligned'
    BY <1>1 DEF Blocks, Aligned, InBlock, streamVars, lockedVars
<1>5. Published'
    BY <1>1 DEF Published, InBlock, BlockEnd, streamVars, TypeInv, StreamTypes
<1>6. ASSUME clean
      PROVE  Frames' /\ Sampled' /\ Encoded' /\ Handed'
    <2>1. Frames /\ Sampled /\ Encoded /\ Handed
        BY <1>6 DEF TInv, Sound
    <2>2. Frames'
        BY <2>1 DEF Frames, Busy, lockedVars
    <2>3. Sampled'
        BY <2>1 DEF Sampled, InBlock, lockedVars, streamVars, Exact, Token
    <2>4. Encoded'
        BY <2>1 DEF Encoded, InBlock, lockedVars, streamVars, Exact, Token, BlockEnd, Whole
    <2>5. status' # "ok"
        BY <2>1 DEF Handed
    <2>6. ASSUME ~told'
          PROVE  FirstTokens(heard' \o tail', turn', nDrained')
        <3>1. FirstTokens((heard \o tail) \o Available, turn, nSoft)
            BY <1>6, <2>6, PullKeeps
        <3> QED
            BY <2>6, <3>1
    <2> QED
        BY <2>2, <2>3, <2>4, <2>5, <2>6 DEF Handed
<1> QED
    BY <1>2, <1>3, <1>4, <1>5, <1>6 DEF TInv, BInv, Sound, Over

LEMMA PollStep ==
    ASSUME TInv, Poll
    PROVE  TInv'
<1>1. /\ UNCHANGED <<lockedVars, streamVars, wpc, job, spc, pushed, status, turn, aborted,
                     clean, tail>>
      /\ spc = "open" /\ nDrained' = nSoft
      /\ \/ heard' = heard \o Available /\ told' = told
         \/ heard' = heard /\ told' = TRUE
    BY DEF Poll
<1>2. /\ heard \in Seq(SoftTokens) /\ tail \in Seq(SoftTokens) /\ told \in BOOLEAN
      /\ tail = <<>>
    BY <1>1 DEF TInv, BInv, Course, Ending, TypeInv, SessionTypes
<1>3. Available \in Seq(SoftTokens)
    BY AvailableTyped DEF TInv
<1>4. heard \o Available \in Seq(SoftTokens)
    BY <1>2, <1>3, ConcatProperties
<1>5. heard \o <<>> = heard /\ (heard \o Available) \o <<>> = heard \o Available
    BY <1>2, <1>4, ConcatEmptySeq
<1>6. heard' \in Seq(SoftTokens) /\ told' \in BOOLEAN
    BY <1>1, <1>2, <1>4
<1>7. ~told' => ~told /\ heard' \o tail' = (heard \o tail) \o Available
    BY <1>1, <1>2, <1>5
<1> QED
    BY <1>1, <1>2, <1>6, <1>7, DrainStep

LEMMA PullSomeStep ==
    ASSUME TInv, PullSome
    PROVE  TInv'
<1>1. /\ UNCHANGED <<lockedVars, streamVars, wpc, job, spc, pushed, status, turn, aborted,
                     clean, heard, told>>
      /\ spc = "pull" /\ nDrained' = nSoft
      /\ tail' = tail \o Available
    BY DEF PullSome
<1>2. heard \in Seq(SoftTokens) /\ tail \in Seq(SoftTokens) /\ told \in BOOLEAN
    BY DEF TInv, BInv, TypeInv, SessionTypes
<1>3. Available \in Seq(SoftTokens)
    BY AvailableTyped DEF TInv
<1>4. tail' \in Seq(SoftTokens) /\ heard \o tail' = (heard \o tail) \o Available
    BY <1>1, <1>2, <1>3, ConcatProperties, ConcatAssociative
<1> QED
    BY <1>1, <1>2, <1>4, DrainStep

\* The first tokens of a turn are a prefix of the one-shot encoder's.
LEMMA FirstOfAttached ==
    ASSUME NEW s \in Seq(SoftTokens), NEW n \in Nat, n <= SubTokens(pushed + 1),
           FirstTokens(s, turn, n), pushed \in Nat, turn \in Nat
    PROVE  /\ s = SubSeq(Attached(pushed), 1, n)
           /\ n = SubTokens(pushed + 1) => s = Attached(pushed)
<1>1. PICK k \in Nat : k = SubTokens(pushed + 1)
    BY SubTokensGrow
<1>2. PICK a : a = Attached(pushed)
    OBVIOUS
<1>3. a = [i \in 1 .. k |-> Token(turn, i - 1, TRUE)]
    BY <1>1, <1>2 DEF Attached
<1>4. \A i \in 1 .. k : Token(turn, i - 1, TRUE) \in SoftTokens
    BY <1>1 DEF Token, SoftTokens
<1>5. a \in Seq(SoftTokens) /\ Len(a) = k /\ \A i \in 1 .. k : a[i] = Token(turn, i - 1, TRUE)
    <2>1. a = [i \in 1 .. k |-> a[i]] /\ \A i \in 1 .. k : a[i] = Token(turn, i - 1, TRUE)
        BY <1>3
    <2>2. \A i \in 1 .. k : a[i] \in SoftTokens
        BY <1>4, <2>1
    <2>3. [i \in 1 .. k |-> a[i]] \in Seq(SoftTokens) /\ Len([i \in 1 .. k |-> a[i]]) = k
        BY <2>2, IsASeq
    <2> QED
        BY <2>1, <2>3
<1>6. Len(s) = n /\ \A i \in 1 .. n : s[i] = Token(turn, i - 1, TRUE)
    BY DEF FirstTokens
<1>7. n = k => s = a
    BY <1>5, <1>6, SeqEqual
<1>8. PICK c : c = SubSeq(a, 1, n)
    OBVIOUS
<1>9. c \in Seq(SoftTokens) /\ Len(c) = n /\ \A i \in 1 .. n : c[i] = a[i]
    <2>1. \A i \in 1 .. n : i \in 1 .. k
        BY <1>1
    <2>2. \A i \in 1 .. n : a[i] \in SoftTokens
        BY <1>4, <1>5, <2>1
    <2>3. /\ SubSeq(a, 1, n) \in Seq(SoftTokens)
          /\ Len(SubSeq(a, 1, n)) = IF 1 <= n THEN n - 1 + 1 ELSE 0
          /\ \A i \in 1 .. n - 1 + 1 : SubSeq(a, 1, n)[i] = a[1 + i - 1]
        BY <2>2, SubSeqProperties
    <2> QED
        BY <1>8, <2>3
<1>10. s = c
    <2>1. \A i \in 1 .. n : s[i] = c[i]
        <3> TAKE i \in 1 .. n
        <3>1. i \in 1 .. k
            BY <1>1
        <3> QED
            BY <1>5, <1>6, <1>9, <3>1
    <2> QED
        BY <1>6, <1>9, <2>1, SeqEqual
<1> QED
    BY <1>1, <1>2, <1>7, <1>8, <1>10

\* audio_end's last pull: nothing is published that it does not have, and the worker has
\* answered the last push, so an OK is for the whole turn.
LEMMA PullLastStep ==
    ASSUME TInv, PullLast
    PROVE  TInv'
<1>1. /\ UNCHANGED <<lockedVars, streamVars, nDrained, wpc, job, pushed, turn, aborted, clean>>
      /\ spc = "pull" /\ spc' = "closed" /\ tail' = <<>>
      /\ nSoft <= nDrained /\ computed
    BY DEF PullLast
<1>2. \/ /\ Len(heard) + Len(tail) >= 1
         /\ heard' = heard \o tail /\ status' = "ok" /\ told' = told
      \/ heard' = heard /\ status' = "failed" /\ told' = TRUE
    BY DEF PullLast
<1>3. TypeInv /\ Course /\ Blocks /\ Aligned /\ Published
    BY DEF TInv, BInv
<1>4. /\ heard \in Seq(SoftTokens) /\ tail \in Seq(SoftTokens) /\ <<>> \in Seq(SoftTokens)
      /\ heard \o tail \in Seq(SoftTokens)
      /\ Len(heard \o tail) = Len(heard) + Len(tail)
    BY <1>3, ConcatProperties, EmptySeq DEF TypeInv, SessionTypes
<1>5. TypeInv'
    <2>1. FlagTypes' /\ FrameTypes'
        BY <1>1, <1>3 DEF TypeInv, FlagTypes, FrameTypes, lockedVars
    <2>2. StreamTypes'
        BY <1>1, <1>3 DEF TypeInv, StreamTypes, streamVars
    <2>3. told' \in BOOLEAN /\ heard' \in Seq(SoftTokens) /\ status' \in {"ok", "failed"}
        BY <1>2, <1>3, <1>4 DEF TypeInv, SessionTypes
    <2>4. WorkerTypes' /\ SessionTypes'
        BY <1>1, <1>3, <1>4, <2>3 DEF TypeInv, WorkerTypes, SessionTypes
    <2> QED
        BY <2>1, <2>2, <2>4 DEF TypeInv
<1>6. ~Busy /\ ~kick /\ ~final
    BY <1>1, <1>3 DEF Course
<1>7. Course'
    BY <1>1, <1>6 DEF Course, Ending, Busy, lockedVars
<1>8. Blocks' /\ Aligned'
    BY <1>1, <1>3 DEF Blocks, Aligned, InBlock, streamVars, lockedVars
<1>9. Published'
    BY <1>1, <1>3 DEF Published, InBlock, BlockEnd, streamVars
<1>10. ASSUME clean', ~told'
       PROVE  /\ Len(heard') + Len(tail') <= SubTokens(pushed' + 1)
              /\ heard' \o tail' = SubSeq(Attached(pushed)', 1, Len(heard') + Len(tail'))
              /\ status' = "ok" => heard' = Attached(pushed)'
    <2>1. Frames /\ Encoded /\ Handed
        BY <1>1, <1>10 DEF TInv, Sound
    <2>2. ~told /\ heard' = heard \o tail /\ Len(heard \o tail) >= 1
        BY <1>2, <1>4, <1>10
    <2>3. PICK n \in Nat : n = nDrained
        BY <1>3 DEF TypeInv, StreamTypes
    <2>4. FirstTokens(heard', turn, n)
        BY <2>1, <2>2, <2>3 DEF Handed
    <2>5. Len(heard') = n /\ n >= 1
        BY <2>2, <2>4 DEF FirstTokens
    <2>6. n = nSub
        BY <1>3, <1>6, <1>1, <2>1, <2>3 DEF Encoded, Busy, Published, TypeInv, StreamTypes
    <2>7. n = Whole /\ mel = pushed /\ pushed \in Nat /\ turn \in Nat
        BY <1>1, <1>3, <2>1, <2>6 DEF Encoded, Frames, TypeInv, SessionTypes
    <2>8. n = SubTokens(pushed + 1)
        BY <2>5, <2>7 DEF Whole
    <2>9. heard' \in Seq(SoftTokens)
        BY <1>4, <2>2
    <2>10. heard' = SubSeq(Attached(pushed), 1, n) /\ heard' = Attached(pushed)
        BY <2>4, <2>7, <2>8, <2>9, FirstOfAttached
    <2>11. heard' \o <<>> = heard' /\ Len(<<>>) = 0 /\ Len(heard') + 0 = n
        BY <2>5, <2>9, ConcatEmptySeq, EmptySeq
    <2>12. Attached(pushed)' = Attached(pushed)
        BY <1>1 DEF Attached
    <2> QED
        BY <1>1, <2>8, <2>10, <2>11, <2>12
<1>11. Over'
    BY <1>10 DEF Over, TurnIsAttach
<1> QED
    BY <1>1, <1>5, <1>7, <1>8, <1>9, <1>11 DEF TInv, BInv, Sound


-----------------------------------------------------------------------------
(* The worker *)

\* Where a block lies: whole, unless it is the last of a final job.
LEMMA BlockFacts ==
    ASSUME BInv, InBlock
    PROVE  \E b, e \in Nat :
             /\ b = job.block * Chunk /\ e = BlockEnd
             /\ b < e /\ e <= job.full /\ job.full <= MaxSub
             /\ job.block + 1 < job.last \/ ~job.final => e = (job.block + 1) * Chunk
             /\ ~(job.block + 1 < job.last) /\ job.final => e = job.full
<1>1. PICK k \in Nat, la \in Nat, f \in Nat : k = job.block /\ la = job.last /\ f = job.full
    BY DEF BInv, TypeInv, WorkerTypes, Jobs
<1>2. /\ k < la /\ f <= MaxSub /\ la * Chunk < f + Chunk
      /\ job.final => f <= la * Chunk
      /\ ~job.final => la * Chunk <= f
    BY <1>1 DEF BInv, Blocks
<1>3. PICK b \in Nat : b = k * Chunk /\ (k + 1) * Chunk = b + Chunk
    BY PlaceTyped
<1>4. PICK z \in Nat : z = la * Chunk /\ b + Chunk <= z
    BY <1>1, <1>2, <1>3, BlockPlaces
<1>5. Chunk \in Nat \ {0} /\ MaxSub \in Nat
    BY AudioAssumption, RowsTyped
<1>6. PICK e : e = Least(b + Chunk, f)
    OBVIOUS
<1>7. e \in Nat /\ b < e /\ e <= f /\ (b + Chunk <= f => e = b + Chunk)
      /\ (f <= b + Chunk => e = f)
    BY <1>2, <1>4, <1>5, <1>6 DEF Least
<1>8. e = BlockEnd
    BY <1>1, <1>3, <1>6 DEF BlockEnd
<1>9. k + 1 < la => b + Chunk <= f
    <2> HAVE k + 1 < la
    <2>1. (k + 1) * Chunk + Chunk <= z
        BY <1>4, BlockPlaces
    <2> QED
        BY <1>2, <1>3, <1>4, <1>5, <2>1
<1>10. ~job.final => b + Chunk <= f
    BY <1>2, <1>4, <1>5
<1>11. ~(k + 1 < la) /\ job.final => f <= b + Chunk
    <2> HAVE ~(k + 1 < la) /\ job.final
    <2>1. la = k + 1
        BY <1>1, <1>2
    <2> QED
        BY <1>2, <1>3, <2>1
<1> QED
    BY <1>1, <1>2, <1>3, <1>7, <1>8, <1>9, <1>10, <1>11

LEMMA TakeKickStep ==
    ASSUME TInv, TakeKick
    PROVE  TInv'
<1>1. /\ UNCHANGED <<mel, owner, endInput, computed, shutdown, final, streamVars, nDrained,
                     spc, sessionVars>>
      /\ wpc = "look" /\ kick /\ kick' = FALSE /\ lastMel' = mel
      /\ job' = [NoJob EXCEPT !.snap = mel, !.final = final]
      /\ wpc' = IF mel = 0 THEN "done" ELSE "subsample"
    BY DEF TakeKick
<1>2. TypeInv /\ Course /\ Aligned /\ Published
    BY DEF TInv, BInv
<1>3. mel \in 0 .. MelCap /\ mel \in Nat /\ final \in BOOLEAN
    BY <1>2, RowsTyped DEF TypeInv, FrameTypes, FlagTypes
<1>4. job' \in Jobs /\ job'.snap = mel /\ job'.final = final
    <2>1. job' = [snap |-> mel, final |-> final, full |-> 0, block |-> 0, last |-> 0,
                  kvAfter |-> 0, exact |-> FALSE]
        BY <1>1 DEF NoJob
    <2> QED
        BY <1>3, <2>1 DEF Jobs
<1>5. ~InBlock' /\ ~Busy /\ ~InBlock
    BY <1>1 DEF InBlock, Busy
<1>6. TypeInv'
    <2>1. FlagTypes'
        BY <1>1, <1>2 DEF TypeInv, FlagTypes
    <2>2. FrameTypes' /\ StreamTypes'
        BY <1>1, <1>2, <1>3 DEF TypeInv, FrameTypes, StreamTypes, streamVars
    <2>3. WorkerTypes'
        BY <1>1, <1>4 DEF WorkerTypes
    <2>4. SessionTypes'
        BY <1>1, <1>2 DEF TypeInv, SessionTypes, sessionVars
    <2> QED
        BY <2>1, <2>2, <2>3, <2>4 DEF TypeInv
<1>7. Course'
    BY <1>1, <1>2, <1>3, <1>4 DEF Course, Ending, sessionVars
<1>8. Blocks' /\ Aligned'
    BY <1>1, <1>2, <1>5 DEF Blocks, Aligned, streamVars
<1>9. Published'
    BY <1>1, <1>2, <1>5 DEF Published, InBlock, streamVars
<1>10. ASSUME clean', spc' # "closed"
       PROVE  Frames' /\ Sampled' /\ Encoded' /\ Handed'
    <2>1. Frames /\ Sampled /\ Encoded /\ Handed
        BY <1>1, <1>10 DEF TInv, Sound, sessionVars
    <2>2. Frames'
        BY <1>1, <1>3, <1>4, <2>1 DEF Frames, sessionVars
    <2>3. Sampled'
        BY <1>1, <1>2, <1>5, <2>1 DEF Sampled, Course, Exact, Token, streamVars, sessionVars
    <2>4. Encoded'
        <3>1. computed' \/ (wpc' = "done" /\ job'.final) => nSub' = Whole'
            <4>1. nSub \in Nat /\ nSub <= Whole /\ ~computed /\ nSub' = nSub
                BY <1>1, <1>2, <2>1 DEF Encoded, Course, TypeInv, StreamTypes, streamVars
            <4> QED
                BY <1>1, <4>1 DEF Whole
        <3> QED
            BY <1>1, <1>5, <2>1, <3>1 DEF Encoded, InBlock, Exact, Token, Whole, streamVars,
                sessionVars
    <2>5. Handed'
        BY <1>1, <2>1 DEF Handed, sessionVars
    <2> QED
        BY <2>2, <2>3, <2>4, <2>5
<1>11. Over'
    BY <1>1 DEF TInv, Over, TurnIsAttach, Attached, sessionVars
<1> QED
    BY <1>6, <1>7, <1>8, <1>9, <1>10, <1>11 DEF TInv, BInv, Sound

\* A job is answered, and the turn's last one with it.
LEMMA FinishStep ==
    ASSUME TInv, Finish
    PROVE  TInv'
<1>1. /\ UNCHANGED <<mel, owner, endInput, shutdown, kick, lastMel, streamVars, nDrained,
                     sessionVars>>
      /\ wpc = "done" /\ wpc' = "look" /\ job' = NoJob
      /\ computed' = (computed \/ job.final)
      /\ final' = (final /\ ~job.final)
      /\ spc' = Wake(spc, "wait", "pull")
    BY DEF Finish
<1>2. TypeInv /\ Course /\ Aligned /\ Published
    BY DEF TInv, BInv
<1>3. Busy /\ ~InBlock /\ ~InBlock' /\ ~Busy'
    BY <1>1 DEF InBlock, Busy
<1>4. ~computed /\ (computed' <=> job.final) /\ (final' <=> final /\ ~job.final)
    BY <1>1, <1>2, <1>3 DEF Course
<1>5. spc' = spc \/ (Ending /\ Ending')
    BY <1>1 DEF Wake, Ending
<1>6. TypeInv'
    <2>1. computed' \in BOOLEAN /\ final' \in BOOLEAN
        BY <1>1
    <2>2. FlagTypes'
        BY <1>1, <1>2, <2>1 DEF TypeInv, FlagTypes
    <2>3. FrameTypes' /\ StreamTypes'
        BY <1>1, <1>2 DEF TypeInv, FrameTypes, StreamTypes, streamVars
    <2>4. WorkerTypes'
        BY <1>1, RowsTyped DEF WorkerTypes, NoJob, Jobs
    <2>5. SessionTypes'
        BY <1>1, <1>2 DEF TypeInv, SessionTypes, sessionVars, Wake
    <2> QED
        BY <2>2, <2>3, <2>4, <2>5 DEF TypeInv
<1>7. Course'
    <2>1. UNCHANGED <<kick, tail, aborted>>
        BY <1>1 DEF sessionVars
    <2>2. job.final => Ending /\ ~kick
        BY <1>2, <1>3 DEF Course
    <2> QED
        BY <1>1, <1>2, <1>3, <1>4, <1>5, <2>1, <2>2 DEF Course, Ending
<1>8. Blocks' /\ Aligned'
    BY <1>1, <1>2, <1>3, <1>4 DEF Blocks, Aligned, streamVars
<1>9. Published'
    BY <1>1, <1>2, <1>3 DEF Published, InBlock, streamVars
<1>10. ASSUME clean', spc' # "closed"
       PROVE  Frames' /\ Sampled' /\ Encoded' /\ Handed'
    <2>1. Frames /\ Sampled /\ Encoded /\ Handed
        BY <1>1, <1>5, <1>10 DEF TInv, Sound, sessionVars, Ending
    <2>2. Frames'
        BY <1>1, <1>3, <2>1 DEF Frames, sessionVars
    <2>3. Sampled'
        BY <1>1, <1>3, <1>4, <2>1 DEF Sampled, Exact, Token, streamVars, sessionVars
    <2>4. Encoded'
        BY <1>1, <1>3, <1>4, <2>1 DEF Encoded, InBlock, Exact, Token, Whole, streamVars,
            sessionVars
    <2>5. Handed'
        BY <1>1, <2>1 DEF Handed, sessionVars
    <2> QED
        BY <2>2, <2>3, <2>4, <2>5
<1>11. Over'
    BY <1>1, <1>5 DEF TInv, Over, TurnIsAttach, Attached, sessionVars, Ending
<1> QED
    BY <1>6, <1>7, <1>8, <1>9, <1>10, <1>11 DEF TInv, BInv, Sound


\* Steps of the worker between two published blocks leave all that the mutex guards, and
\* the session, as it is.
LEMMA AttendStep ==
    ASSUME TInv, Attend
    PROVE  TInv'
<1>1. /\ UNCHANGED <<lockedVars, streamVars, nDrained, spc, sessionVars>>
      /\ wpc = "attend" /\ wpc' = "project"
      /\ job' = [job EXCEPT !.kvAfter = kv + BlockEnd - job.block * Chunk,
                            !.exact = (kv = job.block * Chunk)]
    BY DEF Attend
<1>2. TypeInv /\ Course /\ Blocks /\ Aligned /\ Published
    BY DEF TInv, BInv
<1>3. InBlock /\ InBlock' /\ Busy /\ Busy'
    BY <1>1 DEF InBlock, Busy
<1>4. PICK b \in Nat, e \in Nat : b = job.block * Chunk /\ e = BlockEnd
    BY <1>3, BlockFacts DEF TInv
<1>5. PICK x \in BOOLEAN : x = (kv = b)
    OBVIOUS
<1>6. PICK v \in Int : v = kv + e - b
    <2>1. kv \in Int
        BY <1>2 DEF TypeInv, StreamTypes
    <2> QED
        BY <2>1
<1>7. job' = [job EXCEPT !.kvAfter = v, !.exact = x]
    BY <1>1, <1>4, <1>5, <1>6
<1>8. /\ job' \in Jobs
      /\ job'.snap = job.snap /\ job'.final = job.final /\ job'.full = job.full
      /\ job'.block = job.block /\ job'.last = job.last
      /\ job'.kvAfter = v /\ job'.exact = x
    BY <1>2, <1>7 DEF TypeInv, WorkerTypes, Jobs
<1>9. BlockEnd' = e
    BY <1>4, <1>8 DEF BlockEnd
<1>10. TypeInv'
    <2>1. FlagTypes' /\ FrameTypes'
        BY <1>1, <1>2 DEF TypeInv, FlagTypes, FrameTypes, lockedVars
    <2>2. StreamTypes'
        BY <1>1, <1>2 DEF TypeInv, StreamTypes, streamVars
    <2>3. WorkerTypes'
        BY <1>1, <1>8 DEF WorkerTypes
    <2>4. SessionTypes'
        BY <1>1, <1>2 DEF TypeInv, SessionTypes, sessionVars
    <2> QED
        BY <2>1, <2>2, <2>3, <2>4 DEF TypeInv
<1>11. Course'
    BY <1>1, <1>2, <1>3, <1>8 DEF Course, Ending, lockedVars, sessionVars
<1>12. Blocks' /\ Aligned'
    BY <1>1, <1>2, <1>3, <1>8 DEF Blocks, Aligned, lockedVars, streamVars
<1>13. Published'
    BY <1>1, <1>2, <1>3, <1>8 DEF Published, streamVars
<1>14. ASSUME clean', spc' # "closed"
       PROVE  Frames' /\ Sampled' /\ Encoded' /\ Handed'
    <2>1. Frames /\ Sampled /\ Encoded /\ Handed
        BY <1>1, <1>14 DEF TInv, Sound, sessionVars
    <2>2. Frames'
        BY <1>1, <1>3, <1>8, <2>1 DEF Frames, lockedVars, sessionVars
    <2>3. Sampled'
        BY <1>1, <1>3, <1>8, <2>1 DEF Sampled, Exact, Token, lockedVars, streamVars, sessionVars
    <2>4. Encoded'
        <3>1. kv = b /\ v = e /\ x = TRUE
            <4>1. kv = b
                BY <1>1, <1>3, <1>4, <2>1 DEF Encoded
            <4>2. v = e
                BY <1>6, <4>1
            <4>3. x = TRUE
                BY <1>5, <4>1
            <4> QED
                BY <4>1, <4>2, <4>3
        <3> QED
            BY <1>1, <1>3, <1>8, <1>9, <2>1, <3>1 DEF Encoded, Exact, Token, Whole, lockedVars,
                streamVars, sessionVars
    <2>5. Handed'
        BY <1>1, <2>1 DEF Handed, sessionVars
    <2> QED
        BY <2>2, <2>3, <2>4, <2>5
<1>15. Over'
    BY <1>1 DEF TInv, Over, TurnIsAttach, Attached, sessionVars
<1> QED
    BY <1>10, <1>11, <1>12, <1>13, <1>14, <1>15 DEF TInv, BInv, Sound

\* The projected rows go behind those published.
LEMMA ProjectStep ==
    ASSUME TInv, Project
    PROVE  TInv'
<1>1. /\ UNCHANGED <<lockedVars, subBuf, cached, melSeen, nSub, nSoft, nDrained, job, spc,
                     sessionVars>>
      /\ wpc = "project" /\ wpc' = "publish"
      /\ kv' = job.kvAfter
      /\ soft' = [p \in Rows |->
                    IF p >= nSoft /\ job.block * Chunk + (p - nSoft) < BlockEnd
                    THEN [subBuf[job.block * Chunk + (p - nSoft)] EXCEPT !.exact = @ /\ job.exact]
                    ELSE soft[p]]
    BY DEF Project
<1>2. TypeInv /\ Course /\ Blocks /\ Aligned /\ Published
    BY DEF TInv, BInv
<1>3. InBlock /\ InBlock' /\ Busy /\ Busy'
    BY <1>1 DEF InBlock, Busy
<1>4. PICK b \in Nat, e \in Nat : /\ b = job.block * Chunk /\ e = BlockEnd
                                  /\ b < e /\ e <= job.full /\ job.full <= MaxSub
    BY <1>3, BlockFacts DEF TInv
<1>5. PICK f \in Nat : f = job.full
    BY <1>2 DEF TypeInv, WorkerTypes, Jobs
<1>6. PICK n \in Nat : n = nSoft /\ n <= b
    BY <1>1, <1>2, <1>4 DEF Published, TypeInv, StreamTypes
<1>7. BlockEnd' = e /\ job' = job
    BY <1>1, <1>4 DEF BlockEnd
<1>8. TypeInv'
    <2>1. FlagTypes' /\ FrameTypes'
        BY <1>1, <1>2 DEF TypeInv, FlagTypes, FrameTypes, lockedVars
    <2>2. ASSUME NEW p \in Rows
          PROVE  soft'[p] \in SoftTokens
        <3>1. CASE p >= n /\ b + (p - n) < e
            <4>1. PICK q \in Nat : q = b + (p - n)
                BY <3>1, RowsTyped
            <4>2. q \in Rows
                BY <1>4, <1>5, <3>1, <4>1, RowsTyped
            <4>3. subBuf[q] \in SoftTokens
                BY <1>2, <4>2 DEF TypeInv, StreamTypes
            <4>4. PICK x \in BOOLEAN : x = (subBuf[q].exact /\ job.exact)
                OBVIOUS
            <4>5. soft'[p] = [subBuf[q] EXCEPT !.exact = x]
                BY <1>1, <1>4, <1>6, <3>1, <4>1, <4>4
            <4> QED
                BY <4>3, <4>5 DEF SoftTokens
        <3>2. CASE ~(p >= n /\ b + (p - n) < e)
            <4>1. soft'[p] = soft[p]
                BY <1>1, <1>4, <1>6, <3>2
            <4> QED
                BY <1>2, <4>1 DEF TypeInv, StreamTypes
        <3> QED
            BY <3>1, <3>2
    <2>3. soft' \in [Rows -> SoftTokens]
        BY <1>1, <2>2
    <2>4. kv' \in Int
        BY <1>1, <1>2 DEF TypeInv, WorkerTypes, Jobs
    <2>5. StreamTypes'
        BY <1>1, <1>2, <2>3, <2>4 DEF TypeInv, StreamTypes
    <2>6. WorkerTypes' /\ SessionTypes'
        BY <1>1, <1>2 DEF TypeInv, WorkerTypes, SessionTypes, sessionVars
    <2> QED
        BY <2>1, <2>5, <2>6 DEF TypeInv
<1>9. Course'
    BY <1>1, <1>2, <1>3 DEF Course, Ending, lockedVars, sessionVars
<1>10. Blocks' /\ Aligned'
    BY <1>1, <1>2, <1>3 DEF Blocks, Aligned, lockedVars
<1>11. Published'
    BY <1>1, <1>2, <1>3 DEF Published
<1>12. ASSUME clean', spc' # "closed"
       PROVE  Frames' /\ Sampled' /\ Encoded' /\ Handed'
    <2>1. Frames /\ Sampled /\ Encoded /\ Handed
        BY <1>1, <1>12 DEF TInv, Sound, sessionVars
    <2>2. Frames'
        BY <1>1, <1>3, <2>1 DEF Frames, lockedVars, sessionVars
    <2>3. Sampled'
        BY <1>1, <1>3, <2>1 DEF Sampled, Exact, Token, lockedVars, sessionVars
    <2>4. Encoded'
        <3>1. n = b /\ kv' = e /\ job.exact
            BY <1>1, <1>3, <1>4, <1>6, <2>1 DEF Encoded
        <3>2. ASSUME NEW p \in Rows, p < e
              PROVE  soft'[p] = Exact(p)
            <4>1. CASE p >= n
                <5>1. b + (p - n) = p
                    BY <3>1, <4>1, RowsTyped
                <5>2. p < job.full
                    BY <1>4, <1>5, <3>2, RowsTyped
                <5>3. subBuf[p] = [turn |-> turn, pos |-> p, exact |-> TRUE]
                    BY <1>3, <2>1, <5>2 DEF Sampled, Exact, Token
                <5>4. PICK x \in BOOLEAN : x = (subBuf[p].exact /\ job.exact)
                    OBVIOUS
                <5>5. x = TRUE
                    <6>1. subBuf[p].exact
                        BY <5>3
                    <6> QED
                        BY <3>1, <5>4, <6>1
                <5>6. soft'[p] = [subBuf[p] EXCEPT !.exact = x]
                    BY <1>1, <1>4, <1>6, <3>2, <4>1, <5>1, <5>4
                <5>7. soft'[p] = [[turn |-> turn, pos |-> p, exact |-> TRUE] EXCEPT !.exact = TRUE]
                    BY <5>3, <5>5, <5>6
                <5> QED
                    BY <5>7 DEF Exact, Token
            <4>2. CASE ~(p >= n)
                <5>1. soft'[p] = soft[p]
                    BY <1>1, <1>6, <4>2
                <5>2. p < nSoft
                    BY <1>6, <4>2, RowsTyped
                <5> QED
                    BY <1>1, <2>1, <5>1, <5>2 DEF Encoded
            <4> QED
                BY <4>1, <4>2
        <3>3. \A p \in Rows : p < e => soft'[p] = Exact(p)'
            BY <1>1, <3>2 DEF Exact, Token, sessionVars
        <3> QED
            BY <1>1, <1>3, <1>7, <2>1, <3>1, <3>3 DEF Encoded, Whole, lockedVars
    <2>5. Handed'
        BY <1>1, <2>1 DEF Handed, sessionVars
    <2> QED
        BY <2>2, <2>3, <2>4, <2>5
<1>13. Over'
    BY <1>1 DEF TInv, Over, TurnIsAttach, Attached, sessionVars
<1> QED
    BY <1>8, <1>9, <1>10, <1>11, <1>12, <1>13 DEF TInv, BInv, Sound


LEMMA PublishStep ==
    ASSUME TInv, Publish
    PROVE  TInv'
<1>1. /\ UNCHANGED <<lockedVars, subBuf, cached, melSeen, nSub, kv, soft, nDrained, job, spc,
                     sessionVars>>
      /\ wpc = "publish" /\ wpc' = "count"
      /\ nSoft' = nSoft + BlockEnd - job.block * Chunk
    BY DEF Publish
<1>2. TypeInv /\ Course /\ Blocks /\ Aligned /\ Published
    BY DEF TInv, BInv
<1>3. InBlock /\ InBlock' /\ Busy /\ Busy'
    BY <1>1 DEF InBlock, Busy
<1>4. PICK b \in Nat, e \in Nat : /\ b = job.block * Chunk /\ e = BlockEnd
                                  /\ b < e /\ e <= job.full /\ job.full <= MaxSub
    BY <1>3, BlockFacts DEF TInv
<1>5. PICK n \in Nat : n = nSoft /\ n <= b
    BY <1>1, <1>2, <1>4 DEF Published, TypeInv, StreamTypes
<1>6. nSoft' \in Nat /\ nSoft' = n + e - b /\ n <= nSoft' /\ nSoft' <= e
    BY <1>1, <1>4, <1>5
<1>7. BlockEnd' = e /\ job' = job
    BY <1>1, <1>4 DEF BlockEnd
<1>8. TypeInv'
    <2>1. FlagTypes' /\ FrameTypes'
        BY <1>1, <1>2 DEF TypeInv, FlagTypes, FrameTypes, lockedVars
    <2>2. StreamTypes'
        BY <1>1, <1>2, <1>6 DEF TypeInv, StreamTypes
    <2>3. WorkerTypes' /\ SessionTypes'
        BY <1>1, <1>2 DEF TypeInv, WorkerTypes, SessionTypes, sessionVars
    <2> QED
        BY <2>1, <2>2, <2>3 DEF TypeInv
<1>9. Course'
    BY <1>1, <1>2, <1>3 DEF Course, Ending, lockedVars, sessionVars
<1>10. Blocks' /\ Aligned'
    BY <1>1, <1>2, <1>3 DEF Blocks, Aligned, lockedVars
<1>11. Published'
    <2>1. nDrained' <= nSoft'
        BY <1>1, <1>2, <1>5, <1>6 DEF Published, TypeInv, StreamTypes
    <2> QED
        BY <1>1, <1>2, <1>3, <1>6, <1>7, <2>1 DEF Published
<1>12. ASSUME clean', spc' # "closed"
       PROVE  Frames' /\ Sampled' /\ Encoded' /\ Handed'
    <2>1. Frames /\ Sampled /\ Encoded /\ Handed
        BY <1>1, <1>12 DEF TInv, Sound, sessionVars
    <2>2. Frames'
        BY <1>1, <1>3, <2>1 DEF Frames, lockedVars, sessionVars
    <2>3. Sampled'
        BY <1>1, <1>3, <2>1 DEF Sampled, Exact, Token, lockedVars, sessionVars
    <2>4. Encoded'
        <3>1. n = b /\ nSoft' = e
            <4>1. n = b
                BY <1>1, <1>3, <1>4, <1>5, <2>1 DEF Encoded
            <4> QED
                BY <1>6, <4>1
        <3>2. \A p \in Rows : p < e => soft[p] = Exact(p)
            BY <1>1, <1>4, <2>1 DEF Encoded
        <3>3. \A p \in Rows : p < nSoft' => soft'[p] = Exact(p)'
            BY <1>1, <3>1, <3>2 DEF Exact, Token, sessionVars
        <3> QED
            BY <1>1, <1>3, <1>4, <1>7, <2>1, <3>1, <3>3 DEF Encoded, Whole, lockedVars
    <2>5. Handed'
        BY <1>1, <2>1 DEF Handed, sessionVars
    <2> QED
        BY <2>2, <2>3, <2>4, <2>5
<1>13. Over'
    BY <1>1 DEF TInv, Over, TurnIsAttach, Attached, sessionVars
<1> QED
    BY <1>8, <1>9, <1>10, <1>11, <1>12, <1>13 DEF TInv, BInv, Sound

LEMMA CountStep ==
    ASSUME TInv, Count
    PROVE  TInv'
<1>1. /\ UNCHANGED <<lockedVars, subBuf, cached, melSeen, kv, soft, nSoft, nDrained, spc,
                     sessionVars>>
      /\ wpc = "count" /\ nSub' = BlockEnd
      /\ job' = [job EXCEPT !.block = @ + 1]
      /\ wpc' = IF job.block + 1 < job.last THEN "attend" ELSE "done"
    BY DEF Count
<1>2. TypeInv /\ Course /\ Blocks /\ Aligned /\ Published
    BY DEF TInv, BInv
<1>3. InBlock /\ Busy /\ Busy' /\ (InBlock' <=> wpc' = "attend")
    BY <1>1 DEF InBlock, Busy
<1>4. PICK b \in Nat, e \in Nat :
        /\ b = job.block * Chunk /\ e = BlockEnd
        /\ b < e /\ e <= job.full /\ job.full <= MaxSub
        /\ job.block + 1 < job.last \/ ~job.final => e = (job.block + 1) * Chunk
        /\ ~(job.block + 1 < job.last) /\ job.final => e = job.full
    BY <1>3, BlockFacts DEF TInv
<1>5. PICK k \in Nat, la \in Nat, f \in Nat : k = job.block /\ la = job.last /\ f = job.full
    BY <1>2 DEF TypeInv, WorkerTypes, Jobs
<1>6. /\ job' \in Jobs /\ job'.block = k + 1
      /\ job'.snap = job.snap /\ job'.final = job.final /\ job'.full = job.full
      /\ job'.last = job.last
    <2>1. job' = [job EXCEPT !.block = k + 1] /\ k + 1 \in Nat
        BY <1>1, <1>5
    <2> QED
        BY <1>2, <2>1 DEF TypeInv, WorkerTypes, Jobs
<1>7. wpc' \in {"attend", "done"} /\ (wpc' = "attend" <=> k + 1 < la)
    BY <1>1, <1>5
<1>8. nSub' = e /\ e <= MaxSub /\ nSoft <= e
    BY <1>1, <1>2, <1>4, <1>5, RowsTyped DEF Published
<1>9. TypeInv'
    <2>1. FlagTypes' /\ FrameTypes'
        BY <1>1, <1>2 DEF TypeInv, FlagTypes, FrameTypes, lockedVars
    <2>2. StreamTypes'
        BY <1>1, <1>2, <1>8 DEF TypeInv, StreamTypes
    <2>3. WorkerTypes'
        BY <1>6, <1>7 DEF WorkerTypes
    <2>4. SessionTypes'
        BY <1>1, <1>2 DEF TypeInv, SessionTypes, sessionVars
    <2> QED
        BY <2>1, <2>2, <2>3, <2>4 DEF TypeInv
<1>10. Course'
    BY <1>1, <1>2, <1>3, <1>6, <1>7 DEF Course, Ending, lockedVars, sessionVars
<1>11. Blocks'
    BY <1>2, <1>3, <1>5, <1>6, <1>7 DEF Blocks
<1>12. Aligned'
    <2>1. CASE wpc' = "attend" \/ ~job.final
        <3>1. nSub' = (k + 1) * Chunk /\ k + 1 \in Nat
            BY <1>4, <1>5, <1>7, <1>8, <2>1
        <3> QED
            BY <3>1 DEF Aligned
    <2>2. CASE wpc' = "done" /\ job.final
        BY <1>6, <2>2 DEF Aligned
    <2> QED
        BY <1>7, <2>1, <2>2
<1>13. Published'
    <2>1. wpc' = "attend" => nSoft' <= job'.block * Chunk
        BY <1>1, <1>4, <1>5, <1>6, <1>7, <1>8
    <2> QED
        BY <1>1, <1>2, <1>3, <1>7, <1>8, <2>1 DEF Published
<1>14. ASSUME clean', spc' # "closed"
       PROVE  Frames' /\ Sampled' /\ Encoded' /\ Handed'
    <2>1. Frames /\ Sampled /\ Encoded /\ Handed
        BY <1>1, <1>14 DEF TInv, Sound, sessionVars
    <2>2. Frames'
        BY <1>1, <1>3, <1>6, <2>1 DEF Frames, lockedVars, sessionVars
    <2>3. Sampled'
        BY <1>1, <1>3, <1>6, <1>7, <2>1 DEF Sampled, Exact, Token, lockedVars, sessionVars
    <2>4. Encoded'
        <3>1. PICK w \in Nat : w = Whole /\ Whole' = w
            <4>1. mel \in Nat /\ mel' = mel
                BY <1>1, <1>2, RowsTyped DEF TypeInv, FrameTypes, lockedVars
            <4>2. SubTokens(mel + 1) \in Nat
                BY <4>1, SubTokensGrow
            <4> QED
                BY <4>1, <4>2 DEF Whole
        <3>2. f <= w /\ (job.final => f = w) /\ nSoft = e /\ kv = e
            BY <1>1, <1>3, <1>4, <1>5, <2>1, <3>1 DEF Encoded
        <3>3. InBlock' => nSub' = job'.block * Chunk
            BY <1>3, <1>4, <1>5, <1>6, <1>7, <1>8
        <3>4. e <= w
            BY <1>4, <1>5, <3>1, <3>2
        <3>5. wpc' = "done" /\ job'.final => nSub' = w
            BY <1>4, <1>5, <1>6, <1>7, <1>8, <3>2
        <3>6. ~computed'
            BY <1>1, <1>2, <1>3 DEF Course, lockedVars
        <3>7. \A p \in Rows : p < nSoft' => soft'[p] = Exact(p)'
            BY <1>1, <2>1 DEF Encoded, Exact, Token, sessionVars
        <3> QED
            BY <1>1, <1>5, <1>6, <1>7, <1>8, <3>1, <3>2, <3>3, <3>4, <3>5, <3>6, <3>7
                DEF Encoded, InBlock
    <2>5. Handed'
        BY <1>1, <2>1 DEF Handed, sessionVars
    <2> QED
        BY <2>2, <2>3, <2>4, <2>5
<1>15. Over'
    BY <1>1 DEF TInv, Over, TurnIsAttach, Attached, sessionVars
<1> QED
    BY <1>9, <1>10, <1>11, <1>12, <1>13, <1>14, <1>15 DEF TInv, BInv, Sound


IsPush(n, seen, old, done, fin, rows, full, first, last) ==
    /\ rows = IF n > seen THEN SubTokens(n) ELSE old
    /\ full = IF fin THEN rows ELSE Least(rows, Stable(n))
    /\ first = done \div Chunk
    /\ last = IF fin THEN (full + Chunk - 1) \div Chunk ELSE full \div Chunk

\* What a push makes of n frames, with rows of the second convolution cached, or none new,
\* and `done` rows already handed to a block.
LEMMA SampledRows ==
    ASSUME NEW n \in 1 .. MelCap + 1, NEW seen \in Nat, NEW old \in Nat, NEW done \in Nat,
           NEW fin \in BOOLEAN, NEW rows, NEW full, NEW first, NEW last,
           old <= MaxSub,
           IsPush(n, seen, old, done, fin, rows, full, first, last)
    PROVE  /\ rows \in Nat /\ rows <= MaxSub
           /\ full \in Nat /\ full <= rows
           /\ first \in Nat /\ last \in Nat
           /\ first * Chunk \in Nat /\ first * Chunk <= done /\ done < first * Chunk + Chunk
           /\ last * Chunk \in Nat /\ last * Chunk < full + Chunk
           /\ fin => full <= last * Chunk
           /\ ~fin => last * Chunk <= full /\ full <= Stable(n)
           /\ Stable(n) \in Nat /\ Stable(n) <= MaxSub
<1> USE DEF IsPush
<1>1. MelCap \in Nat /\ MaxSub \in Nat /\ n \in Nat
    BY RowsTyped
<1>2. SubTokens(n) \in Nat /\ SubTokens(n) <= MaxSub
    BY <1>1, SubTokensGrow DEF MaxSub
<1>3. Stable(n) \in Nat /\ Stable(n) <= SubTokens(n)
    BY <1>1, StableIsSettled
<1>4. rows \in Nat /\ rows <= MaxSub
    BY <1>1, <1>2
<1>5. full \in Nat /\ full <= rows /\ (~fin => full <= Stable(n))
    BY <1>3, <1>4 DEF Least
<1>6. PICK c \in Nat \ {0} : c = Chunk
    BY AudioAssumption
<1>7. first \in Nat /\ first * c \in Nat /\ first * c <= done /\ done < first * c + c
    BY <1>6, Division
<1>8. CASE fin
    <2>1. full + c - 1 \in Nat
        BY <1>5
    <2>2. last = (full + c - 1) \div c
        BY <1>6, <1>8
    <2>3. last \in Nat /\ last * c \in Nat /\ last * c <= full + c - 1
          /\ full + c - 1 < last * c + c
        BY <2>1, <2>2, Division
    <2>4. last * c < full + c /\ full <= last * c
        BY <1>5, <2>3
    <2> QED
        BY <1>1, <1>2, <1>3, <1>4, <1>5, <1>6, <1>7, <1>8, <2>3, <2>4
<1>9. CASE ~fin
    <2>1. last = full \div c
        BY <1>6, <1>9
    <2>2. last \in Nat /\ last * c \in Nat /\ last * c <= full
        BY <1>5, <2>1, Division
    <2>3. last * c < full + c
        BY <1>5, <2>2
    <2> QED
        BY <1>1, <1>2, <1>3, <1>4, <1>5, <1>6, <1>7, <1>9, <2>2, <2>3
<1> QED
    BY <1>8, <1>9

\* A number of whole blocks is its own last place.
LEMMA WholeBlocks ==
    ASSUME NEW k \in Nat, NEW q \in Nat, q * Chunk <= k * Chunk, k * Chunk < q * Chunk + Chunk
    PROVE  q * Chunk = k * Chunk
<1>1. k * Chunk \in Nat /\ q * Chunk \in Nat /\ Chunk \in Nat
    BY PlaceTyped, AudioAssumption
<1>2. CASE q < k
    BY <1>1, <1>2, BlockPlaces
<1>3. CASE k < q
    <2>1. k * Chunk + Chunk <= q * Chunk
        BY <1>3, BlockPlaces
    <2> QED
        BY <1>1, <2>1, AudioAssumption
<1>4. CASE k = q
    BY <1>4
<1> QED
    BY <1>2, <1>3, <1>4

LEMMA SubsampleStep ==
    ASSUME TInv, Subsample
    PROVE  TInv'
<1> DEFINE n     == job.snap + (IF job.final THEN 1 ELSE 0)
           fresh == n > melSeen
           rows  == IF fresh THEN SubTokens(n) ELSE cached
           full  == IF job.final THEN rows ELSE Least(rows, Stable(n))
           first == nSub \div Chunk
           last  == IF job.final THEN (full + Chunk - 1) \div Chunk ELSE full \div Chunk
<1>1. /\ UNCHANGED <<lockedVars, nSub, kv, soft, nSoft, nDrained, spc, sessionVars>>
      /\ wpc = "subsample"
      /\ fresh => /\ subBuf' = [p \in Rows |->
                                  IF p \in cached .. rows - 1
                                  THEN Token(owner[Least(4 * p, job.snap - 1)], p,
                                             job.final \/ Settled(p, n))
                                  ELSE subBuf[p]]
                  /\ cached' = Stable(n) /\ melSeen' = n
      /\ ~fresh => UNCHANGED <<subBuf, cached, melSeen>>
      /\ job' = [job EXCEPT !.full = full, !.block = first, !.last = last]
      /\ wpc' = IF full <= nSub \/ last <= first THEN "done" ELSE "attend"
    BY DEF Subsample
<1>2. TypeInv /\ Course /\ Blocks /\ Aligned /\ Published
    BY DEF TInv, BInv
<1>3. Busy /\ Busy' /\ ~InBlock /\ (InBlock' <=> wpc' = "attend")
    BY <1>1 DEF InBlock, Busy
<1>4. PICK snap \in 1 .. MelCap : snap = job.snap
    BY <1>1, <1>2 DEF Course, TypeInv, WorkerTypes, Jobs
<1>5. MelCap \in Nat /\ MaxSub \in Nat /\ job.final \in BOOLEAN
    BY <1>2, RowsTyped DEF TypeInv, WorkerTypes, Jobs
<1>6. /\ n \in 1 .. MelCap + 1
      /\ job.final => n = snap + 1
      /\ ~job.final => n = snap
    BY <1>4, <1>5
<1>7. PICK s \in Nat : s = nSub /\ s <= MaxSub
    BY <1>2 DEF TypeInv, StreamTypes, Published
<1>8. cached \in Nat /\ melSeen \in Nat /\ cached <= MaxSub
    BY <1>2 DEF TypeInv, StreamTypes, Published
<1>9. /\ rows = IF fresh THEN SubTokens(n) ELSE cached
      /\ fresh <=> n > melSeen
      /\ fresh \in BOOLEAN
    OBVIOUS
<1>10. /\ rows \in Nat /\ rows <= MaxSub
       /\ full \in Nat /\ full <= rows
       /\ first \in Nat /\ last \in Nat
       /\ first * Chunk \in Nat /\ first * Chunk <= s /\ s < first * Chunk + Chunk
       /\ last * Chunk \in Nat /\ last * Chunk < full + Chunk
       /\ job.final => full <= last * Chunk /\ full = rows
       /\ ~job.final => last * Chunk <= full /\ full <= Stable(n)
       /\ Stable(n) \in Nat /\ Stable(n) <= MaxSub
    <2> HIDE DEF n
    <2>1. IsPush(n, melSeen, cached, s, job.final, rows, full, first, last)
        BY <1>7 DEF IsPush
    <2>2. job.final => full = rows
        OBVIOUS
    <2> HIDE DEF fresh, rows, full, first, last
    <2> QED
        BY <1>5, <1>6, <1>8, <2>1, <2>2, SampledRows
<1> HIDE DEF n, fresh, rows, full, first, last
<1>11. PICK b \in Nat, z \in Nat : b = first * Chunk /\ z = last * Chunk
    BY <1>10
<1>12. b = s
    <2>1. ~computed
        BY <1>2, <1>3 DEF Course
    <2>2. PICK k \in Nat : nSub = k * Chunk
        BY <1>1, <1>2, <2>1 DEF Aligned
    <2>3. first \in Nat /\ first * Chunk <= k * Chunk /\ k * Chunk < first * Chunk + Chunk
        BY <1>7, <1>10, <2>2
    <2> QED
        BY <1>7, <1>11, <2>2, <2>3, WholeBlocks
<1>13. /\ job' \in Jobs
       /\ job'.full = full /\ job'.block = first /\ job'.last = last
       /\ job'.snap = snap /\ job'.final = job.final
    BY <1>1, <1>2, <1>4, <1>10 DEF TypeInv, WorkerTypes, Jobs

<1>14. wpc' \in {"done", "attend"} /\ (wpc' = "attend" <=> ~(full <= s) /\ first < last)
    BY <1>1, <1>7, <1>10
<1>15. ASSUME NEW p \in Rows
       PROVE  subBuf'[p] = IF fresh /\ cached <= p /\ p < rows
                           THEN Token(owner[Least(4 * p, snap - 1)], p,
                                      job.final \/ Settled(p, n))
                           ELSE subBuf[p]
    <2>1. p \in Nat /\ (p \in cached .. rows - 1 <=> cached <= p /\ p < rows)
        BY <1>8, <1>10, RowsTyped
    <2> QED
        BY <1>1, <1>4, <2>1
<1>16. ASSUME NEW p \in Rows
       PROVE  Least(4 * p, snap - 1) \in 0 .. snap - 1
    BY <1>4, <1>5, RowsTyped DEF Least
<1>17. cached' \in Nat /\ cached' <= MaxSub /\ melSeen' \in Nat
    BY <1>1, <1>5, <1>6, <1>8, <1>9, <1>10
<1>18. TypeInv'
    <2>1. FlagTypes' /\ FrameTypes'
        BY <1>1, <1>2 DEF TypeInv, FlagTypes, FrameTypes, lockedVars
    <2>2. ASSUME NEW p \in Rows
          PROVE  subBuf'[p] \in SoftTokens
        <3>1. CASE fresh /\ cached <= p /\ p < rows
            <4>1. PICK x \in BOOLEAN : x = (job.final \/ Settled(p, n))
                OBVIOUS
            <4>2. PICK o \in Nat : o = owner[Least(4 * p, snap - 1)]
                <5>1. Least(4 * p, snap - 1) \in 0 .. MelCap - 1
                    BY <1>4, <1>5, <1>16
                <5> QED
                    BY <1>2, <5>1 DEF TypeInv, FrameTypes
            <4>3. subBuf'[p] = Token(o, p, x) /\ p \in Nat
                BY <1>15, <3>1, <4>1, <4>2, RowsTyped
            <4> QED
                BY <4>3 DEF Token, SoftTokens
        <3>2. CASE ~(fresh /\ cached <= p /\ p < rows)
            <4>1. subBuf'[p] = subBuf[p]
                BY <1>15, <3>2
            <4> QED
                BY <1>2, <4>1 DEF TypeInv, StreamTypes
        <3> QED
            BY <3>1, <3>2
    <2>3. subBuf' \in [Rows -> SoftTokens]
        <3>1. CASE fresh
            BY <1>1, <2>2, <3>1
        <3>2. CASE ~fresh
            BY <1>1, <1>2, <3>2 DEF TypeInv, StreamTypes
        <3> QED
            BY <3>1, <3>2
    <2>4. StreamTypes'
        BY <1>1, <1>2, <1>17, <2>3 DEF TypeInv, StreamTypes
    <2>5. WorkerTypes'
        BY <1>13, <1>14 DEF WorkerTypes
    <2>6. SessionTypes'
        BY <1>1, <1>2 DEF TypeInv, SessionTypes, sessionVars
    <2> QED
        BY <2>1, <2>4, <2>5, <2>6 DEF TypeInv
<1>19. Course'
    BY <1>1, <1>2, <1>3, <1>4, <1>13, <1>14 DEF Course, Ending, lockedVars, sessionVars
<1>20. Blocks'
    BY <1>3, <1>5, <1>10, <1>13, <1>14 DEF Blocks
<1>21. Aligned'
    <2>1. nSub' = first * Chunk
        BY <1>1, <1>7, <1>11, <1>12
    <2> QED
        BY <1>10, <2>1 DEF Aligned
<1>22. Published'
    <2>1. nSoft <= s
        BY <1>2, <1>3, <1>7 DEF Published
    <2>2. job'.block * Chunk = s
        BY <1>11, <1>12, <1>13
    <2> QED
        BY <1>1, <1>2, <1>3, <1>7, <1>14, <1>17, <2>1, <2>2 DEF Published
<1>23. ASSUME clean', spc' # "closed"
       PROVE  Frames' /\ Sampled' /\ Encoded' /\ Handed'
    <2>1. Frames /\ Sampled /\ Encoded /\ Handed
        BY <1>1, <1>23 DEF TInv, Sound, sessionVars
    <2>2. Frames'
        BY <1>1, <1>3, <1>4, <1>13, <2>1 DEF Frames, lockedVars, sessionVars
    <2>3. PICK m \in Nat : m = mel /\ snap <= m /\ (job.final => m = snap)
        <3>1. mel \in Nat
            BY <1>2, <1>5 DEF TypeInv, FrameTypes
        <3> QED
            BY <1>2, <1>3, <1>4, <2>1, <3>1 DEF Frames, Course
    <2>4. melSeen <= m /\ cached = Stable(melSeen)
        BY <1>1, <1>2, <1>3, <2>1, <2>3 DEF Sampled, Course
    <2>5. job.final => fresh
        BY <1>6, <1>8, <1>9, <2>3, <2>4
    <2>6. \A p \in Rows : p < cached => subBuf[p] = Exact(p)
        BY <2>1 DEF Sampled
    <2>7. ASSUME NEW p \in Rows, fresh, cached <= p, p < rows, job.final \/ p < Stable(n)
          PROVE  subBuf'[p] = Exact(p)
        <3>1. owner[Least(4 * p, snap - 1)] = turn
            <4>1. Least(4 * p, snap - 1) \in 0 .. m - 1
                BY <1>4, <1>5, <1>16, <2>3
            <4> QED
                BY <2>1, <2>3, <4>1 DEF Frames
        <3>2. job.final \/ Settled(p, n)
            BY <1>6, <2>7, StableIsSettled, RowsTyped
        <3>3. PICK x \in BOOLEAN : x = (job.final \/ Settled(p, n))
            OBVIOUS
        <3>4. x = TRUE
            BY <3>2, <3>3
        <3>5. subBuf'[p] = Token(turn, p, x)
            BY <1>15, <2>7, <3>1, <3>3
        <3> QED
            BY <3>4, <3>5 DEF Exact, Token
    <2>8. ASSUME NEW p \in Rows, p < cached \/ (fresh /\ p < rows /\ (job.final \/ p < Stable(n)))
          PROVE  subBuf'[p] = Exact(p)
        <3>1. p \in Nat /\ cached \in Nat
            BY <1>8, RowsTyped
        <3>2. CASE p < cached
            <4>1. subBuf'[p] = subBuf[p]
                BY <1>15, <3>1, <3>2
            <4> QED
                BY <2>6, <3>2, <4>1
        <3>3. CASE ~(p < cached)
            BY <2>7, <2>8, <3>1, <3>3
        <3> QED
            BY <3>2, <3>3
    <2>9. ASSUME NEW p \in Rows, p < full
          PROVE  subBuf'[p] = Exact(p)
        <3>1. p \in Nat /\ p < rows
            BY <1>10, <2>9, RowsTyped
        <3>2. ~job.final => p < Stable(n)
            BY <1>10, <2>9, <3>1
        <3>3. ~fresh => rows = cached
            BY <1>9
        <3> QED
            BY <2>5, <2>8, <3>1, <3>2, <3>3
    <2>10. ASSUME NEW p \in Rows, p < cached'
           PROVE  subBuf'[p] = Exact(p)
        <3>1. p \in Nat
            BY RowsTyped
        <3>2. CASE fresh
            <4>1. p < Stable(n) /\ rows = SubTokens(n) /\ Stable(n) <= SubTokens(n)
                BY <1>1, <1>6, <1>9, <2>10, <3>2, StableIsSettled
            <4>2. p < rows
                BY <1>10, <3>1, <4>1
            <4> QED
                BY <2>8, <3>2, <4>1, <4>2
        <3>3. CASE ~fresh
            BY <1>1, <2>8, <2>10, <3>3
        <3> QED
            BY <3>2, <3>3
    <2>11. \A p : Exact(p)' = Exact(p)
        BY <1>1 DEF Exact, Token, sessionVars
    <2>12. Sampled'
        <3>1. cached' = Stable(melSeen')
            BY <1>1, <2>4
        <3>2. ~job.final => melSeen' <= mel'
            <4>1. mel' = m
                BY <1>1, <2>3 DEF lockedVars
            <4> QED
                BY <1>1, <1>4, <1>6, <2>3, <2>4, <4>1
        <3>3. melSeen' <= mel' \/ computed' \/ ((InBlock' \/ wpc' = "done") /\ job'.final)
            BY <1>3, <1>13, <1>14, <3>2
        <3>4. \A p \in Rows : p < cached' => subBuf'[p] = Exact(p)'
            BY <2>10, <2>11
        <3>5. \A p \in Rows : p < job'.full => subBuf'[p] = Exact(p)'
            BY <1>13, <2>9, <2>11
        <3> QED
            BY <3>1, <3>3, <3>4, <3>5 DEF Sampled
    <2>13. Encoded'
        <3>1. PICK w \in Nat : w = Whole /\ Whole' = w /\ w = SubTokens(m + 1)
            <4>1. mel' = mel /\ mel # 0
                BY <1>1, <1>4, <2>3 DEF lockedVars
            <4>2. SubTokens(mel + 1) \in Nat
                BY <2>3, SubTokensGrow
            <4> QED
                BY <2>3, <4>1, <4>2 DEF Whole
        <3>2. full <= w /\ (job.final => full = w)
            <4>1. CASE fresh
                <5>1. SubTokens(n) <= w /\ SubTokens(n) \in Nat
                    BY <1>4, <1>6, <2>3, <3>1, SubTokensGrow
                <5>2. job.final => n = m + 1
                    BY <1>6, <2>3
                <5> QED
                    BY <1>9, <1>10, <3>1, <4>1, <5>1, <5>2
            <4>2. CASE ~fresh
                <5>1. cached <= SubTokens(melSeen) /\ SubTokens(melSeen) \in Nat
                    BY <1>8, <2>4, StableIsSettled, SubTokensGrow
                <5>2. SubTokens(melSeen) <= w
                    BY <1>8, <2>4, <3>1, SubTokensGrow
                <5> QED
                    BY <1>8, <1>9, <1>10, <2>5, <4>2, <5>1, <5>2
            <4> QED
                BY <4>1, <4>2
        <3>3. s <= w
            BY <1>7, <2>1, <3>1 DEF Encoded
        <3>4. wpc' = "done" /\ job'.final => nSub' = w
            <4>1. ASSUME job.final, wpc' = "done"
                  PROVE  s = w
                <5>1. CASE full <= s
                    BY <3>2, <3>3, <4>1, <5>1
                <5>2. CASE last <= first
                    <6>1. z <= b
                        <7>1. CASE last = first
                            BY <1>11, <7>1
                        <7>2. CASE last < first
                            <8>1. last * Chunk + Chunk <= first * Chunk
                                BY <1>10, <7>2, BlockPlaces
                            <8> QED
                                BY <1>11, <8>1, AudioAssumption
                        <7> QED
                            BY <1>10, <5>2, <7>1, <7>2
                    <6>2. full <= z
                        BY <1>10, <1>11, <4>1
                    <6> QED
                        BY <1>10, <1>12, <3>2, <3>3, <4>1, <6>1, <6>2
                <5> QED
                    BY <1>10, <1>14, <4>1, <5>1, <5>2
            <4> QED
                BY <1>1, <1>7, <1>13, <4>1
        <3>5. ~computed'
            BY <1>1, <1>2, <1>3 DEF Course, lockedVars
        <3>6. nSoft = s /\ kv = s /\ \A p \in Rows : p < nSoft => soft[p] = Exact(p)
            BY <1>1, <1>7, <2>1 DEF Encoded
        <3>7. \A p \in Rows : p < nSoft' => soft'[p] = Exact(p)'
            BY <1>1, <2>11, <3>6
        <3>8. nSub' = s /\ job'.block * Chunk = s
            BY <1>1, <1>7, <1>11, <1>12, <1>13
        <3> QED
            BY <1>1, <1>13, <1>14, <3>1, <3>2, <3>3, <3>4, <3>5, <3>6, <3>7, <3>8
                DEF Encoded, InBlock
    <2>14. Handed'
        BY <1>1, <2>1 DEF Handed, sessionVars
    <2> QED
        BY <2>2, <2>12, <2>13, <2>14
<1>24. Over'
    BY <1>1 DEF TInv, Over, TurnIsAttach, Attached, sessionVars
<1> QED
    BY <1>18, <1>19, <1>20, <1>21, <1>22, <1>23, <1>24 DEF TInv, BInv, Sound


-----------------------------------------------------------------------------
(* Theorems *)

THEOREM Invariant == Spec => []TInv
<1>1. TInv /\ [Next]_vars => TInv'
    <2> SUFFICES ASSUME TInv, [Next]_vars
                 PROVE  TInv'
        OBVIOUS
    <2>1. CASE UNCHANGED vars
        <3>1. TypeInv'
            BY <2>1 DEF TInv, BInv, TypeInv, FlagTypes, FrameTypes, StreamTypes, WorkerTypes,
                SessionTypes, vars, lockedVars, streamVars, sessionVars
        <3> QED
            BY <2>1, <3>1, QuietStep DEF vars, lockedVars, streamVars, sessionVars
    <2>2. CASE Begin
        BY <2>2, BeginStep
    <2>3. CASE Push
        BY <2>3, PushStep
    <2>4. CASE Poll
        BY <2>4, PollStep
    <2>5. CASE End
        BY <2>5, EndStep
    <2>6. CASE PullSome
        BY <2>6, PullSomeStep
    <2>7. CASE PullLast
        BY <2>7, PullLastStep
    <2>8. CASE Destroy
        BY <2>8, DestroyStep
    <2>9. CASE TakeKick
        BY <2>9, TakeKickStep
    <2>10. CASE Subsample
        BY <2>10, SubsampleStep
    <2>11. CASE Attend
        BY <2>11, AttendStep
    <2>12. CASE Project
        BY <2>12, ProjectStep
    <2>13. CASE Publish
        BY <2>13, PublishStep
    <2>14. CASE Count
        BY <2>14, CountStep
    <2>15. CASE Finish
        BY <2>15, FinishStep
    <2>16. CASE \/ BeginFails \/ PushRefused \/ PullWaits \/ Shutdown
                \/ SpuriousWakeup \/ GoToSleep \/ Exit
        BY <2>16, QuietSteps
    <2> QED
        BY <2>1, <2>2, <2>3, <2>4, <2>5, <2>6, <2>7, <2>8, <2>9, <2>10, <2>11, <2>12, <2>13,
            <2>14, <2>15, <2>16 DEF Next, PullStep, WorkerStep
<1> QED
    BY <1>1, InitHolds, PTL DEF Spec

\* The drain pointer never passes the tokens published, and those never pass the buffer,
\* for any block size and buffer: not even while the worker goes on with a push of a turn
\* that audio_encoder_reset has emptied.
THEOREM DrainStaysBehind == Spec => []DrainBehindPublish
<1>1. TInv => DrainBehindPublish
    BY AvailableTyped DEF TInv, DrainBehindPublish
<1> QED
    BY <1>1, Invariant, PTL

\* A turn is equivalent to attach_audio over its audio, for any audio, pushes, polls and
\* cuts of the worker: what has been handed over is always a prefix of the one-shot
\* encoder's tokens, and all of them when audio_end returns OK.
THEOREM TurnAlwaysAttach == Spec => []TurnIsAttach
<1>1. ASSUME TInv
      PROVE  TurnIsAttach
    <2> USE DEF TInv
    <2>1. CASE spc = "closed"
        BY <1>1, <2>1 DEF Over
    <2>2. CASE spc # "closed"
        <3> SUFFICES ASSUME clean, ~told
                     PROVE  /\ Len(heard) + Len(tail) <= SubTokens(pushed + 1)
                            /\ heard \o tail =
                                 SubSeq(Attached(pushed), 1, Len(heard) + Len(tail))
                            /\ status = "ok" => heard = Attached(pushed)
            BY DEF TurnIsAttach
        <3>1. Frames /\ Encoded /\ Handed
            BY <1>1, <2>2 DEF Sound
        <3>2. PICK n \in Nat, m \in Nat : n = nDrained /\ m = nSoft /\ n <= m
            BY <1>1, AvailableTyped DEF BInv, TypeInv, StreamTypes
        <3>3. FirstTokens(heard \o tail, turn, n)
            BY <3>1, <3>2 DEF Handed
        <3>4. /\ heard \in Seq(SoftTokens) /\ tail \in Seq(SoftTokens)
              /\ pushed \in Nat /\ turn \in Nat /\ mel = pushed
            BY <1>1, <3>1 DEF BInv, TypeInv, SessionTypes, Frames
        <3>5. heard \o tail \in Seq(SoftTokens) /\ n = Len(heard) + Len(tail)
            BY <3>3, <3>4, ConcatProperties DEF FirstTokens
        <3>6. PICK w \in Nat : w = Whole /\ w <= SubTokens(pushed + 1)
            BY <3>4, SubTokensGrow DEF Whole
        <3>7. SubTokens(pushed + 1) \in Nat
            BY <3>4, SubTokensGrow
        <3>8. m <= w
            <4>1. CASE wpc = "count"
                <5>1. InBlock /\ m = BlockEnd
                    BY <3>1, <3>2, <4>1 DEF Encoded, InBlock
                <5>2. PICK f \in Nat : f = job.full /\ f <= w
                    BY <1>1, <3>1, <3>6, <5>1 DEF Encoded, BInv, TypeInv, WorkerTypes, Jobs
                <5>3. BlockEnd <= job.full
                    BY <1>1, <5>1, BlockFacts
                <5> QED
                    BY <3>2, <3>6, <5>1, <5>2, <5>3
            <4>2. CASE wpc # "count"
                BY <3>1, <3>2, <3>6, <4>2 DEF Encoded
            <4> QED
                BY <4>1, <4>2
        <3>9. n <= SubTokens(pushed + 1)
            BY <3>2, <3>6, <3>7, <3>8
        <3>10. heard \o tail = SubSeq(Attached(pushed), 1, n)
            BY <3>3, <3>4, <3>5, <3>9, FirstOfAttached
        <3> QED
            BY <3>1, <3>5, <3>9, <3>10 DEF Handed
    <2> QED
        BY <2>1, <2>2
<1> QED
    BY <1>1, Invariant, PTL
=============================================================================
