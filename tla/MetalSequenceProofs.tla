------------------------ MODULE MetalSequenceProofs ------------------------
(***************************************************************************)
(* Proofs about MetalSequence, for any sessions, tensors and bounds: type   *)
(* correctness, that whatever is encoded or runs on the GPU is the work of    *)
(* the one thread that holds the lock, that the lock is given back, and that  *)
(* commands and the host find in memory what program order puts there.       *)
(*                                                                           *)
(* The argument: a thread gives the lock back only where it has waited for   *)
(* all it committed, and has closed its sequence; so whoever takes a free    *)
(* lock finds no sequence open and nothing on the GPU.  For the memory: the   *)
(* waiting commands lie in an order in which each finds, when its turn comes,*)
(* the version it was encoded against, and the host goes on only with a      *)
(* tensor that none of them uses.                                            *)
(***************************************************************************)
EXTENDS MetalSequence, TLAPS

HostPoints == {"write", "map", "result", "target", "blit"}
HostCalls == [then : HostPoints, on : Buffers, from : Buffers]
Closed == {"end", "flush", "alone", "token"}    \* waits, with no sequence open
Open == {"sync", "blitted"}                     \* goes on, in its own sequence

Holding(t) == /\ pc[t] \in Closed => lock.by = t /\ owner = Nobody
              /\ pc[t] \in Open => owner = t
              /\ pc[t] = "flush" => call[t].then \in HostPoints
OpenOrNot == IF owner = Nobody THEN seq = NoSequence ELSE seq.active
FreeIsQuiet == /\ lock.by = Nobody => queue = <<>>
               /\ \A i \in DOMAIN queue : queue[i] # <<>>

\* What the steps of one thread do to the backend, and to the threads.
Backend == /\ SequenceTyped /\ MemoryTyped /\ BufferBounded
           /\ OpenOrNot /\ FreeIsQuiet /\ SequenceIsPrivate
Threads == ThreadsTyped /\ OpsBounded /\ \A t \in Sessions : Holding(t)

IInv == Backend /\ Threads

-----------------------------------------------------------------------------
LEMMA Bounds ==
    /\ MaxOps \in [Sessions -> Nat]
    /\ RotateEvery \in Nat \ {0} /\ PendingCap \in Nat \ {0}
    /\ MaxFailures \in Nat
    /\ Nobody \notin Sessions
    BY SequenceConstants

LEMMA NewSequences ==
    /\ {NoSequence, Opened} \subseteq
         [active : BOOLEAN, work : BOOLEAN, cmds : Seq(Commands), pending : 0 .. PendingCap]
    /\ NoSequence.cmds = <<>> /\ Opened.cmds = <<>> /\ Opened.active
<1>1. 0 \in 0 .. PendingCap /\ <<>> \in Seq(Commands)
    BY Bounds
<1> QED
    BY <1>1 DEF NoSequence, Opened

LEMMA InitHolds == Init => IInv
<1> SUFFICES ASSUME Init PROVE IInv
    OBVIOUS
<1> USE DEF Init
<1>1. SequenceTyped /\ MemoryTyped
    BY Bounds DEF SequenceTyped, MemoryTyped, NoSequence, Buffers
<1>2. ThreadsTyped /\ OpsBounded /\ BufferBounded
    BY Bounds DEF ThreadsTyped, OpsBounded, BufferBounded, NoSequence, NoCall, HostCall, Points, Buffers
<1>3. OpenOrNot /\ FreeIsQuiet /\ SequenceIsPrivate /\ \A t \in Sessions : Holding(t)
    BY DEF OpenOrNot, FreeIsQuiet, SequenceIsPrivate, Holding, NoSequence, Closed, Open
<1> QED
    BY <1>1, <1>2, <1>3 DEF IInv, Backend, Threads

\* Whoever can take the lock is alone with it.
LEMMA OthersOut ==
    ASSUME IInv, NEW t \in Sessions, CanLock(t), NEW u \in Sessions, u # t
    PROVE  pc[u] \notin Closed \cup Open
    BY Bounds DEF IInv, Backend, Threads, CanLock, Holding, SequenceIsPrivate

LEMMA MineIsLocked ==
    ASSUME IInv, NEW t \in Sessions, Mine(t)
    PROVE  CanLock(t) /\ lock.by = t /\ seq.active
    BY Bounds DEF IInv, Backend, OpenOrNot, CanLock, Mine, SequenceIsPrivate

LEMMA OthersClosed ==
    ASSUME IInv, NEW t \in Sessions, CanLock(t), ~Mine(t)
    PROVE  owner = Nobody /\ seq = NoSequence
    BY Bounds DEF IInv, Backend, SequenceTyped, OpenOrNot, CanLock, Mine, SequenceIsPrivate

LEMMA CopyIsCommand ==
    ASSUME MemoryTyped, NEW t \in Sessions, NEW src \in Buffers \cup {Staging}, NEW dst \in Buffers
    PROVE  Copy(t, src, dst) \in Commands /\ Copy(t, src, dst).by = t
    BY DEF MemoryTyped, Copy, Commands

LEMMA CountStep ==
    ASSUME OpsBounded, NEW t \in Sessions, Free(t), Counts(t)
    PROVE  OpsBounded'
<1>1. ops' \in [Sessions -> Nat]
    BY DEF OpsBounded, Counts
<1>2. ASSUME NEW u \in Sessions PROVE ops'[u] <= MaxOps[u]
  <2>1. CASE u = t
    <3>1. ops'[u] = ops[u] + 1 /\ ops[u] < MaxOps[u]
        BY <2>1 DEF OpsBounded, Counts, Free
    <3> QED
        BY <3>1, Bounds DEF OpsBounded
  <2>2. CASE u # t
    BY <2>2 DEF OpsBounded, Counts
  <2> QED
    BY <2>1, <2>2
<1> QED
    BY <1>1, <1>2 DEF OpsBounded

LEMMA FailureStep ==
    ASSUME BufferBounded, NEW where, NEW ok \in BOOLEAN, Created(where, ok)
    PROVE  /\ failures' \in 0 .. MaxFailures
           /\ failures' = failures + (IF ok THEN 0 ELSE 1)
    BY Bounds DEF BufferBounded, Created

LEMMA EmptyIsBounded ==
    ASSUME failures' \in 0 .. MaxFailures, seq' = NoSequence
    PROVE  BufferBounded'
<1>1. \A n \in 0 .. MaxFailures : 0 <= RotateEvery + n
    BY Bounds
<1>2. Len(seq'.cmds) = 0
    BY DEF NoSequence
<1> QED
    BY <1>1, <1>2 DEF BufferBounded

-----------------------------------------------------------------------------
(* What the shared parts of the actions do to the backend *)

\* A command encoded by the owner.
LEMMA EncodeKeepsBackend ==
    ASSUME IInv, NEW t \in Sessions, Mine(t), NEW c \in Commands, c.by = t,
           Encode(t, c), UNCHANGED <<lock, owner, mem>>
    PROVE  Backend'
<1> USE DEF IInv, Backend
<1>1. lock.by = t /\ owner = t /\ seq.active
    BY MineIsLocked DEF Mine
<1> DEFINE full == Len(seq.cmds) >= RotateEvery
<1>2. PICK rotates \in BOOLEAN :
        /\ rotates => full
        /\ IF full THEN Created("rotate", rotates) ELSE UNCHANGED failures
        /\ queue' = IF rotates THEN Append(queue, seq.cmds) ELSE queue
        /\ seq' = [seq EXCEPT !.work = TRUE,
                              !.cmds = IF rotates THEN <<c>> ELSE Append(@, c),
                              !.pending = (IF full THEN Room(@) ELSE @) + (IF rotates THEN 1 ELSE 0)]
        /\ refs' = RefsKept(rotates) \cup ({c.dst} \cup (IF c.src = Staging THEN {} ELSE {c.src}))
        /\ ver' = [ver EXCEPT ![c.dst] = c.makes]
    BY DEF Encode
<1>3. seq.cmds \in Seq(Commands) /\ queue \in Seq(Seq(Commands)) /\ seq.pending \in 0 .. PendingCap
    BY DEF SequenceTyped, MemoryTyped
<1>4. seq'.cmds \in Seq(Commands) /\ queue' \in Seq(Seq(Commands))
    BY <1>2, <1>3 DEF SequenceTyped
<1>5. seq'.pending \in 0 .. PendingCap
    BY <1>2, <1>3, Bounds DEF SequenceTyped, Room
<1>6. c.dst \in Buffers /\ c.src \in Buffers \cup {Staging} /\ c.makes \in Nat
    BY DEF Commands
<1>7. SequenceTyped'
  <2>1. seq' \in [active : BOOLEAN, work : BOOLEAN, cmds : Seq(Commands), pending : 0 .. PendingCap]
    BY <1>2, <1>4, <1>5 DEF SequenceTyped
  <2>2. refs' \subseteq Buffers
    BY <1>2, <1>6 DEF SequenceTyped, RefsKept
  <2> QED
    BY <2>1, <2>2 DEF SequenceTyped
<1>8. MemoryTyped'
    BY <1>2, <1>4, <1>6 DEF MemoryTyped
<1>9. BufferBounded'
  <2>1. CASE ~full
    BY <2>1, <1>2, <1>3, Bounds DEF BufferBounded, SequenceTyped
  <2>2. CASE full
    <3>1. failures' \in 0 .. MaxFailures /\ failures' = failures + (IF rotates THEN 0 ELSE 1)
        BY <2>2, <1>2, FailureStep
    <3>2. Len(seq'.cmds) = IF rotates THEN 1 ELSE Len(seq.cmds) + 1
        BY <1>2, <1>3 DEF SequenceTyped
    <3> QED
        BY <3>1, <3>2, Bounds, <1>3 DEF BufferBounded
  <2> QED
    BY <2>1, <2>2
<1>10. OpenOrNot' /\ FreeIsQuiet'
  <2>1. OpenOrNot'
    BY <1>1, <1>2, Bounds DEF OpenOrNot, SequenceTyped
  <2>2. full => seq.cmds # <<>>
    BY <1>3, Bounds
  <2>3. \A i \in DOMAIN queue' : queue'[i] # <<>>
    BY <1>2, <1>3, <2>2 DEF FreeIsQuiet
  <2> QED
    BY <1>1, <2>1, <2>3, Bounds DEF FreeIsQuiet
<1>11. SequenceIsPrivate'
  <2>1. \A i \in DOMAIN seq'.cmds : seq'.cmds[i].by = lock.by
    BY <1>1, <1>2, <1>3 DEF SequenceIsPrivate, SequenceTyped
  <2>2. \A i \in DOMAIN queue' : \A j \in DOMAIN queue'[i] : queue'[i][j].by = lock.by
    BY <1>2, <1>3 DEF SequenceIsPrivate
  <2>3. seq'.active
    BY <1>1, <1>2 DEF SequenceTyped
  <2> QED
    BY <1>1, <2>1, <2>2, <2>3, Bounds DEF SequenceIsPrivate
<1> QED
    BY <1>7, <1>8, <1>9, <1>10, <1>11

\* A command on a buffer of its own, under the lock.
LEMMA AloneKeepsBackend ==
    ASSUME IInv, NEW t \in Sessions, ~Mine(t), NEW c \in Commands, c.by = t, NEW then,
           Alone(t, c, then), UNCHANGED mem
    PROVE  /\ Backend'
           /\ \/ pc' = [pc EXCEPT ![t] = then] /\ lock'.by = t /\ owner' = Nobody
              \/ pc' = [pc EXCEPT ![t] = "idle"] /\ lock' = lock /\ owner' = owner
<1> USE DEF IInv, Backend
<1>1. CanLock(t) /\ UNCHANGED <<owner, seq, refs>>
    BY DEF Alone
<1>2. owner = Nobody /\ seq = NoSequence
    BY <1>1, OthersClosed
<1>3. PICK ok \in BOOLEAN :
        /\ Created("alone", ok)
        /\ IF ok THEN /\ lock' = Locked(t) /\ queue' = Append(queue, <<c>>)
                      /\ ver' = [ver EXCEPT ![c.dst] = c.makes] /\ Goto(t, then)
           ELSE Goto(t, "idle") /\ UNCHANGED <<lock, queue, ver>>
    BY DEF Alone
<1>4. BufferBounded'
    BY <1>1, <1>2, <1>3, FailureStep, EmptyIsBounded
<1>5. CASE ok
  <2>1. lock' \in [by : Sessions \cup {Nobody}, depth : Nat] /\ lock'.by = t /\ lock'.depth # 0
    BY <1>3, <1>5 DEF Locked, SequenceTyped
  <2>2. SequenceTyped'
    BY <2>1, <1>1, Bounds DEF SequenceTyped
  <2>3. c.dst \in Buffers /\ c.makes \in Nat /\ <<c>> \in Seq(Commands)
    BY DEF Commands
  <2>4. MemoryTyped'
    <3>1. queue \in Seq(Seq(Commands)) /\ queue' = Append(queue, <<c>>)
        BY <1>3, <1>5 DEF MemoryTyped
    <3>2. queue' \in Seq(Seq(Commands))
        BY <2>3, <3>1
    <3>3. ver' \in [Buffers -> Nat]
        BY <2>3, <1>3, <1>5 DEF MemoryTyped
    <3> QED
        BY <3>2, <3>3 DEF MemoryTyped
  <2>5. lock.by = t \/ queue = <<>>
    BY <1>1 DEF CanLock, FreeIsQuiet
  <2>6. \A i \in DOMAIN queue' : \A j \in DOMAIN queue'[i] : queue'[i][j].by = lock'.by
    <3>1. queue' = Append(queue, <<c>>)
        BY <1>3, <1>5
    <3>2. CASE lock.by = t
        BY <3>1, <3>2, <2>1 DEF SequenceIsPrivate, MemoryTyped
    <3>3. CASE queue = <<>>
        BY <3>1, <3>3, <2>1
    <3> QED
        BY <2>5, <3>2, <3>3
  <2>7. \A i \in DOMAIN queue' : queue'[i] # <<>>
    <3>1. queue \in Seq(Seq(Commands)) /\ queue' = Append(queue, <<c>>)
        BY <1>3, <1>5 DEF MemoryTyped
    <3>2. <<c>> # <<>> /\ <<c>> \in Seq(Commands)
        BY <2>3
    <3> QED
        BY <3>1, <3>2 DEF FreeIsQuiet
  <2>8. SequenceIsPrivate' /\ OpenOrNot' /\ FreeIsQuiet'
    BY <2>1, <2>6, <2>7, <1>1, <1>2, Bounds DEF SequenceIsPrivate, OpenOrNot, FreeIsQuiet, NoSequence
  <2> QED
    BY <1>1, <1>2, <1>3, <1>4, <1>5, <2>1, <2>2, <2>4, <2>8 DEF Goto
<1>6. CASE ~ok
  <2>1. UNCHANGED <<lock, owner, seq, refs, queue, ver, mem>> /\ pc' = [pc EXCEPT ![t] = "idle"]
    BY <1>1, <1>3, <1>6 DEF Goto
  <2>2. SequenceTyped' /\ MemoryTyped' /\ OpenOrNot' /\ FreeIsQuiet' /\ SequenceIsPrivate'
    BY <2>1 DEF SequenceTyped, MemoryTyped, OpenOrNot, FreeIsQuiet, SequenceIsPrivate
  <2> QED
    BY <2>1, <2>2, <1>4
<1> QED
    BY <1>5, <1>6

\* The sequence is closed and its command buffer committed.
LEMMA EndKeepsBackend ==
    ASSUME IInv, NEW t \in Sessions, Mine(t), EndSequence,
           UNCHANGED <<lock, refs, mem, ver, failures>>
    PROVE  Backend' /\ lock'.by = t /\ owner' = Nobody
<1> USE DEF IInv, Backend
<1>1. lock.by = t
    BY MineIsLocked
<1>2. owner' = Nobody /\ seq' = NoSequence
      /\ queue' = IF seq.cmds = <<>> THEN queue ELSE Append(queue, seq.cmds)
    BY DEF EndSequence
<1>3. seq.cmds \in Seq(Commands) /\ queue \in Seq(Seq(Commands))
    BY DEF SequenceTyped, MemoryTyped
<1>4. SequenceTyped' /\ MemoryTyped' /\ BufferBounded'
    BY <1>2, <1>3, Bounds DEF SequenceTyped, MemoryTyped, BufferBounded, NoSequence
<1>5. \A i \in DOMAIN queue' : \A j \in DOMAIN queue'[i] : queue'[i][j].by = lock.by
    BY <1>2, <1>3 DEF SequenceIsPrivate
<1>6. \A i \in DOMAIN queue' : queue'[i] # <<>>
    BY <1>2, <1>3 DEF FreeIsQuiet
<1>7. SequenceIsPrivate' /\ OpenOrNot' /\ FreeIsQuiet'
    BY <1>1, <1>2, <1>5, <1>6, Bounds DEF SequenceIsPrivate, OpenOrNot, FreeIsQuiet, NoSequence
<1> QED
    BY <1>1, <1>2, <1>4, <1>7

\* A thread that has waited for all it committed gives the lock back.
LEMMA UnlockKeepsBackend ==
    ASSUME IInv, NEW t \in Sessions, lock.by = t, owner = Nobody, queue = <<>>,
           lock' = Unlocked, refs' \in {refs, {}}, UNCHANGED <<owner, seq, queue, mem, ver, failures>>
    PROVE  Backend'
<1> USE DEF IInv, Backend
<1>1. lock.depth \in Nat \ {0} /\ seq = NoSequence
    BY Bounds DEF SequenceTyped, OpenOrNot
<1>2. lock' \in [by : Sessions \cup {Nobody}, depth : Nat] /\ (lock'.by = Nobody <=> lock'.depth = 0)
    BY <1>1, Bounds DEF Unlocked, SequenceTyped
<1>3. SequenceTyped'
    BY <1>2 DEF SequenceTyped
<1>4. MemoryTyped' /\ BufferBounded' /\ OpenOrNot' /\ FreeIsQuiet'
    BY DEF MemoryTyped, BufferBounded, OpenOrNot, FreeIsQuiet
<1>5. SequenceIsPrivate'
    BY <1>1 DEF SequenceIsPrivate, NoSequence
<1> QED
    BY <1>3, <1>4, <1>5

\* The host goes on, and maybe writes a tensor.
LEMMA HostKeepsBackend ==
    ASSUME IInv, UNCHANGED <<sequenceVars, queue, failures>>, MemoryTyped'
    PROVE  Backend'
<1> USE DEF IInv, Backend, sequenceVars
<1>1. SequenceTyped' /\ BufferBounded'
    BY DEF SequenceTyped, BufferBounded
<1>2. OpenOrNot' /\ FreeIsQuiet' /\ SequenceIsPrivate'
    BY DEF OpenOrNot, FreeIsQuiet, SequenceIsPrivate
<1> QED
    BY <1>1, <1>2

\* The GPU finishes a command, and with the last one the command buffer.
LEMMA GpuKeepsBackend ==
    ASSUME IInv, GpuStep
    PROVE  Backend'
<1> USE DEF IInv, Backend
<1> DEFINE buf == Head(queue)
           c == Head(buf)
<1>1. /\ queue # <<>>
      /\ mem' = [mem EXCEPT ![c.dst] =
                    IF c.src = Staging \/ mem[c.src] = c.saw THEN c.makes ELSE Wrong]
      /\ queue' = IF Len(buf) = 1 THEN Tail(queue) ELSE <<Tail(buf)>> \o Tail(queue)
      /\ UNCHANGED <<sequenceVars, ver, failures>>
    BY DEF GpuStep
<1>2. queue \in Seq(Seq(Commands)) /\ Tail(queue) \in Seq(Seq(Commands))
    BY <1>1 DEF MemoryTyped
<1>3. buf = queue[1] /\ buf \in Seq(Commands) /\ buf # <<>>
    BY <1>1, <1>2 DEF FreeIsQuiet
<1>4. c \in Commands /\ Tail(buf) \in Seq(Commands)
    BY <1>3
<1>5. c.makes \in Nat /\ c.dst \in Buffers
    BY <1>4 DEF Commands
<1> DEFINE rest == <<Tail(buf)>>
<1>6. rest \in Seq(Seq(Commands)) /\ Len(rest) = 1 /\ rest[1] = Tail(buf)
    BY <1>4
<1>7. MemoryTyped'
  <2>1. queue' \in Seq(Seq(Commands))
    BY <1>1, <1>2, <1>6
  <2>2. mem' \in [Buffers -> Nat \cup {Wrong}]
    BY <1>1, <1>5 DEF MemoryTyped
  <2> QED
    BY <1>1, <2>1, <2>2 DEF MemoryTyped
<1>8. lock.by # Nobody
    BY <1>1 DEF FreeIsQuiet
<1>9. ASSUME NEW i \in DOMAIN queue'
      PROVE  queue'[i] # <<>> /\ \A j \in DOMAIN queue'[i] : queue'[i][j].by = lock.by
  <2>1. CASE Len(buf) = 1
    <3>1. i + 1 \in DOMAIN queue /\ queue'[i] = queue[i + 1]
        BY <2>1, <1>1, <1>2
    <3> QED
        BY <3>1 DEF FreeIsQuiet, SequenceIsPrivate
  <2>2. CASE Len(buf) # 1
    <3>1. queue' = rest \o Tail(queue)
        BY <2>2, <1>1
    <3>2. CASE i = 1
      <4>1. queue'[i] = Tail(buf)
        BY <3>1, <3>2, <1>2, <1>6
      <4>2. \A j \in DOMAIN Tail(buf) : j + 1 \in DOMAIN buf /\ Tail(buf)[j] = buf[j + 1]
        BY <1>3
      <4>3. Tail(buf) # <<>>
        <5>1. Len(buf) \in Nat \ {0, 1}
            BY <1>3, <2>2
        <5>2. Len(Tail(buf)) = Len(buf) - 1
            BY <1>3
        <5>3. Len(Tail(buf)) # 0
            BY <5>1, <5>2
        <5>4. \A s \in Seq(Commands) : Len(s) # 0 => s # <<>>
            OBVIOUS
        <5> QED
            BY <1>4, <5>3, <5>4
      <4>4. 1 \in DOMAIN queue
        BY <1>1, <1>2
      <4> QED
        BY <4>1, <4>2, <4>3, <4>4, <1>3 DEF SequenceIsPrivate
    <3>3. CASE i # 1
      <4>1. i \in DOMAIN queue /\ queue'[i] = queue[i]
        BY <3>1, <3>3, <1>1, <1>2, <1>6
      <4> QED
        BY <4>1 DEF FreeIsQuiet, SequenceIsPrivate
    <3> QED
        BY <3>2, <3>3
  <2> QED
    BY <2>1, <2>2
<1>10. SequenceTyped' /\ BufferBounded' /\ OpenOrNot'
    BY <1>1 DEF SequenceTyped, BufferBounded, OpenOrNot, sequenceVars
<1>11. SequenceIsPrivate' /\ FreeIsQuiet'
    BY <1>1, <1>8, <1>9 DEF SequenceIsPrivate, FreeIsQuiet, sequenceVars
<1> QED
    BY <1>7, <1>10, <1>11

-----------------------------------------------------------------------------
(* What a step of a thread does to the threads *)

CallsTyped == call \in [Sessions -> [then : Points, on : Buffers, from : Buffers]]
InTyped == in \in [Sessions -> {"none", "sequence", "bare"}]
ReadTyped == read \in [Sessions -> [got : Nat \cup {Wrong}, want : Nat]]

LEMMA PartsTyped ==
    ThreadsTyped => CallsTyped /\ InTyped /\ ReadTyped /\ pc \in [Sessions -> Points]
    BY DEF ThreadsTyped, CallsTyped, InTyped, ReadTyped

\* Thread t goes on at `where`; the lock and the sequence are its own if it
\* changes them.
LEMMA ThreadStep ==
    ASSUME IInv, NEW t \in Sessions, NEW where \in Points, Goto(t, where),
           CanLock(t) \/ UNCHANGED <<lock, owner>>,
           CallsTyped', \A u \in Sessions : u # t => call'[u] = call[u],
           InTyped', ReadTyped', OpsBounded', Holding(t)'
    PROVE  Threads'
<1>1. pc' = [pc EXCEPT ![t] = where] /\ pc \in [Sessions -> Points]
    BY PartsTyped DEF Goto, IInv, Threads
<1>2. ThreadsTyped'
    BY <1>1 DEF ThreadsTyped, CallsTyped, InTyped, ReadTyped
<1>3. ASSUME NEW u \in Sessions, u # t PROVE Holding(u)'
  <2>1. pc'[u] = pc[u] /\ call'[u] = call[u]
    BY <1>1, <1>3
  <2>2. CASE CanLock(t)
    BY <2>1, <2>2, <1>3, OthersOut DEF Holding, Closed
  <2>3. CASE UNCHANGED <<lock, owner>>
    BY <2>1, <2>3 DEF Holding, IInv, Threads
  <2> QED
    BY <2>2, <2>3
<1> QED
    BY <1>2, <1>3 DEF Threads

\* The host asks for a tensor: the sequence may have to be flushed first.
LEMMA FlushForStep ==
    ASSUME IInv, NEW t \in Sessions, pc[t] \in {"idle", "sync", "target"}, NEW b \in Buffers,
           NEW c \in HostCalls, FlushFor(t, b, c),
           UNCHANGED <<mem, ver, in, read, failures>>, OpsBounded'
    PROVE  IInv'
<1>1. call \in [Sessions -> [then : Points, on : Buffers, from : Buffers]] /\ call' = [call EXCEPT ![t] = c]
    BY PartsTyped DEF FlushFor, IInv, Threads, CallsTyped
<1>2. CallsTyped' /\ call'[t].then = c.then /\ c.then \in HostPoints /\ \A u \in Sessions : u # t => call'[u] = call[u]
    BY <1>1 DEF CallsTyped, HostCalls, HostPoints, Points
<1>3. InTyped' /\ ReadTyped' /\ pc \in [Sessions -> Points]
    BY PartsTyped DEF IInv, Threads, InTyped, ReadTyped
<1>4. CASE References(t, b) /\ seq.work
  <2>1. Mine(t) /\ EndSequence /\ Goto(t, "flush") /\ UNCHANGED <<lock, refs>>
    BY <1>4 DEF FlushFor, References
  <2>2. Backend' /\ lock'.by = t /\ owner' = Nobody
    BY <2>1, EndKeepsBackend
  <2>3. Holding(t)'
    BY <2>1, <2>2, <1>2, <1>3 DEF Holding, Goto, Closed, Open
  <2>4. CanLock(t) /\ "flush" \in Points
    BY <2>1, MineIsLocked DEF Points
  <2> QED
    BY <2>1, <2>2, <2>3, <2>4, <1>2, <1>3, ThreadStep DEF IInv
<1>5. CASE ~(References(t, b) /\ seq.work)
  <2>1. Goto(t, c.then) /\ UNCHANGED <<sequenceVars, queue>>
    BY <1>5 DEF FlushFor
  <2>2. Backend'
    BY <2>1, HostKeepsBackend DEF IInv, Backend, MemoryTyped
  <2>3. Holding(t)'
    BY <2>1, <1>2, <1>3 DEF Holding, Goto, HostPoints, Closed, Open
  <2>4. c.then \in Points /\ UNCHANGED <<lock, owner>>
    BY <2>1, <1>2 DEF HostPoints, Points, sequenceVars
  <2> QED
    BY <2>1, <2>2, <2>3, <2>4, <1>2, <1>3, ThreadStep DEF IInv
<1> QED
    BY <1>4, <1>5

\* A thread goes on with nothing of its call changed but where it is.
LEMMA PlainStep ==
    ASSUME IInv, Backend', NEW t \in Sessions, NEW where \in Points, Goto(t, where),
           CanLock(t) \/ UNCHANGED <<lock, owner>>,
           UNCHANGED call, InTyped', ReadTyped', OpsBounded',
           where \in Closed => lock'.by = t /\ owner' = Nobody,
           where \in Open => owner' = t,
           where # "flush"
    PROVE  IInv'
<1>1. CallsTyped' /\ \A u \in Sessions : u # t => call'[u] = call[u]
    BY PartsTyped DEF IInv, Threads, CallsTyped
<1>2. pc'[t] = where
    BY PartsTyped DEF IInv, Threads, Goto
<1>3. Holding(t)'
    BY <1>2 DEF Holding
<1> QED
    BY <1>1, <1>3, ThreadStep DEF IInv

LEMMA Same ==
    ASSUME IInv
    PROVE  /\ UNCHANGED in => InTyped'
           /\ UNCHANGED read => ReadTyped'
           /\ UNCHANGED ops => OpsBounded'
           /\ UNCHANGED <<mem, ver, queue>> => MemoryTyped'
           /\ mem \in [Buffers -> Nat \cup {Wrong}] /\ ver \in [Buffers -> Nat]
           /\ \A t \in Sessions : call[t].on \in Buffers /\ call[t].from \in Buffers /\ call[t].then \in Points
           /\ \A t \in Sessions : UNCHANGED pc => Goto(t, pc[t])
    BY PartsTyped DEF IInv, Backend, Threads, InTyped, ReadTyped, CallsTyped, OpsBounded, MemoryTyped, Goto

LEMMA OwnTensor ==
    ASSUME NEW t \in Sessions, NEW b \in Of(t)
    PROVE  b \in Buffers
    BY DEF Of, Buffers

\* A command of an op, encoded into the sequence or submitted alone.
LEMMA OpKeeps ==
    ASSUME IInv, NEW t \in Sessions, Op(t)
    PROVE  IInv'
<1>1. OpsBounded' /\ InTyped' /\ ReadTyped' /\ pc[t] = "idle"
    BY CountStep, Same DEF Op, Free, IInv, Threads
<1>2. PICK b \in Of(t) :
        IF Mine(t) THEN Encode(t, Copy(t, b, b)) /\ UNCHANGED <<lock, owner, pc>>
        ELSE Alone(t, Copy(t, b, b), "alone")
    BY DEF Op
<1>3. Copy(t, b, b) \in Commands /\ Copy(t, b, b).by = t
    BY OwnTensor, CopyIsCommand DEF IInv, Backend
<1>4. UNCHANGED <<mem, call, in, read>>
    BY DEF Op
<1>5. CASE Mine(t)
  <2>1. Encode(t, Copy(t, b, b)) /\ UNCHANGED <<lock, owner, pc>>
    BY <1>2, <1>5
  <2>2. Backend'
    BY <2>1, <1>3, <1>4, <1>5, EncodeKeepsBackend
  <2>3. Goto(t, "idle") /\ "idle" \in Points /\ "idle" \notin Closed \cup Open
    BY <2>1, <1>1, Same DEF Points, Closed, Open
  <2> QED
    BY <2>1, <2>2, <2>3, <1>1, <1>4, PlainStep
<1>6. CASE ~Mine(t)
  <2>1. Alone(t, Copy(t, b, b), "alone") /\ CanLock(t)
    BY <1>2, <1>6 DEF Alone
  <2>2. /\ Backend'
        /\ \/ pc' = [pc EXCEPT ![t] = "alone"] /\ lock'.by = t /\ owner' = Nobody
           \/ pc' = [pc EXCEPT ![t] = "idle"] /\ lock' = lock /\ owner' = owner
    BY <2>1, <1>3, <1>4, <1>6, AloneKeepsBackend
  <2>3. CASE Goto(t, "alone") /\ lock'.by = t /\ owner' = Nobody
    BY <2>1, <2>2, <2>3, <1>1, <1>4, PlainStep DEF Points, Open
  <2>4. CASE Goto(t, "idle")
    BY <2>1, <2>2, <2>4, <1>1, <1>4, PlainStep DEF Points, Closed, Open
  <2> QED
    BY <2>2, <2>3, <2>4 DEF Goto
<1> QED
    BY <1>5, <1>6

LEMMA ArgmaxKeeps ==
    ASSUME IInv, NEW t \in Sessions, Argmax(t)
    PROVE  IInv'
<1>1. OpsBounded' /\ InTyped' /\ pc[t] = "idle"
    BY CountStep, Same DEF Argmax, Free, IInv, Threads
<1>2. PICK b \in Of(t) :
        IF Mine(t) THEN Encode(t, Copy(t, b, Result)) /\ Goto(t, "sync") /\ UNCHANGED <<lock, owner>>
        ELSE Alone(t, Copy(t, b, Result), "token")
    BY DEF Argmax
<1>3. Copy(t, b, Result) \in Commands /\ Copy(t, b, Result).by = t
    BY OwnTensor, CopyIsCommand DEF IInv, Backend, Buffers
<1>4. UNCHANGED <<mem, call, in>>
    BY DEF Argmax
<1>5. ASSUME Backend' PROVE ReadTyped'
  <2>1. ver'[Result] \in Nat
    BY <1>5 DEF Backend, MemoryTyped, Buffers
  <2>2. ReadTyped
    BY PartsTyped DEF IInv, Threads
  <2> QED
    BY <2>1, <2>2 DEF Argmax, ReadTyped
<1>6. CASE Mine(t)
  <2>1. Encode(t, Copy(t, b, Result)) /\ Goto(t, "sync") /\ UNCHANGED <<lock, owner>>
    BY <1>2, <1>6
  <2>2. Backend'
    BY <2>1, <1>3, <1>4, <1>6, EncodeKeepsBackend
  <2>3. "sync" \in Points /\ "sync" \notin Closed /\ owner' = t
    BY <2>1, <1>6 DEF Points, Closed, Mine
  <2> QED
    BY <2>1, <2>2, <2>3, <1>1, <1>4, <1>5, PlainStep
<1>7. CASE ~Mine(t)
  <2>1. Alone(t, Copy(t, b, Result), "token") /\ CanLock(t)
    BY <1>2, <1>7 DEF Alone
  <2>2. /\ Backend'
        /\ \/ pc' = [pc EXCEPT ![t] = "token"] /\ lock'.by = t /\ owner' = Nobody
           \/ pc' = [pc EXCEPT ![t] = "idle"] /\ lock' = lock /\ owner' = owner
    BY <2>1, <1>3, <1>4, <1>7, AloneKeepsBackend
  <2>3. CASE Goto(t, "token") /\ lock'.by = t /\ owner' = Nobody
    BY <2>1, <2>2, <2>3, <1>1, <1>4, <1>5, PlainStep DEF Points, Open
  <2>4. CASE Goto(t, "idle")
    BY <2>1, <2>2, <2>4, <1>1, <1>4, <1>5, PlainStep DEF Points, Closed, Open
  <2> QED
    BY <2>2, <2>3, <2>4 DEF Goto
<1> QED
    BY <1>6, <1>7

LEMMA BlitKeeps ==
    ASSUME IInv, NEW t \in Sessions, Blit(t)
    PROVE  IInv'
<1> DEFINE c == Copy(t, call[t].from, call[t].on)
<1>1. c \in Commands /\ c.by = t
    BY CopyIsCommand, Same DEF IInv, Backend
<1>2. UNCHANGED <<mem, in, read, ops>> /\ OpsBounded' /\ InTyped' /\ ReadTyped' /\ pc[t] = "blit"
    BY Same DEF Blit
<1>3. CallsTyped' /\ \A u \in Sessions : u # t => call'[u] = call[u]
    BY PartsTyped DEF Blit, IInv, Threads, CallsTyped, NoCall, HostCall, Points, Buffers
<1>4. pc \in [Sessions -> Points]
    BY PartsTyped DEF IInv, Threads
<1> HIDE DEF c
<1>5. CASE Mine(t)
  <2>1. PICK ok \in BOOLEAN :
          /\ Created("alone", ok)
          /\ IF ok THEN /\ queue' = Append(queue, <<c>>)
                        /\ ver' = [ver EXCEPT ![c.dst] = c.makes]
                        /\ Goto(t, "blitted")
             ELSE Goto(t, "idle") /\ UNCHANGED <<queue, ver>>
          /\ UNCHANGED sequenceVars
    BY <1>5 DEF Blit, c
  <2>2. lock.by = t /\ owner = t /\ UNCHANGED <<lock, owner, seq, refs>>
    BY <2>1, <1>5, MineIsLocked DEF Mine, sequenceVars
  <2>3. SequenceTyped' /\ OpenOrNot' /\ BufferBounded'
    <3>1. SequenceTyped' /\ OpenOrNot'
        BY <2>2 DEF SequenceTyped, OpenOrNot, IInv, Backend
    <3>2. failures' \in 0 .. MaxFailures /\ failures' = failures + (IF ok THEN 0 ELSE 1)
        BY <2>1, FailureStep DEF IInv, Backend
    <3>3. Len(seq.cmds) \in Nat
        BY DEF IInv, Backend, SequenceTyped
    <3> QED
        BY <3>1, <3>2, <3>3, <2>2, Bounds DEF BufferBounded, IInv, Backend
  <2>4. queue \in Seq(Seq(Commands)) /\ <<c>> \in Seq(Commands) /\ c.dst \in Buffers /\ c.makes \in Nat
    BY <1>1 DEF IInv, Backend, MemoryTyped, Commands
  <2>5. CASE ok
    <3>1. queue' = Append(queue, <<c>>) /\ ver' = [ver EXCEPT ![c.dst] = c.makes] /\ Goto(t, "blitted")
        BY <2>1, <2>5
    <3>2. MemoryTyped'
        BY <3>1, <2>4, <1>2 DEF IInv, Backend, MemoryTyped
    <3>3. \A i \in DOMAIN queue' :
            queue'[i] # <<>> /\ \A j \in DOMAIN queue'[i] : queue'[i][j].by = t
        BY <3>1, <2>2, <2>4, <1>1 DEF IInv, Backend, FreeIsQuiet, SequenceIsPrivate
    <3>4. SequenceIsPrivate' /\ FreeIsQuiet'
        BY <3>3, <2>2, Bounds DEF IInv, Backend, FreeIsQuiet, SequenceIsPrivate
    <3>5. Holding(t)'
        BY <3>1, <2>2, <1>4 DEF Holding, Goto, Closed, Open
    <3> QED
        BY <3>1, <3>2, <3>4, <3>5, <2>2, <2>3, <1>2, <1>3, ThreadStep DEF IInv, Backend, Points
  <2>6. CASE ~ok
    <3>1. Goto(t, "idle") /\ UNCHANGED <<queue, ver>>
        BY <2>1, <2>6
    <3>2. MemoryTyped'
        BY <3>1, <1>2, Same
    <3>3. SequenceIsPrivate' /\ FreeIsQuiet'
        BY <3>1, <2>2 DEF IInv, Backend, FreeIsQuiet, SequenceIsPrivate
    <3>4. Holding(t)'
        BY <3>1, <1>4 DEF Holding, Goto, Closed, Open
    <3> QED
        BY <3>1, <3>2, <3>3, <3>4, <2>2, <2>3, <1>2, <1>3, ThreadStep DEF IInv, Backend, Points
  <2> QED
    BY <2>5, <2>6
<1>6. CASE ~Mine(t)
  <2>1. Alone(t, c, "alone") /\ CanLock(t)
    BY <1>6 DEF Blit, Alone, c
  <2>2. /\ Backend'
        /\ \/ pc' = [pc EXCEPT ![t] = "alone"] /\ lock'.by = t /\ owner' = Nobody
           \/ pc' = [pc EXCEPT ![t] = "idle"] /\ lock' = lock /\ owner' = owner
    BY <2>1, <1>1, <1>2, <1>6, AloneKeepsBackend
  <2>3. PICK where \in {"alone", "idle"} :
          Goto(t, where) /\ (where = "alone" => lock'.by = t /\ owner' = Nobody)
    BY <2>2 DEF Goto
  <2>4. Holding(t)' /\ where \in Points
    BY <2>3, <1>4 DEF Holding, Goto, Closed, Open, Points
  <2> QED
    BY <2>1, <2>2, <2>3, <2>4, <1>2, <1>3, ThreadStep DEF IInv
<1> QED
    BY <1>5, <1>6

LEMMA UploadKeeps ==
    ASSUME IInv, NEW t \in Sessions, Upload(t)
    PROVE  IInv'
<1>1. OpsBounded' /\ InTyped' /\ ReadTyped' /\ pc[t] = "idle" /\ UNCHANGED <<mem, in, read>>
    BY CountStep, Same DEF Upload, Free, IInv, Threads
<1>2. PICK b \in Of(t), aligned \in BOOLEAN :
         IF aligned /\ References(t, b)
         THEN Encode(t, Copy(t, Staging, b)) /\ UNCHANGED <<lock, owner, pc, call>>
         ELSE FlushFor(t, b, HostCall("write", b)) /\ UNCHANGED <<ver, failures>>
    BY DEF Upload
<1>3. CASE aligned /\ References(t, b)
  <2>1. Encode(t, Copy(t, Staging, b)) /\ UNCHANGED <<lock, owner, pc, call>>
    BY <1>2, <1>3
  <2>2. Copy(t, Staging, b) \in Commands /\ Copy(t, Staging, b).by = t
    BY OwnTensor, CopyIsCommand DEF IInv, Backend
  <2>3. Backend'
    BY <1>1, <1>3, <2>1, <2>2, EncodeKeepsBackend DEF References
  <2>4. Goto(t, "idle") /\ "idle" \in Points /\ "idle" \notin Closed \cup Open
    BY <2>1, <1>1, Same DEF Points, Closed, Open
  <2> QED
    BY <2>1, <2>3, <2>4, <1>1, PlainStep
<1>4. CASE ~(aligned /\ References(t, b))
  <2>1. FlushFor(t, b, HostCall("write", b)) /\ UNCHANGED <<ver, failures>>
    BY <1>2, <1>4
  <2> QED
    BY <2>1, <1>1, OwnTensor, FlushForStep DEF HostCalls, HostPoints, HostCall
<1> QED
    BY <1>3, <1>4

LEMMA HostKeeps ==
    ASSUME IInv, NEW t \in Sessions, HostWrite(t) \/ HostRead(t)
    PROVE  IInv'
<1>1. /\ UNCHANGED <<sequenceVars, queue, failures, in, ops>> /\ OpsBounded' /\ InTyped'
      /\ Goto(t, "idle") /\ call' = [call EXCEPT ![t] = NoCall]
    BY Same DEF HostWrite, HostRead
<1>2. MemoryTyped' /\ ReadTyped'
  <2>1. call[t].on \in Buffers /\ Result \in Buffers
    BY Same DEF Buffers
  <2>2. mem[call[t].on] \in Nat \cup {Wrong} /\ mem[Result] \in Nat \cup {Wrong} /\ ver[call[t].on] \in Nat
    BY <2>1, Same
  <2>3. CASE HostWrite(t)
    <3>1. mem' = [mem EXCEPT ![call[t].on] = ver[call[t].on] + 1]
          /\ ver' = [ver EXCEPT ![call[t].on] = @ + 1] /\ UNCHANGED <<queue, read>>
        BY <2>3 DEF HostWrite
    <3>2. MemoryTyped'
        BY <3>1, <2>1, <2>2 DEF IInv, Backend, MemoryTyped
    <3> QED
        BY <3>1, <3>2, Same
  <2>4. CASE HostRead(t)
    <3>1. UNCHANGED <<mem, ver, queue>>
          /\ \/ read' = [read EXCEPT ![t] = [got |-> mem[call[t].on], want |-> ver[call[t].on]]]
             \/ read' = [read EXCEPT ![t].got = mem[Result]]
        BY <2>4 DEF HostRead
    <3>2. ReadTyped
        BY PartsTyped DEF IInv, Threads
    <3> QED
        BY <3>1, <3>2, <2>2, Same DEF ReadTyped
  <2> QED
    BY <2>3, <2>4
<1>3. Backend'
    BY <1>1, <1>2, HostKeepsBackend
<1>4. CallsTyped' /\ \A u \in Sessions : u # t => call'[u] = call[u]
    BY <1>1, PartsTyped DEF IInv, Threads, CallsTyped, NoCall, HostCall, Points, Buffers
<1>5. Holding(t)'
    BY <1>1, PartsTyped DEF IInv, Threads, Goto, Holding, Closed, Open
<1> QED
    BY <1>1, <1>2, <1>3, <1>4, <1>5, ThreadStep DEF IInv, sequenceVars, Points

\* The waits that end with the lock given back.
LEMMA LeaveKeeps ==
    ASSUME IInv, NEW t \in Sessions, RegionLeave(t) \/ AloneDone(t) \/ TokenDone(t)
    PROVE  IInv'
<1>1. /\ pc[t] \in Closed /\ queue = <<>> /\ lock' = Unlocked /\ refs' \in {refs, {}}
      /\ Goto(t, "idle") /\ UNCHANGED <<owner, seq, queue, mem, ver, call, ops, failures>>
    BY DEF RegionLeave, AloneDone, TokenDone, Closed
<1>2. lock.by = t /\ owner = Nobody
    BY <1>1 DEF IInv, Threads, Holding
<1>3. Backend'
    BY <1>1, <1>2, UnlockKeepsBackend
<1>4. InTyped' /\ ReadTyped' /\ OpsBounded'
  <2>1. InTyped /\ ReadTyped /\ OpsBounded'
    BY <1>1, PartsTyped, Same DEF IInv, Threads
  <2>2. mem[Result] \in Nat \cup {Wrong}
    BY Same DEF Buffers
  <2> QED
    BY <2>1, <2>2 DEF RegionLeave, AloneDone, TokenDone, InTyped, ReadTyped
<1>5. CanLock(t)
    BY <1>2 DEF CanLock
<1> QED
    BY <1>1, <1>3, <1>4, <1>5, PlainStep DEF Points, Closed, Open

LEMMA FlushedKeeps ==
    ASSUME IInv, NEW t \in Sessions, Flushed(t)
    PROVE  IInv'
<1>1. /\ pc[t] = "flush" /\ queue = <<>> /\ Goto(t, call[t].then) /\ refs' = {}
      /\ UNCHANGED <<lock, queue, mem, ver, call, in, read, ops>>
    BY DEF Flushed
<1>2. lock.by = t /\ owner = Nobody /\ seq = NoSequence /\ call[t].then \in HostPoints
    BY <1>1 DEF IInv, Backend, Threads, Holding, Closed, OpenOrNot
<1>3. PICK ok \in BOOLEAN :
        /\ Created("reopen", ok)
        /\ IF ok THEN owner' = t /\ seq' = Opened ELSE UNCHANGED <<owner, seq>>
    BY DEF Flushed
<1>4. seq'.cmds = <<>> /\ seq' \in [active : BOOLEAN, work : BOOLEAN, cmds : Seq(Commands), pending : 0 .. PendingCap]
    BY <1>2, <1>3, NewSequences
<1>5. SequenceTyped' /\ MemoryTyped' /\ BufferBounded'
  <2>1. SequenceTyped'
    BY <1>1, <1>3, <1>4 DEF IInv, Backend, SequenceTyped
  <2>2. \A n \in 0 .. MaxFailures : 0 <= RotateEvery + n
    BY Bounds
  <2>3. failures' \in 0 .. MaxFailures
    BY <1>3, FailureStep DEF IInv, Backend
  <2>4. Len(seq'.cmds) = 0
    BY <1>4
  <2> QED
    BY <1>1, <2>1, <2>2, <2>3, <2>4, Same DEF BufferBounded
<1>6. OpenOrNot' /\ FreeIsQuiet' /\ SequenceIsPrivate'
  <2>1. CASE ok
    BY <1>1, <1>2, <1>3, <2>1, Bounds DEF OpenOrNot, FreeIsQuiet, SequenceIsPrivate, Opened, NoSequence
  <2>2. CASE ~ok
    BY <1>1, <1>2, <1>3, <2>2, Bounds DEF OpenOrNot, FreeIsQuiet, SequenceIsPrivate, NoSequence
  <2> QED
    BY <2>1, <2>2
<1>7. CanLock(t) /\ call[t].then \notin Closed \cup Open /\ call[t].then \in Points
    BY <1>2 DEF CanLock, HostPoints, Closed, Open, Points
<1> QED
    BY <1>1, <1>5, <1>6, <1>7, Same, PlainStep DEF Backend, Closed

LEMMA RegionKeeps ==
    ASSUME IInv, NEW t \in Sessions, RegionAsk(t) \/ RegionBegin(t) \/ RegionEnd(t)
    PROVE  IInv'
<1>1. InTyped /\ UNCHANGED <<mem, ver, call, read>> /\ ReadTyped'
    BY PartsTyped, Same DEF IInv, Threads, RegionAsk, RegionBegin, RegionEnd
<1>2. CASE RegionAsk(t)
  <2>1. OpsBounded' /\ InTyped' /\ UNCHANGED <<sequenceVars, queue, failures>> /\ Goto(t, "lock")
    BY <1>2, CountStep, Same DEF RegionAsk, IInv, Threads
  <2>2. Backend'
    BY <2>1, <1>1, Same, HostKeepsBackend
  <2> QED
    BY <2>1, <2>2, <1>1, PlainStep DEF sequenceVars, Points, Closed, Open
<1>3. CASE RegionBegin(t)
  <2>1. CanLock(t) /\ Goto(t, "idle") /\ UNCHANGED <<queue, ops>> /\ OpsBounded' /\ MemoryTyped'
    BY <1>1, <1>3, Same DEF RegionBegin
  <2>2. PICK ok \in BOOLEAN :
          /\ Created("begin", ok)
          /\ IF ok /\ ~seq.active
             THEN /\ lock' = Locked(t) /\ owner' = t /\ seq' = Opened /\ refs' = {}
                  /\ in' = [in EXCEPT ![t] = "sequence"]
             ELSE /\ in' = [in EXCEPT ![t] = "bare"]
                  /\ UNCHANGED sequenceVars
    BY <1>3 DEF RegionBegin
  <2>3. InTyped' /\ failures' \in 0 .. MaxFailures /\ failures' = failures + (IF ok THEN 0 ELSE 1)
    BY <1>1, <2>2, FailureStep DEF InTyped, IInv, Backend
  <2>4. Backend'
    <3>1. CASE ok /\ ~seq.active
      <4>1. lock' \in [by : Sessions \cup {Nobody}, depth : Nat] /\ lock'.by = t /\ lock'.depth # 0
        BY <2>2, <3>1 DEF Locked, IInv, Backend, SequenceTyped
      <4>2. seq'.cmds = <<>> /\ seq'.active
            /\ seq' \in [active : BOOLEAN, work : BOOLEAN, cmds : Seq(Commands), pending : 0 .. PendingCap]
        BY <2>2, <3>1, NewSequences
      <4>3. SequenceTyped'
        BY <2>2, <3>1, <4>1, <4>2, Bounds DEF SequenceTyped
      <4>4. BufferBounded'
        <5>1. \A n \in 0 .. MaxFailures : 0 <= RotateEvery + n
            BY Bounds
        <5>2. Len(seq'.cmds) = 0
            BY <4>2
        <5> QED
            BY <2>3, <5>1, <5>2 DEF BufferBounded
      <4>5. \A i \in DOMAIN queue : \A j \in DOMAIN queue[i] : queue[i][j].by = t
        BY <2>1 DEF IInv, Backend, CanLock, FreeIsQuiet, SequenceIsPrivate
      <4>6. OpenOrNot' /\ FreeIsQuiet' /\ SequenceIsPrivate'
        BY <2>1, <2>2, <3>1, <4>1, <4>2, <4>5, Bounds
        DEF OpenOrNot, FreeIsQuiet, SequenceIsPrivate, IInv, Backend
      <4> QED
        BY <2>1, <4>3, <4>4, <4>6 DEF Backend
    <3>2. CASE ~(ok /\ ~seq.active)
      <4>1. UNCHANGED <<lock, owner, seq, refs>>
        BY <2>2, <3>2 DEF sequenceVars
      <4>2. BufferBounded'
        <5>1. Len(seq.cmds) \in Nat
            BY DEF IInv, Backend, SequenceTyped
        <5> QED
            BY <4>1, <5>1, <2>3, Bounds DEF BufferBounded, IInv, Backend
      <4>3. SequenceTyped' /\ OpenOrNot' /\ FreeIsQuiet' /\ SequenceIsPrivate'
        BY <2>1, <4>1 DEF SequenceTyped, OpenOrNot, FreeIsQuiet, SequenceIsPrivate, IInv, Backend
      <4> QED
        BY <2>1, <4>2, <4>3 DEF Backend
    <3> QED
        BY <3>1, <3>2
  <2> QED
    BY <2>1, <2>3, <2>4, <1>1, PlainStep DEF Points, Closed, Open
<1>4. CASE RegionEnd(t)
  <2>1. UNCHANGED <<ops, failures>> /\ OpsBounded' /\ pc[t] = "idle"
    BY <1>4, Same DEF RegionEnd
  <2>2. CASE in[t] = "sequence" /\ Mine(t)
    <3>1. EndSequence /\ Goto(t, "end") /\ UNCHANGED <<lock, refs, in>> /\ InTyped'
        BY <1>4, <2>2, Same DEF RegionEnd
    <3>2. Backend' /\ lock'.by = t /\ owner' = Nobody /\ CanLock(t)
        BY <1>1, <2>1, <2>2, <3>1, EndKeepsBackend, MineIsLocked
    <3> QED
        BY <3>1, <3>2, <2>1, <1>1, PlainStep DEF Points, Open
  <2>3. CASE ~(in[t] = "sequence" /\ Mine(t))
    <3>1. in' = [in EXCEPT ![t] = "none"] /\ UNCHANGED <<sequenceVars, queue, pc>>
        BY <1>4, <2>3 DEF RegionEnd
    <3>2. InTyped' /\ Goto(t, "idle") /\ Backend'
        BY <1>1, <2>1, <3>1, Same, HostKeepsBackend DEF InTyped
    <3> QED
        BY <3>1, <3>2, <2>1, <1>1, PlainStep DEF sequenceVars, Points, Closed, Open
  <2> QED
    BY <2>2, <2>3
<1> QED
    BY <1>2, <1>3, <1>4

LEMMA NextKeeps ==
    ASSUME IInv, [Next]_vars
    PROVE  IInv'
<1>1. CASE UNCHANGED vars
  <2>1. UNCHANGED <<lock, owner, seq, refs, queue, mem, ver, pc, call, in, read, ops, failures>>
    BY <1>1 DEF vars, sequenceVars, threadVars
  <2>2. Backend'
    BY <2>1 DEF IInv, Backend, SequenceTyped, MemoryTyped, BufferBounded, OpenOrNot, FreeIsQuiet, SequenceIsPrivate
  <2>3. Threads'
    BY <2>1 DEF IInv, Threads, ThreadsTyped, OpsBounded, Holding
  <2> QED
    BY <2>2, <2>3 DEF IInv
<1>2. CASE GpuStep
  <2>1. Threads'
    BY <1>2 DEF GpuStep, sequenceVars, threadVars, IInv, Threads, ThreadsTyped, OpsBounded, Holding
  <2> QED
    BY <1>2, <2>1, GpuKeepsBackend DEF IInv
<1>3. ASSUME NEW t \in Sessions, Call(t) \/ RegionEnd(t) \/ Returns(t)
      PROVE  IInv'
  <2>1. CASE RegionAsk(t) \/ RegionBegin(t) \/ RegionEnd(t)
    BY <2>1, RegionKeeps
  <2>2. CASE Op(t) \/ Argmax(t) \/ Upload(t) \/ Blit(t)
    BY <2>2, OpKeeps, ArgmaxKeeps, UploadKeeps, BlitKeeps
  <2>3. CASE Map(t) \/ BlitCopy(t)
    <3>1. PICK b \in Of(t), c \in HostCalls : FlushFor(t, b, c)
        BY <2>3, OwnTensor DEF Map, BlitCopy, HostCalls, HostPoints, HostCall
    <3>2. UNCHANGED <<mem, ver, in, read, failures>> /\ OpsBounded' /\ pc[t] = "idle"
        BY <2>3, CountStep DEF Map, BlitCopy, Free, IInv, Threads
    <3> QED
        BY <3>1, <3>2, OwnTensor, FlushForStep
  <2>4. CASE ArgmaxSync(t)
    <3>1. HostCall("result", Result) \in HostCalls /\ Result \in Buffers
        BY DEF HostCalls, HostPoints, HostCall, Buffers
    <3> QED
        BY <2>4, <3>1, FlushForStep, Same DEF ArgmaxSync
  <2>9. CASE BlitTo(t)
    <3>1. [call[t] EXCEPT !.then = "blit"] \in HostCalls /\ call[t].on \in Buffers
        BY PartsTyped DEF IInv, Threads, CallsTyped, HostCalls, HostPoints
    <3> QED
        BY <2>9, <3>1, FlushForStep, Same DEF BlitTo
  <2>5. CASE HostWrite(t) \/ HostRead(t)
    BY <2>5, HostKeeps
  <2>6. CASE RegionLeave(t) \/ AloneDone(t) \/ TokenDone(t)
    BY <2>6, LeaveKeeps
  <2>7. CASE Flushed(t)
    BY <2>7, FlushedKeeps
  <2>8. CASE BlitDone(t)
    <3>1. UNCHANGED <<sequenceVars, queue, mem, ver, call, in, read, ops, failures>> /\ Goto(t, "idle")
        BY <2>8 DEF BlitDone
    <3>2. Backend' /\ InTyped' /\ ReadTyped' /\ OpsBounded'
        BY <3>1, Same, HostKeepsBackend
    <3> QED
        BY <3>1, <3>2, PlainStep DEF sequenceVars, Points, Closed, Open
  <2> QED
    BY <1>3, <2>1, <2>2, <2>3, <2>4, <2>5, <2>6, <2>7, <2>8, <2>9 DEF Call, Returns
<1> QED
    BY <1>1, <1>2, <1>3 DEF Next

-----------------------------------------------------------------------------
\* Every variable keeps its type, whatever fails.
THEOREM TypesHold == Spec => []TypeOK
<1>1. IInv => TypeOK
    BY DEF IInv, Backend, Threads, TypeOK
<1> QED
    BY <1>1, InitHolds, NextKeeps, PTL DEF Spec

\* metal_internal.h: what is encoded, and what the GPU has still to run, belongs
\* to the one thread that holds seq_lock, through rotations, flushes, regions that
\* overlap in time, and every failure to create a command buffer.
THEOREM SequenceStaysPrivate == Spec => []SequenceIsPrivate
<1>1. IInv => SequenceIsPrivate
    BY DEF IInv, Backend
<1> QED
    BY <1>1, InitHolds, NextKeeps, PTL DEF Spec

-----------------------------------------------------------------------------
(* The lock is given back, as long as a flushed sequence can be opened again. *)

Kept(t) == /\ lock.by = t => owner = t \/ pc[t] \in Closed
           /\ owner = t => in[t] = "sequence"
           /\ pc[t] = "flush" => in[t] = "sequence"
           /\ pc[t] = "lock" => in[t] = "none"
KInv == IInv /\ lock.depth <= 1 /\ \A t \in Sessions : Kept(t)

\* Thread t goes on at `where`, and its own part of the invariant holds.
LEMMA KeptStep ==
    ASSUME KInv, IInv', NEW t \in Sessions, NEW where, Goto(t, where),
           \A u \in Sessions : u # t => in'[u] = in[u],
           \/ UNCHANGED <<lock, owner>>
           \/ CanLock(t) /\ lock'.by \in {t, Nobody, lock.by} /\ lock'.depth <= 1
              /\ owner' \in {t, Nobody, owner},
           lock'.by = t => owner' = t \/ where \in Closed,
           owner' = t => in'[t] = "sequence",
           where = "flush" => in'[t] = "sequence",
           where = "lock" => in'[t] = "none"
    PROVE  KInv'
<1>1. pc' = [pc EXCEPT ![t] = where] /\ pc \in [Sessions -> Points]
    BY PartsTyped DEF Goto, KInv, IInv, Threads
<1>2. Kept(t)'
    BY <1>1 DEF Kept
<1>3. ASSUME NEW u \in Sessions, u # t PROVE Kept(u)'
  <2>1. pc'[u] = pc[u] /\ in'[u] = in[u] /\ Kept(u)
    BY <1>1, <1>3 DEF KInv
  <2>2. CASE UNCHANGED <<lock, owner>>
    BY <2>1, <2>2 DEF Kept
  <2>3. CASE CanLock(t) /\ lock'.by \in {t, Nobody, lock.by} /\ owner' \in {t, Nobody, owner}
    <3>1. lock.by # u /\ owner # u
        BY <1>3, <2>3, Bounds DEF CanLock, KInv, IInv, Backend, SequenceIsPrivate
    <3> QED
        BY <1>3, <2>1, <2>3, <3>1, Bounds DEF Kept
  <2> QED
    BY <2>2, <2>3
<1>4. lock'.depth <= 1
    BY DEF KInv
<1> QED
    BY <1>2, <1>3, <1>4 DEF KInv

\* The same for a step that leaves the regions as they are.
LEMMA KeptInside ==
    ASSUME KInv, IInv', NEW t \in Sessions, NEW where, Goto(t, where), UNCHANGED in,
           \/ UNCHANGED <<lock, owner>> /\ (pc[t] \in Closed => lock.by # t \/ owner = t)
           \/ CanLock(t) /\ lock'.by \in {t, Nobody, lock.by} /\ lock'.depth <= 1
              /\ owner' \in {Nobody, owner}
              /\ (lock'.by = t => owner' = t \/ where \in Closed),
           where = "flush" => owner = t,
           where # "lock"
    PROVE  KInv'
<1>1. owner = t => in'[t] = "sequence"
    BY DEF KInv, Kept
<1>2. UNCHANGED <<lock, owner>> /\ (pc[t] \in Closed => lock.by # t \/ owner = t)
      => (lock'.by = t => owner' = t)
    BY DEF KInv, Kept
<1> QED
    BY <1>1, <1>2, KeptStep, Bounds

\* Outside its sequence, a thread that can take the lock holds it not at all.
LEMMA NotYetLocked ==
    ASSUME KInv, NEW t \in Sessions, CanLock(t), ~Mine(t), pc[t] \notin Closed
    PROVE  lock.by = Nobody /\ lock.depth = 0 /\ Locked(t).depth = 1 /\ Locked(t).by = t
<1>1. lock.by = Nobody
    BY DEF KInv, Kept, CanLock, Mine
<1>2. lock.depth = 0
    BY <1>1 DEF KInv, IInv, Backend, SequenceTyped
<1> QED
    BY <1>1, <1>2 DEF Locked

LEMMA AloneKept ==
    ASSUME KInv, IInv', NEW t \in Sessions, ~Mine(t), pc[t] \notin Closed, NEW c,
           NEW then \in {"alone", "token"}, Alone(t, c, then), UNCHANGED in
    PROVE  KInv'
<1>1. CanLock(t) /\ UNCHANGED owner
    BY DEF Alone
<1>2. Locked(t).depth = 1 /\ Locked(t).by = t
    BY <1>1, NotYetLocked
<1>3. CASE lock' = Locked(t) /\ Goto(t, then)
    BY <1>1, <1>2, <1>3, KeptInside DEF Closed
<1>4. CASE UNCHANGED lock /\ Goto(t, "idle")
    BY <1>1, <1>4, KeptInside
<1> QED
    BY <1>3, <1>4 DEF Alone

LEMMA FlushForKept ==
    ASSUME KInv, IInv', NEW t \in Sessions, pc[t] \notin Closed, NEW b, NEW c, c.then \in HostPoints,
           FlushFor(t, b, c), UNCHANGED in
    PROVE  KInv'
<1>1. CASE References(t, b) /\ seq.work
  <2>1. Goto(t, "flush") /\ UNCHANGED lock /\ owner' = Nobody /\ owner = t
    BY <1>1 DEF FlushFor, References, EndSequence, Mine
  <2>2. CanLock(t) /\ lock.depth <= 1
    BY <2>1, MineIsLocked DEF KInv, Mine
  <2> QED
    BY <2>1, <2>2, KeptInside DEF Closed
<1>2. CASE ~(References(t, b) /\ seq.work)
  <2>1. Goto(t, c.then) /\ UNCHANGED <<lock, owner>>
    BY <1>2 DEF FlushFor, sequenceVars
  <2> QED
    BY <2>1, KeptInside DEF HostPoints
<1> QED
    BY <1>1, <1>2

LEMMA OpKept ==
    ASSUME KInv, IInv', NEW t \in Sessions,
           \/ Op(t) \/ Argmax(t) \/ Upload(t) \/ Blit(t) \/ Map(t) \/ BlitCopy(t) \/ BlitTo(t)
           \/ ArgmaxSync(t)
    PROVE  KInv'
<1>1. pc[t] \notin Closed /\ UNCHANGED in
    BY DEF Op, Argmax, Upload, Blit, Map, BlitCopy, BlitTo, ArgmaxSync, Free, Closed
<1>2. CASE \E c, then : ~Mine(t) /\ Alone(t, c, then) /\ then \in {"alone", "token"}
    BY <1>1, <1>2, AloneKept
<1>3. CASE \E b, c : FlushFor(t, b, c) /\ c.then \in HostPoints
    BY <1>1, <1>3, FlushForKept
<1>4. CASE \E where : Goto(t, where) /\ UNCHANGED <<lock, owner>> /\ where \notin {"flush", "lock"}
    BY <1>1, <1>4, KeptInside
<1>5. CASE Op(t)
  <2>1. PICK b \in Of(t) :
          IF Mine(t) THEN UNCHANGED <<lock, owner, pc>> ELSE Alone(t, Copy(t, b, b), "alone")
    BY <1>5 DEF Op
  <2>2. UNCHANGED pc => Goto(t, "idle")
    BY <1>5, Same DEF Op, Free, KInv
  <2> QED
    BY <2>1, <2>2, <1>2, <1>4
<1>6. CASE Argmax(t)
    BY <1>6, <1>2, <1>4 DEF Argmax
<1>7. CASE Upload(t)
  <2>1. \/ UNCHANGED <<lock, owner, pc>>
        \/ \E b, c : FlushFor(t, b, c) /\ c.then = "write"
    BY <1>7 DEF Upload, HostCall
  <2>2. UNCHANGED pc => Goto(t, "idle")
    BY <1>7, Same DEF Upload, Free, KInv
  <2> QED
    BY <2>1, <2>2, <1>3, <1>4 DEF HostPoints
<1>8. CASE Blit(t)
  <2>1. CASE Mine(t)
    BY <1>8, <2>1, <1>4 DEF Blit, sequenceVars
  <2>2. CASE ~Mine(t)
    BY <1>8, <2>2, <1>2 DEF Blit
  <2> QED
    BY <2>1, <2>2
<1>9. CASE Map(t) \/ BlitCopy(t) \/ BlitTo(t) \/ ArgmaxSync(t)
  <2>1. [call[t] EXCEPT !.then = "blit"].then = "blit"
    BY PartsTyped DEF KInv, IInv, Threads, CallsTyped
  <2>2. CASE Map(t) \/ ArgmaxSync(t)
    <3>1. \E b : FlushFor(t, b, HostCall("map", b)) \/ FlushFor(t, b, HostCall("result", b))
        BY <2>2 DEF Map, ArgmaxSync
    <3>2. \A w, b : HostCall(w, b).then = w
        BY DEF HostCall
    <3> QED
        BY <3>1, <3>2, <1>3 DEF HostPoints
  <2>3. CASE BlitCopy(t)
    <3>1. PICK src \in Of(t) : \E dst \in Of(t) :
            FlushFor(t, src, [then |-> "target", on |-> dst, from |-> src])
        BY <2>3 DEF BlitCopy
    <3>2. PICK dst \in Of(t) : FlushFor(t, src, [then |-> "target", on |-> dst, from |-> src])
        BY <3>1
    <3> QED
        BY <3>2, <1>3 DEF HostPoints
  <2>4. CASE BlitTo(t)
    BY <2>1, <2>4, <1>3 DEF BlitTo, HostPoints
  <2> QED
    BY <1>9, <2>2, <2>3, <2>4
<1> QED
    BY <1>5, <1>6, <1>7, <1>8, <1>9

LEMMA NextKept ==
    ASSUME "reopen" \notin MayFail, KInv, [Next]_vars
    PROVE  KInv'
<1>1. IInv'
    BY NextKeeps DEF KInv
<1>2. CASE UNCHANGED vars \/ GpuStep
    BY <1>1, <1>2 DEF vars, sequenceVars, threadVars, GpuStep, KInv, Kept
<1>3. ASSUME NEW t \in Sessions, Call(t) \/ RegionEnd(t) \/ Returns(t)
      PROVE  KInv'
  <2>0. Kept(t) /\ in \in [Sessions -> {"none", "sequence", "bare"}]
    BY PartsTyped DEF KInv, IInv, Threads, InTyped
  <2>1. CASE \/ Op(t) \/ Argmax(t) \/ Upload(t) \/ Blit(t) \/ Map(t) \/ BlitCopy(t) \/ BlitTo(t)
           \/ ArgmaxSync(t)
    BY <1>1, <2>1, OpKept
  <2>2. CASE RegionAsk(t)
    BY <1>1, <2>0, <2>2, KeptStep DEF RegionAsk, Free, sequenceVars, Kept, Closed
  <2>3. CASE RegionBegin(t)
    <3>1. pc[t] = "lock" /\ CanLock(t) /\ Goto(t, "idle") /\ in[t] = "none"
        BY <2>0, <2>3 DEF RegionBegin, Kept
    <3>2. ~Mine(t) /\ lock.by = Nobody /\ Locked(t).depth = 1 /\ Locked(t).by = t
        BY <2>0, <3>1, NotYetLocked DEF Kept, Mine, Closed
    <3>3. CASE lock' = Locked(t) /\ owner' = t /\ in' = [in EXCEPT ![t] = "sequence"]
        BY <1>1, <2>0, <3>1, <3>2, <3>3, KeptStep
    <3>4. CASE UNCHANGED <<lock, owner>> /\ in' = [in EXCEPT ![t] = "bare"]
        BY <1>1, <2>0, <3>1, <3>2, <3>4, KeptStep, Bounds DEF Mine
    <3> QED
        BY <2>3, <3>3, <3>4 DEF RegionBegin, sequenceVars
  <2>4. CASE RegionEnd(t)
    <3>1. pc[t] = "idle"
        BY <2>4 DEF RegionEnd
    <3>2. CASE in[t] = "sequence" /\ Mine(t)
      <4>1. UNCHANGED <<lock, in>> /\ owner' = Nobody /\ Goto(t, "end") /\ CanLock(t) /\ lock.depth <= 1
        BY <2>4, <3>2, MineIsLocked DEF RegionEnd, EndSequence, KInv
      <4> QED
        BY <1>1, <4>1, KeptInside DEF Closed
    <3>3. CASE ~(in[t] = "sequence" /\ Mine(t))
      <4>1. UNCHANGED <<lock, owner, pc>> /\ in' = [in EXCEPT ![t] = "none"]
        BY <2>4, <3>3 DEF RegionEnd, sequenceVars
      <4>2. owner # t /\ lock.by # t
        BY <2>0, <3>1, <3>3 DEF Kept, Mine, Closed
      <4>3. Goto(t, "idle")
        BY <3>1, <4>1, Same DEF KInv
      <4> QED
        BY <1>1, <2>0, <4>1, <4>2, <4>3, KeptStep
    <3> QED
        BY <3>2, <3>3
  <2>5. CASE RegionLeave(t) \/ AloneDone(t) \/ TokenDone(t)
    <3>1. pc[t] \in Closed /\ lock' = Unlocked /\ Goto(t, "idle") /\ UNCHANGED owner
          /\ \A u \in Sessions : u # t => in'[u] = in[u]
        BY <2>0, <2>5 DEF RegionLeave, AloneDone, TokenDone, Closed
    <3>2. lock.by = t /\ owner = Nobody
        BY <3>1 DEF KInv, IInv, Threads, Holding
    <3>3. lock.depth = 1
        BY <3>2, Bounds DEF KInv, IInv, Backend, SequenceTyped
    <3>4. lock'.by = Nobody /\ lock'.depth = 0
        BY <3>1, <3>3 DEF Unlocked
    <3> QED
        BY <1>1, <3>1, <3>2, <3>4, KeptStep, Bounds DEF CanLock
  <2>6. CASE Flushed(t)
    <3>1. /\ Goto(t, call[t].then) /\ UNCHANGED <<lock, in>> /\ pc[t] = "flush" /\ owner' = t
        BY <2>6 DEF Flushed, Created
    <3>2. lock.by = t /\ call[t].then \in HostPoints /\ in[t] = "sequence"
        BY <2>0, <3>1 DEF KInv, IInv, Threads, Holding, Kept, Closed
    <3>3. CanLock(t) /\ lock.depth <= 1
        BY <3>2 DEF CanLock, KInv
    <3> QED
        BY <1>1, <3>1, <3>2, <3>3, KeptStep DEF HostPoints
  <2>7. CASE HostWrite(t) \/ HostRead(t) \/ BlitDone(t)
    <3>1. UNCHANGED <<lock, owner, in>> /\ Goto(t, "idle") /\ pc[t] \notin Closed
        BY <2>7 DEF HostWrite, HostRead, BlitDone, sequenceVars, Closed
    <3> QED
        BY <1>1, <3>1, KeptInside
  <2> QED
    BY <1>3, <2>1, <2>2, <2>3, <2>4, <2>5, <2>6, <2>7 DEF Call, Returns
<1> QED
    BY <1>2, <1>3 DEF Next

\* metal_internal.h: seq_lock is held from region begin to region end and by each
\* standalone submission; a thread outside of both has given it back, whichever
\* command buffer could not be created, but for the one after a flush.
THEOREM LockGivenBack == ASSUME "reopen" \notin MayFail PROVE Spec => []LockOnlyInRegions
<1>1. Init => KInv
    BY InitHolds, Bounds DEF Init, KInv, Kept
<1>2. KInv /\ [Next]_vars => KInv'
    BY NextKept
<1>3. KInv => LockOnlyInRegions
    BY DEF KInv, Kept, LockOnlyInRegions, Closed
<1> QED
    BY <1>1, <1>2, <1>3, PTL DEF Spec

-----------------------------------------------------------------------------
(* The order of the commands: what waits in a command buffer or in the queue, *)
(* and what waits behind what.                                                 *)

Elem(s, c) == \E j \in DOMAIN s : s[j] = c
Behind(s, c, d) == \E j, k \in DOMAIN s : j < k /\ s[j] = c /\ s[k] = d
In(Q, c) == \E i \in DOMAIN Q : Elem(Q[i], c)
Before(Q, c, d) == \/ \E i \in DOMAIN Q : Behind(Q[i], c, d)
                   \/ \E i, k \in DOMAIN Q : i < k /\ Elem(Q[i], c) /\ Elem(Q[k], d)

\* A command waits in the queue or in the open command buffer, which comes last.
Waits(c) == In(queue, c) \/ Elem(seq.cmds, c)
Precedes(c, d) == \/ Before(queue, c, d)
                  \/ In(queue, c) /\ Elem(seq.cmds, d)
                  \/ Behind(seq.cmds, c, d)

\* The versions c and, behind it, d read and make are those of program order.
Ordered(c, d) == /\ c.dst = d.dst => c.makes < d.makes
                 /\ c.src # Staging /\ c.src = d.dst => c.saw < d.makes
                 /\ d.src # Staging /\ d.src = c.dst => c.makes <= d.saw
\* What c makes is not made yet, and what it reads may be.
Fits(c) == /\ mem[c.dst] < c.makes /\ c.makes <= ver[c.dst]
           /\ c.src # Staging => mem[c.src] <= c.saw /\ c.saw <= ver[c.src]
           /\ c.src # Staging /\ c.src = c.dst => c.saw < c.makes
\* A command is of a thread's own tensors, but for the result.
Owned(c) == c.src \in Of(c.by) \cup {Staging} /\ c.dst \in Of(c.by) \cup {Result}

Remembers == mem \in [Buffers -> Nat] /\ \A b \in Buffers : mem[b] <= ver[b]
Fitting == \A c \in Commands : Waits(c) => Fits(c) /\ Owned(c)
InOrder == \A c, d \in Commands : Precedes(c, d) => Ordered(c, d)
\* Every version that memory lacks is made by a command that waits.
Made == \A b \in Buffers, n \in Nat :
            mem[b] < n /\ n <= ver[b] => \E c \in Commands : Waits(c) /\ c.dst = b /\ c.makes = n
Program == Remembers /\ Fitting /\ InOrder /\ Made

Clear(b) == \A c \in Commands : Waits(c) => c.src # b /\ c.dst # b
Marked(c) == c.dst \in refs /\ c.src \in refs \cup {Staging}

\* The owner's references name what waits, but for a copy ahead of the sequence.
Referenced(t) == owner = t =>
    /\ \A c \in Commands : Elem(seq.cmds, c) => Marked(c)
    /\ pc[t] # "blitted" => \A c \in Commands : In(queue, c) => Marked(c)
    /\ ~seq.work => seq.cmds = <<>> /\ (pc[t] # "blitted" => queue = <<>>)
\* A lock without a sequence, outside of a wait, is held over nothing.
Waited(t) == lock.by = t /\ owner # t /\ pc[t] \notin Closed => queue = <<>>

\* The host goes on only with tensors nothing waits to use.
Touching(t) ==
    /\ \/ pc[t] \in {"write", "map", "target", "blit"}
       \/ pc[t] = "flush" /\ call[t].then # "result"
       => call[t].on \in Of(t) /\ call[t].from \in Of(t)
    /\ pc[t] \in {"write", "map", "blit"} => Clear(call[t].on)
    /\ pc[t] \in {"target", "blit"} => Clear(call[t].from)
\* On the way from an argmax to its result.
Awaiting(t) == pc[t] \in {"sync", "token", "result"} \/ (pc[t] = "flush" /\ call[t].then = "result")
Reading(t) ==
    /\ Awaiting(t) => lock.by = t /\ read[t].want = ver[Result]
    /\ pc[t] = "sync" => Result \in refs /\ seq.work
    /\ pc[t] = "result" => Clear(Result)
    /\ ~Awaiting(t) => read[t].got = read[t].want

Own(t) == Referenced(t) /\ Waited(t) /\ Touching(t) /\ Reading(t)
OInv == IInv /\ Program /\ \A t \in Sessions : Own(t)

-----------------------------------------------------------------------------
(* Commands in a buffer, buffers in the queue *)

LEMMA NoneLeft ==
    ASSUME NEW s \in Seq(Commands), Len(s) = 0
    PROVE  s = <<>>
    OBVIOUS

LEMMA EmptyElem == \A x, y : ~Elem(<<>>, x) /\ ~Behind(<<>>, x, y) /\ ~In(<<>>, x) /\ ~Before(<<>>, x, y)
    BY DEF Elem, Behind, In, Before

LEMMA SingleElem ==
    ASSUME NEW c \in Commands, NEW x, NEW y
    PROVE  (Elem(<<c>>, x) <=> x = c) /\ ~Behind(<<c>>, x, y)
    BY DEF Elem, Behind

LEMMA AppendElem ==
    ASSUME NEW s \in Seq(Commands), NEW c \in Commands, NEW x, NEW y
    PROVE  /\ Elem(Append(s, c), x) <=> Elem(s, x) \/ x = c
           /\ Behind(Append(s, c), x, y) <=> Behind(s, x, y) \/ (Elem(s, x) /\ y = c)
<1> DEFINE r == Append(s, c)
<1>1. /\ DOMAIN r = 1 .. Len(s) + 1 /\ DOMAIN s = 1 .. Len(s) /\ Len(s) \in Nat
      /\ r[Len(s) + 1] = c /\ \A j \in 1 .. Len(s) : r[j] = s[j]
    OBVIOUS
<1> HIDE DEF r
<1>2. Elem(r, x) <=> Elem(s, x) \/ x = c
    BY <1>1 DEF Elem
<1>3. ASSUME Behind(r, x, y) PROVE Behind(s, x, y) \/ (Elem(s, x) /\ y = c)
    BY <1>1, <1>3 DEF Behind, Elem
<1>4. ASSUME Behind(s, x, y) \/ (Elem(s, x) /\ y = c) PROVE Behind(r, x, y)
  <2>1. CASE Behind(s, x, y)
    BY <1>1, <2>1 DEF Behind
  <2>2. CASE Elem(s, x) /\ y = c
    BY <1>1, <2>2 DEF Behind, Elem
  <2> QED
    BY <1>4, <2>1, <2>2
<1> QED
    BY <1>2, <1>3, <1>4 DEF r

LEMMA TailElem ==
    ASSUME NEW s \in Seq(Commands), s # <<>>, NEW x, NEW y
    PROVE  /\ Elem(s, x) <=> x = Head(s) \/ Elem(Tail(s), x)
           /\ Behind(s, x, y) <=> Behind(Tail(s), x, y) \/ (x = Head(s) /\ Elem(Tail(s), y))
<1> DEFINE r == Tail(s)
           n == Len(s)
<1>1. n \in Nat \ {0} /\ DOMAIN s = 1 .. n /\ DOMAIN r = 1 .. n - 1
      /\ Head(s) = s[1] /\ \A j \in 1 .. n - 1 : r[j] = s[j + 1]
    OBVIOUS
<1> HIDE DEF r, n
<1>2. \A j \in 2 .. n : j - 1 \in 1 .. n - 1 /\ r[j - 1] = s[j]
    BY <1>1
<1>3. Elem(s, x) => x = s[1] \/ Elem(r, x)
  <2>1. ASSUME NEW j \in 1 .. n, s[j] = x, j # 1 PROVE Elem(r, x)
    <3>1. j \in 2 .. n
        BY <1>1, <2>1
    <3> QED
        BY <1>1, <1>2, <2>1, <3>1 DEF Elem
  <2> QED
    BY <1>1, <2>1 DEF Elem
<1>4. x = s[1] \/ Elem(r, x) => Elem(s, x)
    BY <1>1 DEF Elem
<1>5. Behind(s, x, y) => Behind(r, x, y) \/ (x = s[1] /\ Elem(r, y))
  <2> SUFFICES ASSUME NEW j \in 1 .. n, NEW k \in 1 .. n, j < k, s[j] = x, s[k] = y
               PROVE  Behind(r, x, y) \/ (x = s[1] /\ Elem(r, y))
    BY <1>1 DEF Behind
  <2>1. k \in 2 .. n /\ k - 1 \in DOMAIN r /\ r[k - 1] = y
    BY <1>1, <1>2
  <2>2. CASE j = 1
    BY <2>1, <2>2 DEF Elem
  <2>3. CASE j # 1
    <3>1. j \in 2 .. n /\ j - 1 \in DOMAIN r /\ r[j - 1] = x /\ j - 1 < k - 1
        BY <1>1, <1>2, <2>3
    <3> QED
        BY <2>1, <3>1 DEF Behind
  <2> QED
    BY <2>2, <2>3
<1>6. Behind(r, x, y) => Behind(s, x, y)
  <2> SUFFICES ASSUME NEW j \in 1 .. n - 1, NEW k \in 1 .. n - 1, j < k, r[j] = x, r[k] = y
               PROVE  Behind(s, x, y)
    BY <1>1 DEF Behind
  <2>1. j + 1 \in DOMAIN s /\ k + 1 \in DOMAIN s /\ j + 1 < k + 1 /\ s[j + 1] = x /\ s[k + 1] = y
    BY <1>1
  <2> QED
    BY <2>1 DEF Behind
<1>7. x = s[1] /\ Elem(r, y) => Behind(s, x, y)
  <2> SUFFICES ASSUME x = s[1], NEW k \in 1 .. n - 1, r[k] = y PROVE Behind(s, x, y)
    BY <1>1 DEF Elem
  <2>1. 1 \in DOMAIN s /\ k + 1 \in DOMAIN s /\ 1 < k + 1 /\ s[k + 1] = y
    BY <1>1
  <2> QED
    BY <2>1 DEF Behind
<1> QED
    BY <1>1, <1>3, <1>4, <1>5, <1>6, <1>7 DEF r

\* A command buffer behind the others.
LEMMA AppendIn ==
    ASSUME NEW Q \in Seq(Seq(Commands)), NEW s \in Seq(Commands), NEW x, NEW y
    PROVE  /\ In(Append(Q, s), x) <=> In(Q, x) \/ Elem(s, x)
           /\ Before(Append(Q, s), x, y) <=>
                Before(Q, x, y) \/ Behind(s, x, y) \/ (In(Q, x) /\ Elem(s, y))
<1> DEFINE R == Append(Q, s)
           n == Len(Q)
<1>1. n \in Nat /\ DOMAIN Q = 1 .. n /\ DOMAIN R = 1 .. n + 1
      /\ R[n + 1] = s /\ \A i \in 1 .. n : R[i] = Q[i] /\ i \in 1 .. n + 1
    OBVIOUS
<1> HIDE DEF R, n
<1>2. n + 1 \in 1 .. n + 1 /\ \A i \in 1 .. n + 1 : i = n + 1 \/ i \in 1 .. n
    BY <1>1
<1>3. In(R, x) <=> In(Q, x) \/ Elem(s, x)
    BY <1>1, <1>2 DEF In
<1>4. ASSUME NEW i \in 1 .. n + 1, Behind(R[i], x, y) PROVE Before(Q, x, y) \/ Behind(s, x, y)
    BY <1>1, <1>4, <1>2 DEF Before
<1>5. ASSUME NEW i \in 1 .. n + 1, NEW k \in 1 .. n + 1, i < k, Elem(R[i], x), Elem(R[k], y)
      PROVE  Before(Q, x, y) \/ (In(Q, x) /\ Elem(s, y))
  <2>1. i \in 1 .. n /\ Elem(Q[i], x)
    BY <1>1, <1>5
  <2>2. CASE k = n + 1
    BY <1>1, <1>5, <2>1, <2>2 DEF In
  <2>3. CASE k # n + 1
    <3>1. k \in 1 .. n /\ Elem(Q[k], y)
        BY <1>1, <1>5, <2>3
    <3> QED
        BY <1>1, <1>5, <2>1, <3>1 DEF Before
  <2> QED
    BY <2>2, <2>3
<1>6. Before(R, x, y) => Before(Q, x, y) \/ Behind(s, x, y) \/ (In(Q, x) /\ Elem(s, y))
    BY <1>1, <1>4, <1>5 DEF Before
<1>7. Before(Q, x, y) => Before(R, x, y)
  <2>1. ASSUME NEW i \in 1 .. n, Behind(Q[i], x, y) PROVE Before(R, x, y)
    BY <1>1, <2>1 DEF Before
  <2>2. ASSUME NEW i \in 1 .. n, NEW k \in 1 .. n, i < k, Elem(Q[i], x), Elem(Q[k], y)
        PROVE  Before(R, x, y)
    BY <1>1, <2>2 DEF Before
  <2> QED
    BY <1>1, <2>1, <2>2 DEF Before
<1>8. Behind(s, x, y) => Before(R, x, y)
    BY <1>1 DEF Before
<1>9. In(Q, x) /\ Elem(s, y) => Before(R, x, y)
  <2> SUFFICES ASSUME NEW i \in 1 .. n, Elem(Q[i], x), Elem(s, y) PROVE Before(R, x, y)
    BY <1>1 DEF In
  <2>1. i \in DOMAIN R /\ n + 1 \in DOMAIN R /\ i < n + 1 /\ Elem(R[i], x) /\ Elem(R[n + 1], y)
    BY <1>1
  <2> QED
    BY <2>1 DEF Before
<1> QED
    BY <1>3, <1>6, <1>7, <1>8, <1>9 DEF R

\* The buffers behind the first.
LEMMA TailIn ==
    ASSUME NEW Q \in Seq(Seq(Commands)), Q # <<>>, NEW x, NEW y
    PROVE  /\ In(Q, x) <=> Elem(Head(Q), x) \/ In(Tail(Q), x)
           /\ Before(Q, x, y) <=> \/ Behind(Head(Q), x, y) \/ Before(Tail(Q), x, y)
                                  \/ Elem(Head(Q), x) /\ In(Tail(Q), y)
<1> DEFINE R == Tail(Q)
           n == Len(Q)
<1>1. n \in Nat \ {0} /\ DOMAIN Q = 1 .. n /\ DOMAIN R = 1 .. n - 1
      /\ Head(Q) = Q[1] /\ \A i \in 1 .. n - 1 : R[i] = Q[i + 1] /\ i + 1 \in 1 .. n
    OBVIOUS
<1> HIDE DEF R, n
<1>2. 1 \in 1 .. n /\ \A i \in 1 .. n : i # 1 => i - 1 \in 1 .. n - 1 /\ R[i - 1] = Q[i]
    BY <1>1
<1>3. In(Q, x) => Elem(Q[1], x) \/ In(R, x)
    BY <1>1, <1>2 DEF In
<1>4. Elem(Q[1], x) \/ In(R, x) => In(Q, x)
    BY <1>1, <1>2 DEF In
<1>5. ASSUME NEW i \in 1 .. n, Behind(Q[i], x, y) PROVE Behind(Q[1], x, y) \/ Before(R, x, y)
    BY <1>1, <1>2, <1>5 DEF Before
<1>6. ASSUME NEW i \in 1 .. n, NEW k \in 1 .. n, i < k, Elem(Q[i], x), Elem(Q[k], y)
      PROVE  Before(R, x, y) \/ (Elem(Q[1], x) /\ In(R, y))
  <2>1. k # 1
    BY <1>1, <1>6
  <2>2. k - 1 \in 1 .. n - 1 /\ Elem(R[k - 1], y)
    BY <1>2, <1>6, <2>1
  <2>3. CASE i = 1
    BY <1>1, <1>6, <2>2, <2>3 DEF In
  <2>4. CASE i # 1
    <3>1. i - 1 \in 1 .. n - 1 /\ Elem(R[i - 1], x)
        BY <1>2, <1>6, <2>4
    <3>2. i - 1 < k - 1
        BY <1>1, <1>6
    <3> QED
        BY <1>1, <2>2, <3>1, <3>2 DEF Before
  <2> QED
    BY <2>3, <2>4
<1>7. Before(Q, x, y) => Behind(Q[1], x, y) \/ Before(R, x, y) \/ (Elem(Q[1], x) /\ In(R, y))
    BY <1>1, <1>5, <1>6 DEF Before
<1>8. Behind(Q[1], x, y) => Before(Q, x, y)
    BY <1>1, <1>2 DEF Before
<1>9. Before(R, x, y) => Before(Q, x, y)
  <2>1. ASSUME NEW i \in 1 .. n - 1, Behind(R[i], x, y) PROVE Before(Q, x, y)
    BY <1>1, <2>1 DEF Before
  <2>2. ASSUME NEW i \in 1 .. n - 1, NEW k \in 1 .. n - 1, i < k, Elem(R[i], x), Elem(R[k], y)
        PROVE  Before(Q, x, y)
    <3>1. i + 1 \in DOMAIN Q /\ k + 1 \in DOMAIN Q /\ i + 1 < k + 1
          /\ Elem(Q[i + 1], x) /\ Elem(Q[k + 1], y)
        BY <1>1, <2>2
    <3> QED
        BY <3>1 DEF Before
  <2> QED
    BY <1>1, <2>1, <2>2 DEF Before
<1>10. Elem(Q[1], x) /\ In(R, y) => Before(Q, x, y)
  <2> SUFFICES ASSUME Elem(Q[1], x), NEW k \in 1 .. n - 1, Elem(R[k], y) PROVE Before(Q, x, y)
    BY <1>1 DEF In
  <2>1. 1 \in DOMAIN Q /\ k + 1 \in DOMAIN Q /\ 1 < k + 1 /\ Elem(Q[k + 1], y)
    BY <1>1
  <2> QED
    BY <2>1 DEF Before
<1> QED
    BY <1>1, <1>3, <1>4, <1>7, <1>8, <1>9, <1>10 DEF R

-----------------------------------------------------------------------------
(* What happens to the waiting commands *)

LEMMA CommandFields ==
    ASSUME NEW c \in Commands
    PROVE  /\ c.by \in Sessions /\ c.dst \in Buffers /\ c.src \in Buffers \cup {Staging}
           /\ c.saw \in Nat /\ c.makes \in Nat
    BY DEF Commands

LEMMA CopyFields ==
    ASSUME NEW t \in Sessions, NEW src \in Buffers \cup {Staging}, NEW dst \in Buffers, MemoryTyped,
           NEW c, c = Copy(t, src, dst)
    PROVE  /\ c \in Commands /\ c.by = t /\ c.src = src /\ c.dst = dst /\ c.makes = ver[dst] + 1
           /\ src # Staging => src \in Buffers /\ c.saw = ver[src]
           /\ \A b \in Buffers : ver[b] \in Nat
    BY CopyIsCommand DEF Copy, MemoryTyped

\* Memory that no waiting command makes has its last version.
LEMMA ClearIsCurrent ==
    ASSUME Program, NEW b \in Buffers, Clear(b), ver[b] \in Nat
    PROVE  mem[b] = ver[b]
<1>1. mem[b] \in Nat /\ mem[b] <= ver[b]
    BY DEF Program, Remembers
<1>2. ~(mem[b] < ver[b])
    BY DEF Program, Made, Clear
<1> QED
    BY <1>1, <1>2

\* The same commands wait, in the same order.
LEMMA OrderStays ==
    ASSUME Program, UNCHANGED <<mem, ver>>,
           \A x \in Commands : Waits(x)' <=> Waits(x),
           \A x, y \in Commands : Precedes(x, y)' => Precedes(x, y)
    PROVE  Program'
<1>1. Remembers' /\ InOrder'
    BY DEF Program, Remembers, InOrder, Ordered
<1>2. Fitting' /\ Made'
    BY DEF Program, Fitting, Fits, Owned, Made
<1> QED
    BY <1>1, <1>2 DEF Program

\* A command joins that makes the next version of its tensor: behind the others, or
\* anywhere among them if they do not touch it.
Joins(c) == /\ \A x \in Commands : Waits(x)' <=> Waits(x) \/ x = c
            /\ \A x, y \in Commands : Precedes(x, y)' =>
                  \/ Precedes(x, y)
                  \/ y = c /\ Waits(x)
                  \/ x = c /\ Waits(y) /\ Clear(c.src) /\ Clear(c.dst)

LEMMA OrderJoins ==
    ASSUME Program, MemoryTyped, NEW t \in Sessions, NEW src \in Of(t) \cup {Staging},
           NEW dst \in Of(t) \cup {Result}, NEW c, c = Copy(t, src, dst),
           Joins(c), UNCHANGED mem, ver' = [ver EXCEPT ![dst] = c.makes]
    PROVE  Program' /\ Owned(c)
<1>1. dst \in Buffers /\ src \in Buffers \cup {Staging}
    BY DEF Of, Buffers
<1>2. /\ c \in Commands /\ c.by = t /\ c.src = src /\ c.dst = dst /\ c.makes = ver[dst] + 1
      /\ src # Staging => src \in Buffers /\ c.saw = ver[src]
      /\ \A b \in Buffers : ver[b] \in Nat
    BY <1>1, CopyFields
<1>3. Owned(c) /\ c.saw \in Nat /\ c.makes \in Nat
    BY <1>2, CommandFields DEF Owned
<1>4. /\ \A b \in Buffers : mem[b] \in Nat /\ mem[b] <= ver[b]
      /\ ver' \in [Buffers -> Nat] /\ ver'[dst] = ver[dst] + 1 /\ \A b \in Buffers : b # dst => ver'[b] = ver[b]
    BY <1>1, <1>2, <1>3 DEF Program, Remembers, MemoryTyped
<1>5. \A b \in Buffers : ver[b] <= ver'[b] /\ ver'[b] \in Nat
    BY <1>1, <1>2, <1>4
<1>6. Remembers'
    BY <1>2, <1>4, <1>5 DEF Program, Remembers
<1>7. Fitting'
  <2> SUFFICES ASSUME NEW x \in Commands, Waits(x)' PROVE Fits(x)' /\ Owned(x)'
    BY DEF Fitting
  <2>1. CASE x = c
    <3>1. mem[dst] < c.makes /\ c.makes <= ver'[dst]
        BY <1>1, <1>2, <1>4
    <3>2. src # Staging => mem[src] <= c.saw /\ c.saw <= ver'[src]
        BY <1>2, <1>4, <1>5
    <3>3. src # Staging /\ src = dst => c.saw < c.makes
        BY <1>2
    <3> QED
        BY <1>2, <1>3, <2>1, <3>1, <3>2, <3>3 DEF Fits, Owned
  <2>2. CASE x # c
    <3>1. Fits(x) /\ Owned(x)
        BY <2>2 DEF Joins, Program, Fitting
    <3>2. x.makes <= ver'[x.dst] /\ (x.src # Staging => x.saw <= ver'[x.src])
        BY <1>2, <1>5, <3>1, CommandFields DEF Fits
    <3> QED
        BY <3>1, <3>2 DEF Fits, Owned
  <2> QED
    BY <2>1, <2>2
<1>8. InOrder'
  <2> SUFFICES ASSUME NEW x \in Commands, NEW y \in Commands, Precedes(x, y)' PROVE Ordered(x, y)
    BY DEF InOrder, Ordered
  <2>1. CASE Precedes(x, y)
    BY <2>1 DEF Program, InOrder
  <2>2. CASE y = c /\ Waits(x)
    <3>1. Fits(x)
        BY <2>2 DEF Program, Fitting
    <3>2. x.dst = dst => x.makes < c.makes
        BY <1>1, <1>2, <3>1, CommandFields DEF Fits
    <3>3. x.src # Staging /\ x.src = dst => x.saw < c.makes
        BY <1>1, <1>2, <3>1, CommandFields DEF Fits
    <3>4. src # Staging /\ src = x.dst => x.makes <= c.saw
        BY <1>1, <1>2, <3>1, CommandFields DEF Fits
    <3> QED
        BY <1>2, <2>2, <3>2, <3>3, <3>4 DEF Ordered
  <2>3. CASE x = c /\ Waits(y) /\ Clear(c.src) /\ Clear(c.dst)
    BY <2>3 DEF Clear, Ordered
  <2> QED
    BY <2>1, <2>2, <2>3 DEF Joins
<1>9. Made'
  <2> SUFFICES ASSUME NEW b \in Buffers, NEW n \in Nat, mem[b] < n, n <= ver'[b]
               PROVE  \E x \in Commands : Waits(x)' /\ x.dst = b /\ x.makes = n
    BY DEF Made
  <2>1. CASE n <= ver[b]
    BY <2>1 DEF Program, Made, Joins
  <2>2. CASE ~(n <= ver[b])
    <3>1. b = dst /\ n = c.makes
        BY <1>2, <1>4, <2>2
    <3> QED
        BY <1>2, <3>1 DEF Joins
  <2> QED
    BY <2>1, <2>2
<1> QED
    BY <1>3, <1>6, <1>7, <1>8, <1>9 DEF Program

\* The first command runs: it finds what it was to see.
LEMMA OrderRuns ==
    ASSUME Program, MemoryTyped, NEW h \in Commands, Waits(h),
           \A x \in Commands : Waits(x) <=> x = h \/ Waits(x)',
           \A x \in Commands : Waits(x)' => Precedes(h, x),
           \A x, y \in Commands : Precedes(x, y)' => Precedes(x, y),
           mem' = [mem EXCEPT ![h.dst] = IF h.src = Staging \/ mem[h.src] = h.saw THEN h.makes ELSE Wrong],
           UNCHANGED ver
    PROVE  Program'
<1>1. h.dst \in Buffers /\ h.src \in Buffers \cup {Staging} /\ h.saw \in Nat /\ h.makes \in Nat
    BY CommandFields
<1>2. /\ \A b \in Buffers : mem[b] \in Nat /\ mem[b] <= ver[b] /\ ver[b] \in Nat
      /\ mem \in [Buffers -> Nat]
    BY DEF Program, Remembers, MemoryTyped
<1>3. Fits(h)
    BY DEF Program, Fitting
<1>4. ASSUME h.src # Staging PROVE mem[h.src] = h.saw
  <2>1. h.src \in Buffers /\ mem[h.src] <= h.saw /\ h.saw <= ver[h.src]
    BY <1>1, <1>3, <1>4 DEF Fits
  <2>2. CASE mem[h.src] < h.saw
    <3>1. PICK d \in Commands : Waits(d) /\ d.dst = h.src /\ d.makes = h.saw
        BY <1>1, <2>1, <2>2 DEF Program, Made
    <3>2. d # h
        BY <1>1, <1>3, <1>4, <3>1 DEF Fits
    <3>3. Ordered(h, d)
        BY <3>1, <3>2 DEF Program, InOrder
    <3> QED
        BY <1>1, <1>4, <3>1, <3>3 DEF Ordered
  <2> QED
    BY <1>1, <1>2, <2>1, <2>2
<1>5. /\ mem' \in [Buffers -> Nat] /\ mem'[h.dst] = h.makes
      /\ \A b \in Buffers : b # h.dst => mem'[b] = mem[b]
    BY <1>1, <1>2, <1>4
<1>6. Remembers'
    BY <1>1, <1>2, <1>3, <1>5 DEF Remembers, Fits
<1>7. Fitting'
  <2> SUFFICES ASSUME NEW x \in Commands, Waits(x)' PROVE Fits(x)' /\ Owned(x)'
    BY DEF Fitting
  <2>1. Fits(x) /\ Owned(x) /\ Ordered(h, x)
    BY DEF Program, Fitting, InOrder
  <2>2. mem'[x.dst] < x.makes
    BY <1>1, <1>5, <2>1, CommandFields DEF Fits, Ordered
  <2>3. x.src # Staging => mem'[x.src] <= x.saw
    BY <1>1, <1>5, <2>1, CommandFields DEF Fits, Ordered
  <2> QED
    BY <2>1, <2>2, <2>3 DEF Fits, Owned
<1>8. InOrder'
    BY DEF Program, InOrder, Ordered
<1>9. Made'
  <2> SUFFICES ASSUME NEW b \in Buffers, NEW n \in Nat, mem'[b] < n, n <= ver[b]
               PROVE  \E x \in Commands : Waits(x)' /\ x.dst = b /\ x.makes = n
    BY DEF Made
  <2>1. mem[b] < n /\ (b = h.dst => h.makes < n)
    BY <1>1, <1>2, <1>3, <1>5 DEF Fits
  <2>2. PICK x \in Commands : Waits(x) /\ x.dst = b /\ x.makes = n
    BY <2>1 DEF Program, Made
  <2>3. x # h
    BY <1>1, <2>1, <2>2
  <2> QED
    BY <2>2, <2>3
<1> QED
    BY <1>6, <1>7, <1>8, <1>9 DEF Program

\* The host writes a tensor nothing waits to use.
LEMMA OrderOfWrite ==
    ASSUME Program, MemoryTyped, NEW b \in Buffers, Clear(b), UNCHANGED <<seq, queue>>,
           mem' = [mem EXCEPT ![b] = ver[b] + 1], ver' = [ver EXCEPT ![b] = @ + 1]
    PROVE  Program'
<1>1. /\ mem \in [Buffers -> Nat] /\ ver \in [Buffers -> Nat]
      /\ \A a \in Buffers : mem[a] <= ver[a]
    BY DEF Program, Remembers, MemoryTyped
<1>2. /\ mem'[b] = ver[b] + 1 /\ ver'[b] = ver[b] + 1 /\ ver[b] + 1 \in Nat
      /\ \A a \in Buffers : a # b => mem'[a] = mem[a] /\ ver'[a] = ver[a]
    BY <1>1
<1>3. \A x, y \in Commands : (Waits(x)' <=> Waits(x)) /\ (Precedes(x, y)' <=> Precedes(x, y))
    BY DEF Waits, Precedes
<1>4. Remembers'
    BY <1>1, <1>2 DEF Remembers
<1>5. Fitting'
  <2> SUFFICES ASSUME NEW x \in Commands, Waits(x)' PROVE Fits(x)' /\ Owned(x)'
    BY DEF Fitting
  <2>1. Fits(x) /\ Owned(x) /\ x.src # b /\ x.dst # b
    BY <1>3 DEF Program, Fitting, Clear
  <2> QED
    BY <1>2, <2>1, CommandFields DEF Fits, Owned
<1>6. InOrder'
    BY <1>3 DEF Program, InOrder, Ordered
<1>7. Made'
  <2> SUFFICES ASSUME NEW a \in Buffers, NEW n \in Nat, mem'[a] < n, n <= ver'[a]
               PROVE  \E x \in Commands : Waits(x)' /\ x.dst = a /\ x.makes = n
    BY DEF Made
  <2>1. a # b
    BY <1>2
  <2> QED
    BY <1>2, <1>3, <2>1 DEF Program, Made
<1> QED
    BY <1>4, <1>5, <1>6, <1>7 DEF Program

-----------------------------------------------------------------------------
(* How the actions move the commands *)

LEMMA LinesTyped ==
    ASSUME IInv
    PROVE  /\ seq.cmds \in Seq(Commands) /\ queue \in Seq(Seq(Commands)) /\ MemoryTyped
           /\ \A i \in DOMAIN queue : queue[i] # <<>>
    BY DEF IInv, Backend, SequenceTyped, MemoryTyped, FreeIsQuiet

LEMMA LinesStay ==
    ASSUME queue' = queue, seq'.cmds = seq.cmds
    PROVE  /\ \A x \in Commands : Waits(x)' <=> Waits(x)
           /\ \A x, y \in Commands : Precedes(x, y)' <=> Precedes(x, y)
    BY DEF Waits, Precedes

\* The open command buffer is committed.
LEMMA LinesEnd ==
    ASSUME IInv, EndSequence
    PROVE  /\ \A x \in Commands : Waits(x)' <=> Waits(x)
           /\ \A x, y \in Commands : Precedes(x, y)' <=> Precedes(x, y)
           /\ \A x \in Commands : ~Elem(seq'.cmds, x)
<1>1. seq'.cmds = <<>> /\ queue' = IF seq.cmds = <<>> THEN queue ELSE Append(queue, seq.cmds)
    BY DEF EndSequence, NoSequence
<1>2. CASE seq.cmds = <<>>
    BY <1>1, <1>2, LinesStay, EmptyElem
<1>3. CASE seq.cmds # <<>>
  <2>1. queue' = Append(queue, seq.cmds)
    BY <1>1, <1>3
  <2>2. ASSUME NEW x \in Commands, NEW y \in Commands
        PROVE  /\ In(queue', x) <=> In(queue, x) \/ Elem(seq.cmds, x)
               /\ Before(queue', x, y) <=>
                    Before(queue, x, y) \/ Behind(seq.cmds, x, y) \/ (In(queue, x) /\ Elem(seq.cmds, y))
    BY <2>1, LinesTyped, AppendIn
  <2>3. \A x, y : ~Elem(seq'.cmds, x) /\ ~Behind(seq'.cmds, x, y)
    BY <1>1, EmptyElem
  <2> QED
    BY <2>2, <2>3 DEF Waits, Precedes
<1> QED
    BY <1>2, <1>3

\* A command at the end of the open command buffer, or of a new one.
LEMMA LinesEncode ==
    ASSUME IInv, NEW c \in Commands,
           \/ queue' = queue /\ seq'.cmds = Append(seq.cmds, c)
           \/ queue' = Append(queue, seq.cmds) /\ seq'.cmds = <<c>>
    PROVE  /\ Joins(c)
           /\ \A x \in Commands : Elem(seq'.cmds, x) => x = c \/ Elem(seq.cmds, x)
           /\ \A x \in Commands : In(queue', x) => In(queue, x) \/ Elem(seq.cmds, x)
<1>1. CASE queue' = queue /\ seq'.cmds = Append(seq.cmds, c)
  <2>1. ASSUME NEW x \in Commands, NEW y \in Commands
        PROVE  /\ Elem(seq'.cmds, x) <=> Elem(seq.cmds, x) \/ x = c
               /\ Behind(seq'.cmds, x, y) <=> Behind(seq.cmds, x, y) \/ (Elem(seq.cmds, x) /\ y = c)
    <3>1. PICK s \in Seq(Commands) : s = seq.cmds /\ seq'.cmds = Append(s, c)
        BY <1>1, LinesTyped
    <3>2. /\ Elem(Append(s, c), x) <=> Elem(s, x) \/ x = c
          /\ Behind(Append(s, c), x, y) <=> Behind(s, x, y) \/ (Elem(s, x) /\ y = c)
        BY AppendElem
    <3> QED
        BY <3>1, <3>2
  <2> QED
    BY <1>1, <2>1 DEF Joins, Waits, Precedes
<1>2. CASE queue' = Append(queue, seq.cmds) /\ seq'.cmds = <<c>>
  <2>1. ASSUME NEW x \in Commands, NEW y \in Commands
        PROVE  /\ In(queue', x) <=> In(queue, x) \/ Elem(seq.cmds, x)
               /\ Before(queue', x, y) <=>
                    Before(queue, x, y) \/ Behind(seq.cmds, x, y) \/ (In(queue, x) /\ Elem(seq.cmds, y))
    BY <1>2, LinesTyped, AppendIn
  <2>2. \A x, y : (Elem(<<c>>, x) <=> x = c) /\ ~Behind(<<c>>, x, y)
    BY SingleElem
  <2>3. \A x, y : (Elem(seq'.cmds, x) <=> x = c) /\ ~Behind(seq'.cmds, x, y)
    BY <1>2, <2>2
  <2> QED
    BY <2>1, <2>3 DEF Joins, Waits, Precedes
<1> QED
    BY <1>1, <1>2

\* A command in a committed buffer of its own, ahead of the open one.
LEMMA LinesCommit ==
    ASSUME IInv, NEW c \in Commands, UNCHANGED seq, queue' = Append(queue, <<c>>),
           seq.cmds = <<>> \/ (Clear(c.src) /\ Clear(c.dst))
    PROVE  Joins(c)
<1>1. ASSUME NEW x \in Commands, NEW y \in Commands
      PROVE  /\ In(queue', x) <=> In(queue, x) \/ Elem(<<c>>, x)
             /\ Before(queue', x, y) <=>
                  Before(queue, x, y) \/ Behind(<<c>>, x, y) \/ (In(queue, x) /\ Elem(<<c>>, y))
  <2>1. <<c>> \in Seq(Commands)
    OBVIOUS
  <2> QED
    BY <2>1, LinesTyped, AppendIn
<1>2. \A x, y : (Elem(<<c>>, x) <=> x = c) /\ ~Behind(<<c>>, x, y)
    BY SingleElem
<1>3. \A x \in Commands : Waits(x)' <=> Waits(x) \/ x = c
    BY <1>1, <1>2 DEF Waits
<1>4. ASSUME NEW x \in Commands, NEW y \in Commands, Precedes(x, y)'
      PROVE  \/ Precedes(x, y) \/ (y = c /\ Waits(x))
             \/ x = c /\ Waits(y) /\ Clear(c.src) /\ Clear(c.dst)
  <2>1. seq.cmds = <<>> => ~Elem(seq.cmds, y)
    BY EmptyElem
  <2> QED
    BY <1>1, <1>2, <1>4, <2>1 DEF Waits, Precedes
<1> QED
    BY <1>3, <1>4 DEF Joins

\* The GPU takes the first command of the first buffer.
LEMMA LinesRun ==
    ASSUME IInv, GpuStep, NEW h, h = Head(Head(queue))
    PROVE  /\ h \in Commands /\ In(queue, h) /\ seq' = seq
           /\ \A x \in Commands : In(queue, x) <=> x = h \/ In(queue', x)
           /\ \A x \in Commands : Waits(x) <=> x = h \/ Waits(x)'
           /\ \A x \in Commands : Waits(x)' => Precedes(h, x)
           /\ \A x, y \in Commands : Precedes(x, y)' => Precedes(x, y)
<1> DEFINE s == Head(queue)
           R == Tail(queue)
<1>1. queue # <<>> /\ UNCHANGED seq
      /\ queue' = IF Len(s) = 1 THEN R ELSE <<Tail(s)>> \o R
    BY DEF GpuStep, sequenceVars
<1>2. queue \in Seq(Seq(Commands)) /\ R \in Seq(Seq(Commands))
    BY <1>1, LinesTyped
<1>3. s \in Seq(Commands) /\ s # <<>> /\ Tail(s) \in Seq(Commands) /\ h \in Commands
    BY <1>1, <1>2, LinesTyped
<1>4. ASSUME NEW x \in Commands, NEW y \in Commands
      PROVE  /\ In(queue, x) <=> x = h \/ Elem(Tail(s), x) \/ In(R, x)
             /\ Before(queue, x, y) <=> \/ Behind(Tail(s), x, y) \/ (x = h /\ Elem(Tail(s), y))
                                        \/ Before(R, x, y)
                                        \/ (x = h \/ Elem(Tail(s), x)) /\ In(R, y)
  <2>1. /\ In(queue, x) <=> Elem(s, x) \/ In(R, x)
        /\ Before(queue, x, y) <=> Behind(s, x, y) \/ Before(R, x, y) \/ (Elem(s, x) /\ In(R, y))
    BY <1>1, <1>2, TailIn
  <2>2. /\ Elem(s, x) <=> x = h \/ Elem(Tail(s), x)
        /\ Behind(s, x, y) <=> Behind(Tail(s), x, y) \/ (x = h /\ Elem(Tail(s), y))
    BY <1>3, TailElem
  <2> QED
    BY <2>1, <2>2
<1>5. ASSUME NEW x \in Commands, NEW y \in Commands
      PROVE  /\ In(queue', x) <=> Elem(Tail(s), x) \/ In(R, x)
             /\ Before(queue', x, y) <=> \/ Behind(Tail(s), x, y) \/ Before(R, x, y)
                                         \/ Elem(Tail(s), x) /\ In(R, y)
  <2>1. CASE Len(s) = 1
    <3>1. queue' = R
        BY <1>1, <2>1
    <3>2. Tail(s) = <<>>
      <4> HIDE DEF s
      <4>1. s \in Seq(Commands) /\ Tail(s) \in Seq(Commands) /\ Len(Tail(s)) = 0
        BY <1>3, <2>1
      <4> QED
        BY <4>1, NoneLeft
    <3> QED
        BY <3>1, <3>2, EmptyElem
  <2>2. CASE Len(s) # 1
    <3> DEFINE Q == <<Tail(s)>> \o R
    <3>1. queue' = Q
        BY <1>1, <2>2
    <3>2. Q \in Seq(Seq(Commands)) /\ Q # <<>> /\ Head(Q) = Tail(s) /\ Tail(Q) = R
        BY SMTT(30), <1>2, <1>3
    <3> HIDE DEF Q
    <3> QED
        BY ZenonT(60), <3>1, <3>2, TailIn
  <2> QED
    BY <2>1, <2>2
<1>6. In(queue, h) /\ \A x \in Commands : In(queue, x) <=> x = h \/ In(queue', x)
    BY <1>3, <1>4, <1>5
<1>7. ASSUME NEW x \in Commands, In(queue', x) PROVE Before(queue, h, x)
    BY <1>3, <1>4, <1>5, <1>7
<1>8. ASSUME NEW x \in Commands, NEW y \in Commands, Before(queue', x, y) PROVE Before(queue, x, y)
    BY <1>4, <1>5, <1>8
<1>9. \A x \in Commands : Waits(x) <=> x = h \/ Waits(x)'
    BY <1>1, <1>6 DEF Waits
<1>10. \A x \in Commands : Waits(x)' => Precedes(h, x)
    BY <1>1, <1>6, <1>7 DEF Waits, Precedes
<1>11. \A x, y \in Commands : Precedes(x, y)' => Precedes(x, y)
    BY <1>1, <1>6, <1>8 DEF Precedes
<1> QED
    BY <1>1, <1>3, <1>6, <1>9, <1>10, <1>11

-----------------------------------------------------------------------------
(* The threads *)

\* What thread t does leaves the other threads where they are, and either is under
\* the lock or touches nothing of the backend but memory of its own.
Alongside(t) ==
    /\ \A u \in Sessions \ {t} : pc'[u] = pc[u] /\ call'[u] = call[u] /\ read'[u] = read[u]
    /\ \/ /\ CanLock(t) /\ lock'.by \in {t, Nobody} /\ owner' \in {t, Nobody}
          /\ \A x \in Commands : Waits(x)' => Waits(x) \/ (x.by = t /\ Owned(x))
       \/ UNCHANGED <<lock, owner, seq, refs, queue>> /\ ver'[Result] = ver[Result]

LEMMA OthersKeepOrder ==
    ASSUME OInv, NEW t \in Sessions, Alongside(t), NEW u \in Sessions \ {t}
    PROVE  Own(u)'
<1>1. pc'[u] = pc[u] /\ call'[u] = call[u] /\ read'[u] = read[u] /\ Own(u) /\ u \in Sessions /\ u # t
    BY DEF Alongside, OInv
<1>2. CASE /\ CanLock(t) /\ lock'.by \in {t, Nobody} /\ owner' \in {t, Nobody}
           /\ \A x \in Commands : Waits(x)' => Waits(x) \/ (x.by = t /\ Owned(x))
  <2>1. pc[u] \notin Closed \cup Open /\ lock.by # u
    BY <1>1, <1>2, OthersOut, Bounds DEF OInv, CanLock
  <2>2. lock'.by # u /\ owner' # u
    BY <1>1, <1>2, Bounds
  <2>3. ~Awaiting(u) /\ ~Awaiting(u)'
    BY <1>1, <2>1 DEF Awaiting, Own, Reading, Closed, Open
  <2>4. ASSUME NEW b \in Of(u), Clear(b) PROVE Clear(b)'
    <3>1. ASSUME NEW x \in Commands, x.by = t, Owned(x) PROVE x.src # b /\ x.dst # b
        BY <1>1, <3>1, SequenceConstants DEF Owned, Of, Staging
    <3> QED
        BY <1>2, <2>4, <3>1 DEF Clear
  <2>5. Referenced(u)' /\ Waited(u)'
    BY <2>2 DEF Referenced, Waited
  <2>6. Touching(u)'
    BY <1>1, <2>1, <2>4 DEF Touching, Own, Closed
  <2>7. Reading(u)'
    BY <1>1, <2>3 DEF Reading, Own, Awaiting
  <2> QED
    BY <2>5, <2>6, <2>7 DEF Own
<1>3. CASE UNCHANGED <<lock, owner, seq, refs, queue>> /\ ver'[Result] = ver[Result]
  <2>1. \A x \in Commands : Waits(x)' <=> Waits(x)
    BY <1>3, LinesStay
  <2>2. Referenced(u)' /\ Waited(u)'
    BY <1>1, <1>3 DEF Own, Referenced, Waited, Marked
  <2>3. Touching(u)'
    BY <1>1, <1>3, <2>1 DEF Own, Touching, Clear
  <2>4. Reading(u)'
    BY <1>1, <1>3, <2>1 DEF Own, Reading, Awaiting, Clear
  <2> QED
    BY <2>2, <2>3, <2>4 DEF Own
<1> QED
    BY <1>2, <1>3 DEF Alongside

LEMMA OrderStep ==
    ASSUME OInv, IInv', Program', NEW t \in Sessions, Alongside(t), Own(t)'
    PROVE  OInv'
<1>1. \A u \in Sessions : Own(u)'
    BY OthersKeepOrder
<1> QED
    BY <1>1 DEF OInv

\* Thread t goes on at `where`.
LEMMA Going ==
    ASSUME IInv, NEW t \in Sessions, NEW where, Goto(t, where)
    PROVE  pc'[t] = where /\ \A u \in Sessions \ {t} : pc'[u] = pc[u]
    BY PartsTyped DEF IInv, Threads, Goto

\* Whoever can take the lock, outside of its waits, finds nothing there.
LEMMA QuietLock ==
    ASSUME OInv, NEW t \in Sessions, CanLock(t), ~Mine(t), pc[t] \notin Closed
    PROVE  queue = <<>> /\ owner = Nobody /\ seq = NoSequence /\ seq.cmds = <<>>
<1>1. owner = Nobody /\ seq = NoSequence
    BY OthersClosed DEF OInv
<1>2. queue = <<>>
    BY <1>1, Bounds DEF OInv, IInv, Backend, FreeIsQuiet, CanLock, Own, Waited
<1> QED
    BY <1>1, <1>2 DEF NoSequence

LEMMA NothingWaits ==
    ASSUME queue = <<>>, seq.cmds = <<>>
    PROVE  /\ \A x : ~Waits(x) /\ ~In(queue, x) /\ ~Elem(seq.cmds, x)
           /\ \A b : Clear(b)
<1>1. \A x : ~Waits(x) /\ ~In(queue, x) /\ ~Elem(seq.cmds, x)
    BY EmptyElem DEF Waits
<1> QED
    BY <1>1 DEF Clear

\* A tensor of t that its sequence has no work with is clear.
LEMMA Untouched ==
    ASSUME OInv, NEW t \in Sessions, pc[t] \in {"idle", "target"}, NEW b \in Of(t),
           ~(References(t, b) /\ seq.work)
    PROVE  Clear(b)
<1>1. b # Staging /\ b # Result
    BY Bounds, SequenceConstants DEF Of, Staging
<1>2. CASE owner = t
  <2>1. CASE ~seq.work
    BY <1>2, <2>1, NothingWaits DEF OInv, Own, Referenced
  <2>2. CASE seq.work
    <3>1. b \notin refs
        BY <1>2, <2>2 DEF References, Mine
    <3>2. \A x \in Commands : Waits(x) => Marked(x)
        BY <1>2 DEF OInv, Own, Referenced, Waits
    <3> QED
        BY <1>1, <3>1, <3>2 DEF Clear, Marked
  <2> QED
    BY <2>1, <2>2
<1>3. CASE owner # t /\ lock.by = t
  <2>1. CanLock(t) /\ ~Mine(t) /\ pc[t] \notin Closed
    BY <1>3 DEF CanLock, Mine, Closed
  <2> QED
    BY <2>1, QuietLock, NothingWaits
<1>4. CASE lock.by # t
  <2>1. ASSUME NEW x \in Commands, Waits(x) PROVE x.by = lock.by /\ Owned(x)
    BY <2>1 DEF Waits, In, Elem, OInv, IInv, Backend, SequenceIsPrivate, Program, Fitting
  <2> QED
    BY <1>1, <1>4, <2>1 DEF Clear, Owned, Of
<1> QED
    BY <1>2, <1>3, <1>4

\* A command of the owner's, encoded: program order, and what it marks.
LEMMA EncodeOrders ==
    ASSUME OInv, NEW t \in Sessions, Mine(t), pc[t] # "blitted",
           NEW src \in Of(t) \cup {Staging}, NEW dst \in Of(t) \cup {Result},
           NEW c, c = Copy(t, src, dst), Encode(t, c), UNCHANGED <<lock, owner, mem>>
    PROVE  /\ Program' /\ lock.by = t /\ CanLock(t)
           /\ \A x \in Commands : Waits(x)' => Waits(x) \/ (x.by = t /\ Owned(x))
           /\ dst \in refs' /\ seq'.work
           /\ Referenced(t)' /\ Waited(t)'
           /\ ver' = [ver EXCEPT ![dst] = c.makes]
<1>1. src \in Buffers \cup {Staging} /\ dst \in Buffers
    BY DEF Of, Buffers
<1>2. c \in Commands /\ c.by = t /\ c.src = src /\ c.dst = dst
  <2>1. MemoryTyped
    BY LinesTyped DEF OInv
  <2>2. Copy(t, src, dst) \in Commands /\ Copy(t, src, dst).by = t
    BY <1>1, <2>1, CopyIsCommand
  <2> QED
    BY <2>2 DEF Copy
<1>3. /\ lock.by = t /\ CanLock(t) /\ owner = t
      /\ seq \in [active : BOOLEAN, work : BOOLEAN, cmds : Seq(Commands), pending : 0 .. PendingCap]
    BY MineIsLocked DEF OInv, Mine, IInv, Backend, SequenceTyped
<1>4. PICK rotates \in BOOLEAN :
        /\ queue' = IF rotates THEN Append(queue, seq.cmds) ELSE queue
        /\ seq' = [seq EXCEPT !.work = TRUE,
                              !.cmds = IF rotates THEN <<c>> ELSE Append(@, c),
                              !.pending = (IF Len(seq.cmds) >= RotateEvery THEN Room(@) ELSE @)
                                          + (IF rotates THEN 1 ELSE 0)]
        /\ refs' = RefsKept(rotates) \cup ({c.dst} \cup (IF c.src = Staging THEN {} ELSE {c.src}))
        /\ ver' = [ver EXCEPT ![c.dst] = c.makes]
    BY DEF Encode
<1>5. seq'.work /\ seq'.cmds = (IF rotates THEN <<c>> ELSE Append(seq.cmds, c))
    BY <1>3, <1>4
<1>6. \/ queue' = queue /\ seq'.cmds = Append(seq.cmds, c)
      \/ queue' = Append(queue, seq.cmds) /\ seq'.cmds = <<c>>
    BY <1>4, <1>5
<1>7. /\ Joins(c)
      /\ \A x \in Commands : Elem(seq'.cmds, x) => x = c \/ Elem(seq.cmds, x)
      /\ \A x \in Commands : In(queue', x) => In(queue, x) \/ Elem(seq.cmds, x)
    BY <1>2, <1>6, LinesEncode DEF OInv
<1>8. Program' /\ Owned(c)
    BY <1>2, <1>4, <1>7, LinesTyped, OrderJoins DEF OInv
<1>9. \A x \in Commands : Waits(x)' => Waits(x) \/ (x.by = t /\ Owned(x))
    BY <1>2, <1>7, <1>8 DEF Joins
<1>10. refs \subseteq refs' /\ c.dst \in refs' /\ c.src \in refs' \cup {Staging}
    BY <1>4 DEF RefsKept
<1>11. Referenced(t)'
  <2>1. \A x \in Commands : (Elem(seq.cmds, x) \/ In(queue, x)) => Marked(x)
    BY <1>3 DEF OInv, Own, Referenced
  <2>2. \A x \in Commands : Marked(x) \/ x = c => Marked(x)'
    BY <1>10 DEF Marked
  <2> QED
    BY <1>5, <1>7, <2>1, <2>2 DEF Referenced
<1>12. Waited(t)'
    BY <1>3 DEF Waited
<1> QED
    BY <1>2, <1>3, <1>4, <1>5, <1>8, <1>9, <1>10, <1>11, <1>12

\* A command on a buffer of its own, or none.
LEMMA AloneOrders ==
    ASSUME OInv, NEW t \in Sessions, ~Mine(t), pc[t] \notin Closed,
           NEW src \in Of(t) \cup {Staging}, NEW dst \in Of(t) \cup {Result},
           NEW c, c = Copy(t, src, dst), NEW then, Alone(t, c, then), UNCHANGED mem
    PROVE  /\ Program' /\ CanLock(t) /\ lock'.by \in {t, Nobody} /\ owner' = Nobody
           /\ \A x \in Commands : Waits(x)' => Waits(x) \/ (x.by = t /\ Owned(x))
           /\ \/ Goto(t, then) /\ lock'.by = t
              \/ Goto(t, "idle") /\ queue' = <<>> /\ UNCHANGED ver
<1>1. CanLock(t) /\ UNCHANGED <<owner, seq, refs>>
    BY DEF Alone
<1>2. queue = <<>> /\ owner = Nobody /\ seq.cmds = <<>>
    BY <1>1, QuietLock
<1>3. src \in Buffers \cup {Staging} /\ dst \in Buffers
    BY DEF Of, Buffers
<1>4. c \in Commands /\ c.by = t /\ c.src = src /\ c.dst = dst
  <2>1. MemoryTyped
    BY LinesTyped DEF OInv
  <2>2. Copy(t, src, dst) \in Commands /\ Copy(t, src, dst).by = t
    BY <1>3, <2>1, CopyIsCommand
  <2> QED
    BY <2>2 DEF Copy
<1>5. CASE /\ lock' = Locked(t) /\ queue' = Append(queue, <<c>>)
           /\ ver' = [ver EXCEPT ![c.dst] = c.makes] /\ Goto(t, then)
  <2>1. Joins(c)
    BY <1>1, <1>2, <1>4, <1>5, LinesCommit DEF OInv
  <2>2. Program' /\ Owned(c)
    BY <1>4, <1>5, <2>1, LinesTyped, OrderJoins DEF OInv
  <2>3. \A x \in Commands : Waits(x)' => Waits(x) \/ (x.by = t /\ Owned(x))
    BY <1>4, <2>1, <2>2 DEF Joins
  <2> QED
    BY <1>1, <1>2, <1>5, <2>2, <2>3 DEF Locked
<1>6. CASE Goto(t, "idle") /\ UNCHANGED <<lock, queue, ver>>
  <2>1. /\ \A x \in Commands : Waits(x)' <=> Waits(x)
        /\ \A x, y \in Commands : Precedes(x, y)' <=> Precedes(x, y)
    BY <1>1, <1>6, LinesStay
  <2>2. Program'
    BY <1>6, <2>1, OrderStays DEF OInv
  <2> QED
    BY <1>1, <1>2, <1>6, <2>1, <2>2 DEF CanLock
<1> QED
    BY <1>5, <1>6 DEF Alone

\* A thread at rest, its own work marked and its last read good.
LEMMA Resting ==
    ASSUME NEW t \in Sessions, pc'[t] \in {"idle", "lock", "end", "alone", "blitted"},
           Referenced(t)', Waited(t)', read'[t].got = read'[t].want
    PROVE  Own(t)'
    BY DEF Own, Touching, Reading, Awaiting

\* The backend stays as it is.
LEMMA BackendStays ==
    ASSUME OInv, NEW t \in Sessions, UNCHANGED <<lock, owner, seq, refs, queue, mem, ver>>,
           \A u \in Sessions \ {t} : pc'[u] = pc[u] /\ call'[u] = call[u] /\ read'[u] = read[u]
    PROVE  /\ Program' /\ Alongside(t)
           /\ \A x \in Commands : Waits(x)' <=> Waits(x)
           /\ pc[t] # "blitted" => Referenced(t)'
           /\ pc[t] \notin Closed => Waited(t)'
<1>1. /\ \A x \in Commands : Waits(x)' <=> Waits(x)
      /\ \A x, y \in Commands : Precedes(x, y)' <=> Precedes(x, y)
    BY LinesStay
<1>2. Program'
    BY <1>1, OrderStays DEF OInv
<1>3. Alongside(t)
    BY DEF Alongside
<1>4. pc[t] # "blitted" => Referenced(t)'
    BY DEF OInv, Own, Referenced, Marked
<1>5. pc[t] \notin Closed => Waited(t)'
    BY DEF OInv, Own, Waited
<1> QED
    BY <1>1, <1>2, <1>3, <1>4, <1>5

LEMMA Rested ==
    ASSUME OInv, NEW t \in Sessions, ~Awaiting(t)
    PROVE  read[t].got = read[t].want
    BY DEF OInv, Own, Reading

-----------------------------------------------------------------------------
(* The actions *)

LEMMA OpOrders ==
    ASSUME OInv, IInv', NEW t \in Sessions, Op(t)
    PROVE  OInv'
<1>1. pc[t] = "idle" /\ UNCHANGED <<mem, call, read>>
    BY DEF Op, Free
<1>2. PICK b \in Of(t) :
        IF Mine(t) THEN Encode(t, Copy(t, b, b)) /\ UNCHANGED <<lock, owner, pc>>
        ELSE Alone(t, Copy(t, b, b), "alone")
    BY DEF Op
<1>3. b \in Of(t) \cup {Staging} /\ b \in Of(t) \cup {Result}
    OBVIOUS
<1>4. read'[t].got = read'[t].want
    BY <1>1, Rested DEF Awaiting
<1>5. CASE Mine(t)
  <2>1. /\ Program' /\ lock.by = t /\ CanLock(t)
        /\ \A x \in Commands : Waits(x)' => Waits(x) \/ (x.by = t /\ Owned(x))
        /\ Referenced(t)' /\ Waited(t)'
    BY <1>1, <1>2, <1>3, <1>5, EncodeOrders
  <2>2. UNCHANGED <<lock, owner, pc>> /\ owner = t
    BY <1>2, <1>5 DEF Mine
  <2>3. Alongside(t)
    BY <1>1, <2>1, <2>2 DEF Alongside
  <2>4. Own(t)'
    BY <1>1, <1>4, <2>1, <2>2, Resting
  <2> QED
    BY <2>1, <2>3, <2>4, OrderStep
<1>6. CASE ~Mine(t)
  <2>1. /\ Program' /\ CanLock(t) /\ lock'.by \in {t, Nobody} /\ owner' = Nobody
        /\ \A x \in Commands : Waits(x)' => Waits(x) \/ (x.by = t /\ Owned(x))
        /\ \/ Goto(t, "alone") /\ lock'.by = t
           \/ Goto(t, "idle") /\ queue' = <<>> /\ UNCHANGED ver
    BY <1>1, <1>2, <1>3, <1>6, AloneOrders DEF Closed
  <2>2. pc'[t] \in {"idle", "alone"} /\ \A u \in Sessions \ {t} : pc'[u] = pc[u]
    BY <2>1, Going DEF OInv
  <2>3. Alongside(t)
    BY <1>1, <2>1, <2>2 DEF Alongside
  <2>4. Referenced(t)' /\ Waited(t)'
    BY <2>1, Going, Bounds DEF OInv, Referenced, Waited, Closed
  <2>5. Own(t)'
    BY <1>4, <2>2, <2>4, Resting
  <2> QED
    BY <2>1, <2>3, <2>5, OrderStep
<1> QED
    BY <1>5, <1>6

LEMMA ArgmaxOrders ==
    ASSUME OInv, IInv', NEW t \in Sessions, Argmax(t)
    PROVE  OInv'
<1>1. /\ pc[t] = "idle" /\ UNCHANGED <<mem, call>>
      /\ read' = IF pc'[t] = "idle" THEN read ELSE [read EXCEPT ![t].want = ver'[Result]]
    BY DEF Argmax, Free
<1>2. PICK b \in Of(t) :
        IF Mine(t) THEN Encode(t, Copy(t, b, Result)) /\ Goto(t, "sync") /\ UNCHANGED <<lock, owner>>
        ELSE Alone(t, Copy(t, b, Result), "token")
    BY DEF Argmax
<1>3. b \in Of(t) \cup {Staging} /\ Result \in Of(t) \cup {Result}
    OBVIOUS
<1>4. read[t].got = read[t].want
    BY <1>1, Rested DEF Awaiting
<1>5. /\ \A u \in Sessions \ {t} : read'[u] = read[u]
      /\ pc'[t] # "idle" => read'[t].want = ver'[Result]
      /\ pc'[t] = "idle" => read'[t] = read[t]
  <2>1. read \in [Sessions -> [got : Nat \cup {Wrong}, want : Nat]]
    BY DEF OInv, IInv, Threads, ThreadsTyped
  <2> QED
    BY <1>1, <2>1
<1>6. CASE Mine(t)
  <2>1. /\ Program' /\ lock.by = t /\ CanLock(t)
        /\ \A x \in Commands : Waits(x)' => Waits(x) \/ (x.by = t /\ Owned(x))
        /\ Referenced(t)' /\ Waited(t)' /\ Result \in refs' /\ seq'.work
    BY <1>1, <1>2, <1>3, <1>6, EncodeOrders
  <2>2. UNCHANGED <<lock, owner>> /\ owner = t /\ pc'[t] = "sync" /\ \A u \in Sessions \ {t} : pc'[u] = pc[u]
    BY <1>2, <1>6, Going DEF Mine, OInv
  <2>3. Alongside(t)
    BY <1>1, <1>5, <2>1, <2>2 DEF Alongside
  <2>4. Reading(t)' /\ Touching(t)'
    BY <1>5, <2>1, <2>2 DEF Reading, Awaiting, Touching
  <2>5. Own(t)'
    BY <2>1, <2>4 DEF Own
  <2> QED
    BY <2>1, <2>3, <2>5, OrderStep
<1>7. CASE ~Mine(t)
  <2>1. /\ Program' /\ CanLock(t) /\ lock'.by \in {t, Nobody} /\ owner' = Nobody
        /\ \A x \in Commands : Waits(x)' => Waits(x) \/ (x.by = t /\ Owned(x))
        /\ \/ Goto(t, "token") /\ lock'.by = t
           \/ Goto(t, "idle") /\ queue' = <<>> /\ UNCHANGED ver
    BY <1>1, <1>2, <1>3, <1>7, AloneOrders DEF Closed
  <2>2. /\ \A u \in Sessions \ {t} : pc'[u] = pc[u]
        /\ (pc'[t] = "token" /\ lock'.by = t) \/ (pc'[t] = "idle" /\ queue' = <<>>)
    BY <2>1, Going DEF OInv
  <2>3. Alongside(t)
    BY <1>1, <1>5, <2>1, <2>2 DEF Alongside
  <2>4. Referenced(t)' /\ Waited(t)'
    BY <2>1, <2>2, Bounds DEF Referenced, Waited, Closed
  <2>5. Reading(t)' /\ Touching(t)'
    BY <1>4, <1>5, <2>2 DEF Reading, Awaiting, Touching
  <2>6. Own(t)'
    BY <2>4, <2>5 DEF Own
  <2> QED
    BY <2>1, <2>3, <2>6, OrderStep
<1> QED
    BY <1>6, <1>7

\* The sequence is closed, and nothing else of the backend changes.
LEMMA EndOrders ==
    ASSUME OInv, NEW t \in Sessions, Mine(t), EndSequence, UNCHANGED <<lock, mem, ver>>,
           pc'[t] \in Closed,
           \A u \in Sessions \ {t} : pc'[u] = pc[u] /\ call'[u] = call[u] /\ read'[u] = read[u]
    PROVE  Program' /\ Alongside(t) /\ Referenced(t)' /\ Waited(t)' /\ lock.by = t
<1>1. lock.by = t /\ CanLock(t) /\ owner' = Nobody
    BY MineIsLocked DEF OInv, EndSequence
<1>2. /\ \A x \in Commands : Waits(x)' <=> Waits(x)
      /\ \A x, y \in Commands : Precedes(x, y)' <=> Precedes(x, y)
    BY LinesEnd DEF OInv
<1>3. Program'
    BY <1>2, OrderStays DEF OInv
<1>4. Alongside(t)
    BY <1>1, <1>2 DEF Alongside
<1>5. Referenced(t)' /\ Waited(t)'
    BY <1>1, Bounds DEF Referenced, Waited
<1> QED
    BY <1>1, <1>3, <1>4, <1>5

\* The host asks for a tensor of t, or for the result of its argmax.
LEMMA FlushForOrders ==
    ASSUME OInv, IInv', NEW t \in Sessions, NEW b \in Buffers, NEW c \in HostCalls,
           FlushFor(t, b, c), UNCHANGED <<mem, ver, read>>,
           \/ /\ pc[t] = "idle" /\ b = c.from /\ c.from \in Of(t) /\ c.on \in Of(t)
              /\ c.then = "target" \/ (c.then \in {"map", "write"} /\ b = c.on)
           \/ pc[t] = "target" /\ b = call[t].on /\ c = [call[t] EXCEPT !.then = "blit"]
           \/ pc[t] = "sync" /\ b = Result /\ c.then = "result"
    PROVE  OInv'
<1>1. call'[t] = c /\ \A u \in Sessions \ {t} : call'[u] = call[u]
  <2>1. call' = [call EXCEPT ![t] = c]
    BY DEF FlushFor
  <2>2. call \in [Sessions -> [then : Points, on : Buffers, from : Buffers]]
    BY DEF OInv, IInv, Threads, ThreadsTyped
  <2> QED
    BY <2>1, <2>2
<1>2. Own(t)
    BY DEF OInv
<1>5. pc[t] = "target" => /\ c.on = call[t].on /\ c.from = call[t].from /\ c.then = "blit"
                          /\ c.on \in Of(t) /\ c.from \in Of(t) /\ Clear(c.from) /\ b = c.on
  <2>1. call[t] \in [then : Points, on : Buffers, from : Buffers]
    BY DEF OInv, IInv, Threads, ThreadsTyped
  <2> QED
    BY <1>2, <2>1 DEF Own, Touching
<1>6. pc[t] # "sync" => c.on \in Of(t) /\ c.from \in Of(t) /\ b \in Of(t) /\ c.then # "result"
    BY <1>5
<1>3. CASE References(t, b) /\ seq.work
  <2>1. Mine(t) /\ EndSequence /\ Goto(t, "flush") /\ UNCHANGED <<lock, refs>>
    BY <1>3 DEF FlushFor, References
  <2>2. pc'[t] = "flush" /\ \A u \in Sessions \ {t} : pc'[u] = pc[u]
    BY <2>1, Going DEF OInv
  <2>3. Program' /\ Alongside(t) /\ Referenced(t)' /\ Waited(t)' /\ lock.by = t
    BY <1>1, <2>1, <2>2, EndOrders DEF Closed
  <2>4. Touching(t)'
    BY <1>1, <1>6, <2>2 DEF Touching
  <2>5. Reading(t)'
    BY <1>1, <1>2, <1>6, <2>1, <2>2, <2>3 DEF Own, Reading, Awaiting
  <2>6. Own(t)'
    BY <2>3, <2>4, <2>5 DEF Own
  <2> QED
    BY <2>3, <2>6, OrderStep
<1>4. CASE ~(References(t, b) /\ seq.work)
  <2>1. Goto(t, c.then) /\ UNCHANGED <<lock, owner, seq, refs, queue>>
    BY <1>4 DEF FlushFor, sequenceVars
  <2>2. pc'[t] = c.then /\ \A u \in Sessions \ {t} : pc'[u] = pc[u]
    BY <2>1, Going DEF OInv
  <2>3. pc[t] \in {"idle", "target"}
    <3>1. pc[t] = "sync" => owner = t /\ Result \in refs /\ seq.work
        BY <1>2 DEF OInv, IInv, Threads, Holding, Open, Own, Reading
    <3> QED
        BY <1>4, <3>1 DEF References, Mine
  <2>4. Clear(b)
    BY <1>4, <1>6, <2>3, Untouched
  <2>5. /\ Program' /\ Alongside(t) /\ Referenced(t)' /\ Waited(t)'
        /\ \A x \in Commands : Waits(x)' <=> Waits(x)
    BY <1>1, <2>1, <2>2, <2>3, BackendStays DEF Closed
  <2>6. Touching(t)'
    BY <1>1, <1>5, <1>6, <2>2, <2>3, <2>4, <2>5 DEF Touching, Clear
  <2>7. Reading(t)'
    BY <1>2, <1>5, <1>6, <2>2, <2>3 DEF Own, Reading, Awaiting, HostPoints
  <2>8. Own(t)'
    BY <2>5, <2>6, <2>7 DEF Own
  <2> QED
    BY <2>5, <2>8, OrderStep
<1> QED
    BY <1>3, <1>4

LEMMA UploadOrders ==
    ASSUME OInv, IInv', NEW t \in Sessions, Upload(t)
    PROVE  OInv'
<1>1. pc[t] = "idle" /\ UNCHANGED <<mem, read>>
    BY DEF Upload, Free
<1>2. PICK b \in Of(t) :
        \/ References(t, b) /\ Encode(t, Copy(t, Staging, b)) /\ UNCHANGED <<lock, owner, pc, call>>
        \/ FlushFor(t, b, HostCall("write", b)) /\ UNCHANGED ver
    BY DEF Upload
<1>3. Staging \in Of(t) \cup {Staging} /\ b \in Of(t) \cup {Result} /\ b \in Buffers
    BY OwnTensor
<1>4. CASE References(t, b) /\ Encode(t, Copy(t, Staging, b)) /\ UNCHANGED <<lock, owner, pc, call>>
  <2>1. Mine(t)
    BY <1>4 DEF References
  <2>2. /\ Program' /\ lock.by = t /\ CanLock(t)
        /\ \A x \in Commands : Waits(x)' => Waits(x) \/ (x.by = t /\ Owned(x))
        /\ Referenced(t)' /\ Waited(t)'
    BY <1>1, <1>3, <1>4, <2>1, EncodeOrders
  <2>3. Alongside(t)
    BY <1>1, <1>4, <2>1, <2>2 DEF Alongside, Mine
  <2>4. Own(t)'
    BY <1>1, <1>4, <2>2, Resting, Rested DEF Awaiting
  <2> QED
    BY <2>2, <2>3, <2>4, OrderStep
<1>5. CASE FlushFor(t, b, HostCall("write", b)) /\ UNCHANGED ver
    BY <1>1, <1>3, <1>5, FlushForOrders DEF HostCalls, HostPoints, HostCall
<1> QED
    BY <1>2, <1>4, <1>5

LEMMA HostOrders ==
    ASSUME OInv, IInv', NEW t \in Sessions, HostWrite(t) \/ HostRead(t)
    PROVE  OInv'
<1>1. /\ UNCHANGED <<lock, owner, seq, refs, queue>> /\ Goto(t, "idle")
      /\ call' = [call EXCEPT ![t] = NoCall] /\ pc[t] \in {"write", "map", "result"}
    BY DEF HostWrite, HostRead, sequenceVars
<1>2. /\ pc'[t] = "idle" /\ \A u \in Sessions \ {t} : pc'[u] = pc[u] /\ call'[u] = call[u]
      /\ read \in [Sessions -> [got : Nat \cup {Wrong}, want : Nat]]
      /\ ver \in [Buffers -> Nat] /\ MemoryTyped
  <2>1. call \in [Sessions -> [then : Points, on : Buffers, from : Buffers]]
        /\ read \in [Sessions -> [got : Nat \cup {Wrong}, want : Nat]]
    BY DEF OInv, IInv, Threads, ThreadsTyped
  <2>2. MemoryTyped /\ ver \in [Buffers -> Nat]
    BY DEF OInv, IInv, Backend, MemoryTyped
  <2> QED
    BY <1>1, <2>1, <2>2, Going DEF OInv
<1>3. Own(t) /\ Program
    BY DEF OInv
<1>4. Referenced(t)' /\ Waited(t)'
    BY <1>1, <1>2, <1>3 DEF Own, Referenced, Waited, Marked, Closed
<1>5. pc[t] \in {"write", "map"} => call[t].on \in Of(t) /\ call[t].on \in Buffers /\ Clear(call[t].on)
    BY <1>3, OwnTensor DEF Own, Touching
<1>6. CASE HostWrite(t)
  <2> DEFINE b == call[t].on
  <2>1. /\ mem' = [mem EXCEPT ![b] = ver[b] + 1] /\ ver' = [ver EXCEPT ![b] = @ + 1]
        /\ UNCHANGED read /\ pc[t] = "write"
    BY <1>6 DEF HostWrite
  <2>2. Program'
    BY <1>1, <1>2, <1>3, <1>5, <2>1, OrderOfWrite
  <2>3. b # Result /\ ver'[Result] = ver[Result]
    BY <1>2, <1>5, <2>1, SequenceConstants DEF Of, Buffers
  <2>4. Alongside(t)
    BY <1>1, <1>2, <2>1, <2>3 DEF Alongside
  <2>5. Own(t)'
    BY <1>2, <1>4, <2>1, Resting, Rested DEF Awaiting
  <2> QED
    BY <2>2, <2>4, <2>5, OrderStep
<1>7. CASE HostRead(t)
  <2>1. UNCHANGED <<mem, ver>>
    BY <1>7 DEF HostRead
  <2>2. read'[t].got = read'[t].want /\ \A u \in Sessions \ {t} : read'[u] = read[u]
    <3>1. CASE pc[t] = "map" /\ read' = [read EXCEPT ![t] = [got |-> mem[call[t].on], want |-> ver[call[t].on]]]
      <4>1. mem[call[t].on] = ver[call[t].on]
        BY <1>2, <1>3, <1>5, <3>1, ClearIsCurrent
      <4> QED
        BY <1>2, <3>1, <4>1
    <3>2. CASE pc[t] = "result" /\ read' = [read EXCEPT ![t].got = mem[Result]]
      <4>1. Clear(Result) /\ read[t].want = ver[Result] /\ Result \in Buffers
        BY <1>3, <3>2 DEF Own, Reading, Awaiting, Buffers
      <4>2. mem[Result] = ver[Result]
        BY <1>2, <1>3, <4>1, ClearIsCurrent
      <4> QED
        BY <1>2, <3>2, <4>1, <4>2
    <3> QED
        BY <1>7, <3>1, <3>2 DEF HostRead
  <2>3. Program' /\ Alongside(t)
    BY <1>1, <1>2, <2>1, <2>2, BackendStays
  <2>4. Own(t)'
    BY <1>2, <1>4, <2>2, Resting
  <2> QED
    BY <2>3, <2>4, OrderStep
<1> QED
    BY <1>6, <1>7

LEMMA BlitOrders ==
    ASSUME OInv, IInv', NEW t \in Sessions, Blit(t)
    PROVE  OInv'
<1> DEFINE a == call[t].from
           b == call[t].on
           c == Copy(t, a, b)
<1>1. pc[t] = "blit" /\ call' = [call EXCEPT ![t] = NoCall] /\ UNCHANGED <<mem, read>>
    BY DEF Blit
<1>2. /\ Own(t) /\ b \in Of(t) /\ b \in Buffers /\ Clear(b)
      /\ a \in Of(t) /\ a \in Buffers /\ Clear(a)
    BY <1>1, OwnTensor DEF OInv, Own, Touching
<1>3. \A u \in Sessions \ {t} : call'[u] = call[u] /\ read'[u] = read[u]
  <2>1. call \in [Sessions -> [then : Points, on : Buffers, from : Buffers]]
    BY DEF OInv, IInv, Threads, ThreadsTyped
  <2> QED
    BY <1>1, <2>1
<1>4. read'[t].got = read'[t].want
    BY <1>1, Rested DEF Awaiting
<1>5. MemoryTyped
    BY LinesTyped DEF OInv
<1>6. c \in Commands /\ c.by = t /\ c.src = a /\ c.dst = b
    BY <1>2, <1>5, CopyIsCommand DEF Copy
<1> HIDE DEF c
<1>7. CASE Mine(t)
  <2>1. PICK ok \in BOOLEAN :
          /\ IF ok THEN /\ queue' = Append(queue, <<c>>)
                        /\ ver' = [ver EXCEPT ![c.dst] = c.makes]
                        /\ Goto(t, "blitted")
             ELSE Goto(t, "idle") /\ UNCHANGED <<queue, ver>>
          /\ UNCHANGED <<lock, owner, seq, refs>>
    BY <1>7 DEF Blit, sequenceVars, c
  <2>2. lock.by = t /\ CanLock(t) /\ owner = t
    BY <1>7, MineIsLocked DEF OInv, Mine
  <2>3. CASE ok
    <3>1. Joins(c)
        BY <1>2, <1>6, <2>1, <2>3, LinesCommit DEF OInv
    <3>2. Program' /\ Owned(c)
        BY <1>1, <1>2, <1>5, <1>6, <2>1, <2>3, <3>1, OrderJoins DEF OInv, c
    <3>3. \A x \in Commands : Waits(x)' => Waits(x) \/ (x.by = t /\ Owned(x))
        BY <1>6, <3>1, <3>2 DEF Joins
    <3>4. pc'[t] = "blitted" /\ \A u \in Sessions \ {t} : pc'[u] = pc[u]
        BY <2>1, <2>3, Going DEF OInv
    <3>5. Alongside(t)
        BY <1>3, <2>1, <2>2, <3>3, <3>4 DEF Alongside
    <3>6. Referenced(t)' /\ Waited(t)'
        BY <1>1, <1>2, <2>1, <2>2, <3>4 DEF Own, Referenced, Waited, Marked
    <3>7. Own(t)'
        BY <1>4, <3>4, <3>6, Resting
    <3> QED
        BY <3>2, <3>5, <3>7, OrderStep
  <2>4. CASE ~ok
    <3>1. pc'[t] = "idle" /\ \A u \in Sessions \ {t} : pc'[u] = pc[u]
        BY <2>1, <2>4, Going DEF OInv
    <3>2. UNCHANGED <<lock, owner, seq, refs, queue, mem, ver>>
        BY <1>1, <2>1, <2>4
    <3>3. Program' /\ Alongside(t) /\ Referenced(t)' /\ Waited(t)'
        BY <1>1, <1>3, <3>1, <3>2, BackendStays DEF Closed
    <3>4. Own(t)'
        BY <1>4, <3>1, <3>3, Resting
    <3> QED
        BY <3>3, <3>4, OrderStep
  <2> QED
    BY <2>3, <2>4
<1>8. CASE ~Mine(t)
  <2>1. Alone(t, c, "alone")
    BY <1>8 DEF Blit, c
  <2>2. /\ Program' /\ CanLock(t) /\ lock'.by \in {t, Nobody} /\ owner' = Nobody
        /\ \A x \in Commands : Waits(x)' => Waits(x) \/ (x.by = t /\ Owned(x))
        /\ \/ Goto(t, "alone") /\ lock'.by = t
           \/ Goto(t, "idle") /\ queue' = <<>> /\ UNCHANGED ver
    BY <1>1, <1>2, <1>8, <2>1, AloneOrders DEF Closed, c
  <2>3. pc'[t] \in {"idle", "alone"} /\ \A u \in Sessions \ {t} : pc'[u] = pc[u]
    BY <2>2, Going DEF OInv
  <2>4. Alongside(t)
    BY <1>3, <2>2, <2>3 DEF Alongside
  <2>5. Referenced(t)' /\ Waited(t)'
    BY <2>2, Going, Bounds DEF OInv, Referenced, Waited, Closed
  <2>6. Own(t)'
    BY <1>4, <2>3, <2>5, Resting
  <2> QED
    BY <2>2, <2>4, <2>6, OrderStep
<1> QED
    BY <1>7, <1>8

\* A thread that has waited for its work gives the lock back.
LEMMA LeaveOrders ==
    ASSUME OInv, IInv', NEW t \in Sessions, RegionLeave(t) \/ AloneDone(t) \/ TokenDone(t)
    PROVE  OInv'
<1>1. /\ queue = <<>> /\ lock' = Unlocked /\ Goto(t, "idle") /\ pc[t] \in Closed
      /\ UNCHANGED <<owner, seq, queue, mem, ver, call>>
    BY DEF RegionLeave, AloneDone, TokenDone, Closed
<1>2. lock.by = t /\ owner = Nobody /\ seq.cmds = <<>>
    BY <1>1, OthersClosed DEF OInv, IInv, Backend, Threads, Holding, OpenOrNot, NoSequence
<1>3. /\ pc'[t] = "idle" /\ \A u \in Sessions \ {t} : pc'[u] = pc[u]
      /\ read \in [Sessions -> [got : Nat \cup {Wrong}, want : Nat]] /\ ver \in [Buffers -> Nat]
    BY <1>1, Going DEF OInv, IInv, Backend, MemoryTyped, Threads, ThreadsTyped
<1>4. read'[t].got = read'[t].want /\ \A u \in Sessions \ {t} : read'[u] = read[u]
  <2>1. CASE RegionLeave(t) \/ AloneDone(t)
    BY <2>1, Rested DEF RegionLeave, AloneDone, Awaiting
  <2>2. CASE TokenDone(t)
    <3>1. pc[t] = "token" /\ read' = [read EXCEPT ![t].got = mem[Result]]
        BY <2>2 DEF TokenDone
    <3>2. read[t].want = ver[Result] /\ Result \in Buffers
        BY <3>1 DEF OInv, Own, Reading, Awaiting, Buffers
    <3>3. mem[Result] = ver[Result]
        BY <1>1, <1>2, <1>3, <3>2, NothingWaits, ClearIsCurrent DEF OInv
    <3> QED
        BY <1>3, <3>1, <3>2, <3>3
  <2> QED
    BY <2>1, <2>2
<1>5. /\ \A x \in Commands : Waits(x)' <=> Waits(x)
      /\ \A x, y \in Commands : Precedes(x, y)' <=> Precedes(x, y)
    BY <1>1, LinesStay
<1>6. Program'
    BY <1>1, <1>5, OrderStays DEF OInv
<1>7. Alongside(t)
    BY <1>1, <1>2, <1>3, <1>4, <1>5 DEF Alongside, CanLock, Unlocked
<1>8. Referenced(t)' /\ Waited(t)'
    BY <1>1, <1>2, Bounds DEF Referenced, Waited
<1>9. Own(t)'
    BY <1>3, <1>4, <1>8, Resting
<1> QED
    BY <1>6, <1>7, <1>9, OrderStep

LEMMA FlushedOrders ==
    ASSUME OInv, IInv', NEW t \in Sessions, Flushed(t)
    PROVE  OInv'
<1>1. /\ pc[t] = "flush" /\ queue = <<>> /\ Goto(t, call[t].then)
      /\ UNCHANGED <<lock, queue, mem, ver, call, read>>
      /\ (owner' = t /\ seq' = Opened) \/ UNCHANGED <<owner, seq>>
    BY DEF Flushed
<1>2. lock.by = t /\ owner = Nobody /\ seq.cmds = <<>> /\ call[t].then \in HostPoints /\ Own(t)
    BY <1>1, OthersClosed DEF OInv, IInv, Backend, Threads, Holding, OpenOrNot, NoSequence, Closed
<1>3. pc'[t] = call[t].then /\ \A u \in Sessions \ {t} : pc'[u] = pc[u]
    BY <1>1, Going DEF OInv
<1>4. seq'.cmds = <<>> /\ queue' = <<>>
    BY <1>1, <1>2 DEF Opened
<1>5. /\ \A x \in Commands : Waits(x)' <=> Waits(x)
      /\ \A x, y \in Commands : Precedes(x, y)' <=> Precedes(x, y)
    BY <1>1, <1>2, <1>4, LinesStay
<1>6. Program'
    BY <1>1, <1>5, OrderStays DEF OInv
<1>7. Alongside(t)
    BY <1>1, <1>2, <1>3, <1>5 DEF Alongside, CanLock
<1>8. \A x : ~In(queue', x) /\ ~Elem(seq'.cmds, x)
    BY <1>4, EmptyElem
<1>9. \A b : Clear(b)'
    BY <1>8 DEF Clear, Waits
<1>10. Referenced(t)' /\ Waited(t)'
    BY <1>4, <1>8 DEF Referenced, Waited
<1>11. Touching(t)'
    BY <1>1, <1>2, <1>3, <1>9 DEF Own, Touching, HostPoints
<1>12. Reading(t)'
    BY <1>1, <1>2, <1>3, <1>9 DEF Own, Reading, Awaiting, HostPoints
<1>13. Own(t)'
    BY <1>10, <1>11, <1>12 DEF Own
<1> QED
    BY <1>6, <1>7, <1>13, OrderStep

LEMMA RegionOrders ==
    ASSUME OInv, IInv', NEW t \in Sessions, RegionAsk(t) \/ RegionBegin(t) \/ RegionEnd(t)
    PROVE  OInv'
<1>1. /\ UNCHANGED <<mem, ver, call, read>> /\ pc[t] \in {"idle", "lock"}
      /\ read[t].got = read[t].want
    BY Rested DEF RegionAsk, RegionBegin, RegionEnd, Free, Awaiting
<1>2. ASSUME UNCHANGED <<lock, owner, seq, refs, queue>>, NEW where \in {"idle", "lock"}, Goto(t, where)
      PROVE  OInv'
  <2>1. pc'[t] = where /\ \A u \in Sessions \ {t} : pc'[u] = pc[u]
    BY <1>2, Going DEF OInv
  <2>2. Program' /\ Alongside(t) /\ Referenced(t)' /\ Waited(t)'
    BY <1>1, <1>2, <2>1, BackendStays DEF Closed
  <2>3. Own(t)'
    BY <1>1, <2>1, <2>2, Resting
  <2> QED
    BY <2>2, <2>3, OrderStep
<1>3. CASE RegionAsk(t)
    BY <1>2, <1>3 DEF RegionAsk, sequenceVars
<1>4. CASE RegionBegin(t)
  <2>1. pc[t] = "lock" /\ CanLock(t) /\ Goto(t, "idle") /\ queue' = queue
        /\ \/ ~seq.active /\ lock' = Locked(t) /\ owner' = t /\ seq' = Opened /\ refs' = {}
           \/ UNCHANGED <<lock, owner, seq, refs>>
    BY <1>4 DEF RegionBegin, sequenceVars
  <2>2. CASE ~seq.active /\ lock' = Locked(t) /\ owner' = t /\ seq' = Opened /\ refs' = {}
    <3>1. ~Mine(t)
        BY <2>2, MineIsLocked DEF OInv
    <3>2. queue = <<>> /\ seq.cmds = <<>> /\ seq'.cmds = <<>> /\ queue' = <<>>
        BY <1>1, <2>1, <2>2, <3>1, QuietLock DEF Closed, Opened
    <3>3. /\ \A x \in Commands : Waits(x)' <=> Waits(x)
          /\ \A x, y \in Commands : Precedes(x, y)' <=> Precedes(x, y)
        BY <3>2, LinesStay
    <3>4. Program'
        BY <1>1, <3>3, OrderStays DEF OInv
    <3>5. pc'[t] = "idle" /\ \A u \in Sessions \ {t} : pc'[u] = pc[u]
        BY <2>1, Going DEF OInv
    <3>6. Alongside(t)
        BY <1>1, <2>1, <2>2, <3>3, <3>5 DEF Alongside, Locked
    <3>7. Referenced(t)' /\ Waited(t)'
      <4>1. \A x : ~In(queue', x) /\ ~Elem(seq'.cmds, x)
        BY <3>2, EmptyElem
      <4> QED
        BY <3>2, <4>1 DEF Referenced, Waited
    <3>8. Own(t)'
        BY <1>1, <3>5, <3>7, Resting
    <3> QED
        BY <3>4, <3>6, <3>8, OrderStep
  <2>3. CASE UNCHANGED <<lock, owner, seq, refs>>
    BY <1>2, <2>1, <2>3
  <2> QED
    BY <2>1, <2>2, <2>3
<1>5. CASE RegionEnd(t)
  <2>1. CASE Mine(t) /\ EndSequence /\ Goto(t, "end") /\ UNCHANGED lock
    <3>1. pc'[t] = "end" /\ \A u \in Sessions \ {t} : pc'[u] = pc[u]
        BY <2>1, Going DEF OInv
    <3>2. Program' /\ Alongside(t) /\ Referenced(t)' /\ Waited(t)'
        BY <1>1, <2>1, <3>1, EndOrders DEF Closed
    <3>3. Own(t)'
        BY <1>1, <3>1, <3>2, Resting
    <3> QED
        BY <3>2, <3>3, OrderStep
  <2>2. CASE UNCHANGED <<lock, owner, seq, refs, queue, pc>>
    BY <1>1, <1>2, <2>2, Same DEF OInv
  <2> QED
    BY <1>5, <2>1, <2>2 DEF RegionEnd, sequenceVars
<1> QED
    BY <1>3, <1>4, <1>5

LEMMA GpuOrders ==
    ASSUME OInv, IInv', GpuStep
    PROVE  OInv'
<1> DEFINE h == Head(Head(queue))
<1>1. /\ h \in Commands /\ In(queue, h) /\ seq' = seq
      /\ \A x \in Commands : In(queue, x) <=> x = h \/ In(queue', x)
      /\ \A x \in Commands : Waits(x) <=> x = h \/ Waits(x)'
      /\ \A x \in Commands : Waits(x)' => Precedes(h, x)
      /\ \A x, y \in Commands : Precedes(x, y)' => Precedes(x, y)
    BY LinesRun DEF OInv
<1>2. /\ queue # <<>> /\ UNCHANGED <<lock, owner, refs, ver, pc, call, read>>
      /\ mem' = [mem EXCEPT ![h.dst] = IF h.src = Staging \/ mem[h.src] = h.saw THEN h.makes ELSE Wrong]
    BY DEF GpuStep, sequenceVars, threadVars
<1> HIDE DEF h
<1>3. Program'
    BY <1>1, <1>2, LinesTyped, OrderRuns DEF OInv
<1>4. ASSUME NEW t \in Sessions PROVE Own(t)'
  <2>1. Own(t)
    BY DEF OInv
  <2>2. Referenced(t)' /\ Waited(t)'
    BY <1>1, <1>2, <2>1 DEF Own, Referenced, Waited, Marked
  <2>3. \A b : Clear(b) => Clear(b)'
    BY <1>1 DEF Clear
  <2>4. Touching(t)' /\ Reading(t)'
    BY <1>1, <1>2, <2>1, <2>3 DEF Own, Touching, Reading, Awaiting
  <2> QED
    BY <2>2, <2>4 DEF Own
<1> QED
    BY <1>3, <1>4 DEF OInv

LEMMA NextOrders ==
    ASSUME OInv, [Next]_vars
    PROVE  OInv'
<1>1. IInv'
    BY NextKeeps DEF OInv
<1>2. CASE UNCHANGED vars
  <2>1. UNCHANGED <<lock, owner, seq, refs, queue, mem, ver, pc, call, read>>
    BY <1>2 DEF vars, sequenceVars, threadVars
  <2>2. /\ \A x \in Commands : Waits(x)' <=> Waits(x)
        /\ \A x, y \in Commands : Precedes(x, y)' <=> Precedes(x, y)
    BY <2>1, LinesStay
  <2>3. Program'
    BY <2>1, <2>2, OrderStays DEF OInv
  <2>4. \A t \in Sessions : Own(t)'
    BY <2>1, <2>2 DEF OInv, Own, Referenced, Waited, Touching, Reading, Awaiting, Marked, Clear
  <2> QED
    BY <1>1, <2>3, <2>4 DEF OInv
<1>3. CASE GpuStep
    BY <1>1, <1>3, GpuOrders
<1>4. ASSUME NEW t \in Sessions, Call(t) \/ RegionEnd(t) \/ Returns(t)
      PROVE  OInv'
  <2>1. CASE RegionAsk(t) \/ RegionBegin(t) \/ RegionEnd(t)
    BY <1>1, <2>1, RegionOrders
  <2>2. CASE Op(t) \/ Argmax(t) \/ Upload(t) \/ Blit(t)
    BY <1>1, <2>2, OpOrders, ArgmaxOrders, UploadOrders, BlitOrders
  <2>3. CASE Map(t)
    <3>1. PICK b \in Of(t) : FlushFor(t, b, HostCall("map", b))
        BY <2>3 DEF Map
    <3>2. HostCall("map", b) \in HostCalls
        BY OwnTensor DEF HostCalls, HostPoints, HostCall
    <3>3. UNCHANGED <<mem, ver, read>> /\ pc[t] = "idle"
        BY <2>3 DEF Map, Free
    <3> QED
        BY <1>1, <3>1, <3>2, <3>3, OwnTensor, FlushForOrders DEF HostCall
  <2>10. CASE BlitCopy(t)
    <3>1. PICK src \in Of(t) : \E dst \in Of(t) :
            FlushFor(t, src, [then |-> "target", on |-> dst, from |-> src])
        BY <2>10 DEF BlitCopy
    <3>2. PICK dst \in Of(t) : FlushFor(t, src, [then |-> "target", on |-> dst, from |-> src])
        BY <3>1
    <3>3. [then |-> "target", on |-> dst, from |-> src] \in HostCalls
        BY OwnTensor DEF HostCalls, HostPoints
    <3>4. UNCHANGED <<mem, ver, read>> /\ pc[t] = "idle"
        BY <2>10 DEF BlitCopy, Free
    <3> QED
        BY <1>1, <3>2, <3>3, <3>4, OwnTensor, FlushForOrders
  <2>4. CASE ArgmaxSync(t)
    <3>1. HostCall("result", Result) \in HostCalls /\ HostCall("result", Result).then = "result"
          /\ Result \in Buffers
        BY DEF HostCalls, HostPoints, HostCall, Buffers
    <3> QED
        BY <1>1, <2>4, <3>1, FlushForOrders DEF ArgmaxSync
  <2>9. CASE BlitTo(t)
    <3>1. [call[t] EXCEPT !.then = "blit"] \in HostCalls /\ call[t].on \in Buffers
        BY PartsTyped DEF OInv, IInv, Threads, CallsTyped, HostCalls, HostPoints
    <3> QED
        BY <1>1, <2>9, <3>1, FlushForOrders DEF BlitTo
  <2>5. CASE HostWrite(t) \/ HostRead(t)
    BY <1>1, <2>5, HostOrders
  <2>6. CASE RegionLeave(t) \/ AloneDone(t) \/ TokenDone(t)
    BY <1>1, <2>6, LeaveOrders
  <2>7. CASE Flushed(t)
    BY <1>1, <2>7, FlushedOrders
  <2>8. CASE BlitDone(t)
    <3>1. /\ UNCHANGED <<lock, owner, seq, refs, queue, mem, ver, call, read>> /\ Goto(t, "idle")
          /\ pc[t] = "blitted" /\ queue = <<>>
        BY <2>8 DEF BlitDone, sequenceVars
    <3>2. pc'[t] = "idle" /\ \A u \in Sessions \ {t} : pc'[u] = pc[u]
        BY <3>1, Going DEF OInv
    <3>3. Program' /\ Alongside(t) /\ Waited(t)'
        BY <3>1, <3>2, BackendStays DEF Closed
    <3>4. Referenced(t)'
        BY <3>1, EmptyElem DEF OInv, Own, Referenced, Marked
    <3>5. Own(t)'
        BY <3>1, <3>2, <3>3, <3>4, Resting, Rested DEF Awaiting
    <3> QED
        BY <1>1, <3>3, <3>5, OrderStep
  <2> QED
    BY <1>4, <2>1, <2>2, <2>3, <2>4, <2>5, <2>6, <2>7, <2>8, <2>9, <2>10 DEF Call, Returns
<1> QED
    BY <1>2, <1>3, <1>4 DEF Next

LEMMA InitOrders == Init => OInv
<1> SUFFICES ASSUME Init PROVE OInv
    OBVIOUS
<1>1. IInv
    BY InitHolds
<1>2. queue = <<>> /\ seq.cmds = <<>> /\ owner = Nobody /\ lock.by = Nobody
    BY DEF Init, NoSequence
<1>3. \A x, y : ~Waits(x) /\ ~Precedes(x, y)
    BY <1>2, EmptyElem DEF Waits, Precedes
<1>4. mem = [b \in Buffers |-> 0] /\ ver = [b \in Buffers |-> 0]
    BY DEF Init
<1>5. Program
    BY <1>3, <1>4 DEF Program, Remembers, Fitting, InOrder, Made
<1>6. ASSUME NEW t \in Sessions PROVE Own(t)
    BY <1>2, Bounds DEF Own, Referenced, Waited, Touching, Reading, Awaiting, Init
<1> QED
    BY <1>1, <1>5, <1>6 DEF OInv

\* The GPU runs behind the encoder, in the order of the commits, while threads copy
\* ahead of an open sequence, write behind one and rotate it: no command ever finds
\* its inputs older or newer than program order has them.
THEOREM ProgramOrderIsSeen == Spec => []CommandsSeeProgramOrder
<1>1. OInv => CommandsSeeProgramOrder
    BY DEF OInv, Program, Remembers, CommandsSeeProgramOrder, Wrong
<1> QED
    BY <1>1, InitOrders, NextOrders, PTL DEF Spec

\* metal_buffer_map, metal_buffer_download and metal_argmax_f32 return what the last
\* write in program order made, with one result buffer for all sessions.
THEOREM ReadsAreResults == Spec => []HostReadsResults
<1>1. OInv => HostReadsResults
    BY DEF OInv, Own, Reading, Awaiting, HostReadsResults
<1> QED
    BY <1>1, InitOrders, NextOrders, PTL DEF Spec
=============================================================================
