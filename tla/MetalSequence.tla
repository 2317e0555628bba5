---------------------------- MODULE MetalSequence ----------------------------
(***************************************************************************)
(* The Metal backend's command sequence (src/backends/metal/sequence.c),     *)
(* shared by the sessions of a model, each on a thread of its own.  A thread *)
(* brackets a pass in a region; the region's ops are encoded into one open    *)
(* command buffer, rotated into committed ones while the GPU runs, and       *)
(* flushed when the host touches memory they use.  An op outside a sequence   *)
(* of the thread's own is submitted alone and waited for.                    *)
(*                                                                           *)
(* A step runs from one point where the thread can block to the next: taking *)
(* seq_lock, and waiting for a command buffer.  The GPU (external) runs       *)
(* committed command buffers in the order of their commit, a command at a    *)
(* time.  Left out: the kernels, which are reduced to the tensors they read   *)
(* and write, views of one MTLBuffer, profiling, capture, autorelease pools. *)
(***************************************************************************)
EXTENDS Integers, Sequences, FiniteSets

CONSTANTS
    Sessions,     \* threads, each with a session of its own
    Tensors,      \* the tensors of a session
    Result,       \* argmax_result_buffer, one for the backend
    Nobody,
    RotateEvery,  \* seq_rotate_every: dispatches per command buffer
    PendingCap,   \* slots of seq_pending_cmds
    RefCap,       \* references after which seq_ref counts as overflowed
    MayFail,      \* where creating a command buffer may fail
    MaxFailures,  \* bound: how often it does
    MaxOps        \* bound: regions and ops of each session

Creations == {"begin", "rotate", "alone", "reopen"}

ASSUME SequenceConstants ==
    /\ Result \notin Sessions \X Tensors /\ Nobody \notin Sessions
    /\ {RotateEvery, PendingCap, RefCap} \subseteq Nat \ {0}
    /\ MayFail \subseteq Creations
    /\ MaxFailures \in Nat
    /\ MaxOps \in [Sessions -> Nat]

Of(t)   == {t} \X Tensors
Buffers == (Sessions \X Tensors) \cup {Result}
Staging == <<Nobody, 0>>   \* memory the host filled for one copy
Wrong   == -1              \* what a command makes of inputs it was not to see
Commands == [by : Sessions, src : Buffers \cup {Staging}, saw : Nat,
             dst : Buffers, makes : Nat]

VARIABLES
    lock,     \* seq_lock, recursive: who holds it (by) and how often (depth)
    owner,    \* seq_owner
    seq,      \* the open sequence: active, work (sequence_has_work), the commands
              \* of its open command buffer (cmds), pending (seq_pending_count)
    refs,     \* seq_ref: the tensors the sequence has bound
    queue,    \* committed command buffers the GPU has not finished
    mem,      \* mem[b]: the version of tensor b in memory
    ver,      \* ver[b]: the version program order gives it
    pc,       \* where thread t is
    call,     \* the call it flushes for: where it goes on (then), on which tensor, and
              \* the tensor a copy is from
    in,       \* its region: none, one with a sequence, or one without ("bare")
    read,     \* what its last host read found, and should have found
    ops,      \* regions and ops thread t has made
    failures  \* command buffers that could not be created

sequenceVars == <<lock, owner, seq, refs>>
threadVars == <<pc, call, in, read, ops>>
vars == <<sequenceVars, queue, mem, ver, threadVars, failures>>

NoSequence == [active |-> FALSE, work |-> FALSE, cmds |-> <<>>, pending |-> 0]
HostCall(then, b) == [then |-> then, on |-> b, from |-> b]
NoCall == HostCall("idle", Result)
Opened     == [active |-> TRUE, work |-> FALSE, cmds |-> <<>>, pending |-> 0]

Init == /\ lock = [by |-> Nobody, depth |-> 0]
        /\ owner = Nobody
        /\ seq = NoSequence
        /\ refs = {}
        /\ queue = <<>>
        /\ mem = [b \in Buffers |-> 0]
        /\ ver = [b \in Buffers |-> 0]
        /\ pc = [t \in Sessions |-> "idle"]
        /\ call = [t \in Sessions |-> NoCall]
        /\ in = [t \in Sessions |-> "none"]
        /\ read = [t \in Sessions |-> [got |-> 0, want |-> 0]]
        /\ ops = [t \in Sessions |-> 0]
        /\ failures = 0

-----------------------------------------------------------------------------
Mine(t) == owner = t

\* Mutant: the lock lets a thread in while another one holds it.
CanLockAnyway(t) == lock.depth < 2

\* pthread_mutex_lock(seq_lock) returns: the lock is free or the thread's own.
CanLock(t) == lock.by \in {Nobody, t}
Locked(t) == [by |-> t, depth |-> lock.depth + 1]
Unlocked == [by |-> IF lock.depth = 1 THEN Nobody ELSE lock.by, depth |-> lock.depth - 1]

\* Mutant: a full reference set forgets what it could not hold.
ReferencesHeld(t, b) == Mine(t) /\ b \in refs /\ Cardinality(refs) <= RefCap

\* metal_seq_references: a full set answers yes to everything.
References(t, b) == Mine(t) /\ (Cardinality(refs) > RefCap \/ b \in refs)

Goto(t, where) == pc' = [pc EXCEPT ![t] = where]
Counts(t) == ops' = [ops EXCEPT ![t] = @ + 1]
Free(t) == pc[t] = "idle" /\ ops[t] < MaxOps[t]

\* A command buffer is created at `where`, or is not.
Created(where, ok) ==
    \/ ok /\ UNCHANGED failures
    \/ ~ok /\ where \in MayFail /\ failures < MaxFailures /\ failures' = failures + 1

Copy(t, src, dst) ==
    [by |-> t, src |-> src, saw |-> IF src = Staging THEN 0 ELSE ver[src],
     dst |-> dst, makes |-> ver[dst] + 1]

-----------------------------------------------------------------------------
(* Regions *)

\* parallel_region_begin asks for the lock and waits for it.
RegionAsk(t) ==
    /\ Free(t) /\ in[t] = "none"
    /\ Goto(t, "lock")
    /\ Counts(t)
    /\ UNCHANGED <<sequenceVars, queue, mem, ver, call, in, read, failures>>

\* Mutant: a region that could not open its sequence keeps the lock.
RegionBeginLocked(t) ==
    /\ pc[t] = "lock" /\ CanLock(t)
    /\ \E ok \in BOOLEAN :
         /\ Created("begin", ok)
         /\ lock' = Locked(t)
         /\ IF ok /\ ~seq.active
            THEN /\ owner' = t /\ seq' = Opened /\ refs' = {}
                 /\ in' = [in EXCEPT ![t] = "sequence"]
            ELSE /\ in' = [in EXCEPT ![t] = "bare"]
                 /\ UNCHANGED <<owner, seq, refs>>
    /\ Goto(t, "idle")
    /\ UNCHANGED <<queue, mem, ver, call, read, ops>>

\* It has the lock and opens a sequence, or gives the lock back and leaves the
\* region without one.
RegionBegin(t) ==
    /\ pc[t] = "lock" /\ CanLock(t)
    /\ \E ok \in BOOLEAN :
         /\ Created("begin", ok)
         /\ IF ok /\ ~seq.active
            THEN /\ lock' = Locked(t) /\ owner' = t /\ seq' = Opened /\ refs' = {}
                 /\ in' = [in EXCEPT ![t] = "sequence"]
            ELSE /\ in' = [in EXCEPT ![t] = "bare"]
                 /\ UNCHANGED sequenceVars
    /\ Goto(t, "idle")
    /\ UNCHANGED <<queue, mem, ver, call, read, ops>>

\* command_sequence_end: the sequence is nobody's, its buffer is committed.
EndSequence ==
    /\ owner' = Nobody
    /\ seq' = NoSequence
    /\ queue' = IF seq.cmds = <<>> THEN queue ELSE Append(queue, seq.cmds)

\* parallel_region_end: without a token, or a sequence of its own, it returns;
\* a sequence with work is waited for.
RegionEnd(t) ==
    /\ pc[t] = "idle" /\ in[t] # "none"
    /\ IF in[t] = "sequence" /\ Mine(t)
       THEN EndSequence /\ Goto(t, "end") /\ UNCHANGED <<lock, refs, in>>
       ELSE in' = [in EXCEPT ![t] = "none"] /\ UNCHANGED <<sequenceVars, queue, pc>>
    /\ UNCHANGED <<mem, ver, call, read, ops, failures>>

\* Its buffers are done (at once, if it had none): drained, and the lock is free.
RegionLeave(t) ==
    /\ pc[t] = "end" /\ queue = <<>>
    /\ refs' = {} /\ lock' = Unlocked
    /\ in' = [in EXCEPT ![t] = "none"]
    /\ Goto(t, "idle")
    /\ UNCHANGED <<owner, seq, queue, mem, ver, call, read, ops, failures>>

-----------------------------------------------------------------------------
(* Ops *)

\* Mutant: a rotated buffer starts a new set of references.
RefsOfBuffer(rotated) == IF rotated THEN {} ELSE refs

\* The references that stay when an op begins, rotating the sequence or not.
RefsKept(rotated) == refs

\* Mutant: the oldest command buffer is not taken out of its slot.
RoomTaken(pending) == pending

\* The slots in use once there is one for a rotated command buffer.
Room(pending) == IF pending = PendingCap THEN pending - 1 ELSE pending

\* metal_sequence_encoder: at a full command buffer the sequence commits it and
\* goes on in a new one, waiting for the oldest when all slots are taken; when
\* no new one can be made it keeps the old one.
Encode(t, c) ==
    LET full == Len(seq.cmds) >= RotateEvery
        marked == {c.dst} \cup (IF c.src = Staging THEN {} ELSE {c.src})
    IN  \E rotates \in BOOLEAN :
          /\ rotates => full
          /\ IF full THEN Created("rotate", rotates) ELSE UNCHANGED failures
          /\ (full /\ seq.pending = PendingCap) => Len(queue) < PendingCap
          /\ queue' = IF rotates THEN Append(queue, seq.cmds) ELSE queue
          /\ seq' = [seq EXCEPT !.work = TRUE,
                                !.cmds = IF rotates THEN <<c>> ELSE Append(@, c),
                                !.pending = (IF full THEN Room(@) ELSE @)
                                            + (IF rotates THEN 1 ELSE 0)]
          /\ refs' = RefsKept(rotates) \cup marked
          /\ ver' = [ver EXCEPT ![c.dst] = c.makes]

\* metal_standalone_pool, metal_standalone_begin: a command buffer of its own,
\* under the lock until it is done.
Alone(t, c, then) ==
    /\ CanLock(t)
    /\ \E ok \in BOOLEAN :
         /\ Created("alone", ok)
         /\ IF ok
            THEN /\ lock' = Locked(t)
                 /\ queue' = Append(queue, <<c>>)
                 /\ ver' = [ver EXCEPT ![c.dst] = c.makes]
                 /\ Goto(t, then)
            ELSE Goto(t, "idle") /\ UNCHANGED <<lock, queue, ver>>
    /\ UNCHANGED <<owner, seq, refs>>

\* An op of the forward, in place on a tensor of the session.
Op(t) ==
    /\ Free(t)
    /\ \E b \in Of(t) :
         IF Mine(t) THEN Encode(t, Copy(t, b, b)) /\ UNCHANGED <<lock, owner, pc>>
         ELSE Alone(t, Copy(t, b, b), "alone")
    /\ Counts(t)
    /\ UNCHANGED <<mem, call, in, read>>

\* metal_standalone_end, metal_pool_end.
AloneDone(t) ==
    /\ pc[t] = "alone" /\ queue = <<>>
    /\ lock' = Unlocked
    /\ Goto(t, "idle")
    /\ UNCHANGED <<owner, seq, refs, queue, mem, ver, call, in, read, ops, failures>>

\* metal_argmax_f32: the op, and then the host reads the backend's result.
Argmax(t) ==
    /\ Free(t)
    /\ \E b \in Of(t) :
         IF Mine(t) THEN Encode(t, Copy(t, b, Result)) /\ Goto(t, "sync") /\ UNCHANGED <<lock, owner>>
         ELSE Alone(t, Copy(t, b, Result), "token")
    /\ read' = IF pc'[t] = "idle" THEN read ELSE [read EXCEPT ![t].want = ver'[Result]]
    /\ Counts(t)
    /\ UNCHANGED <<mem, call, in>>

TokenDone(t) ==
    /\ pc[t] = "token" /\ queue = <<>>
    /\ read' = [read EXCEPT ![t].got = mem[Result]]
    /\ lock' = Unlocked
    /\ Goto(t, "idle")
    /\ UNCHANGED <<owner, seq, refs, queue, mem, ver, call, in, ops, failures>>

-----------------------------------------------------------------------------
(* The host touches a tensor *)

\* metal_flush_if_referenced, metal_batch_flush: a sequence with work that uses b is
\* submitted before the host goes on with call c.
FlushFor(t, b, c) ==
    /\ call' = [call EXCEPT ![t] = c]
    /\ IF References(t, b) /\ seq.work
       THEN EndSequence /\ Goto(t, "flush") /\ UNCHANGED <<lock, refs>>
       ELSE Goto(t, c.then) /\ UNCHANGED <<sequenceVars, queue>>

\* The flushed buffers are done; the sequence is opened again, unless no command
\* buffer can be had for it.
Flushed(t) ==
    /\ pc[t] = "flush" /\ queue = <<>>
    /\ Goto(t, call[t].then)
    /\ refs' = {}
    /\ \E ok \in BOOLEAN :
         /\ Created("reopen", ok)
         /\ IF ok THEN owner' = t /\ seq' = Opened
            ELSE UNCHANGED <<owner, seq>>
    /\ UNCHANGED <<lock, queue, mem, ver, call, in, read, ops>>

\* metal_buffer_map and metal_buffer_download: the host reads the tensor.
Map(t) ==
    /\ Free(t)
    /\ \E b \in Of(t) : FlushFor(t, b, HostCall("map", b))
    /\ Counts(t)
    /\ UNCHANGED <<mem, ver, in, read, failures>>

\* metal_buffer_upload: behind the sequence's readers through a copy on its
\* encoder (if aligned), else into the memory itself.
Upload(t) ==
    /\ Free(t)
    /\ \E b \in Of(t), aligned \in BOOLEAN :
         IF aligned /\ References(t, b)
         THEN Encode(t, Copy(t, Staging, b)) /\ UNCHANGED <<lock, owner, pc, call>>
         ELSE FlushFor(t, b, HostCall("write", b)) /\ UNCHANGED <<ver, failures>>
    /\ Counts(t)
    /\ UNCHANGED <<mem, in, read>>

\* metal_submit_copy of an unaligned range: ahead of the open sequence, so the work
\* there that uses the source or the destination goes first.
BlitCopy(t) ==
    /\ Free(t) /\ Mine(t)
    /\ \E src, dst \in Of(t) :
         FlushFor(t, src, [then |-> "target", on |-> dst, from |-> src])
    /\ Counts(t)
    /\ UNCHANGED <<mem, ver, in, read, failures>>

\* Mutant: the destination is not flushed for.
BlitOver(t) ==
    /\ pc[t] = "target"
    /\ Goto(t, "blit")
    /\ UNCHANGED <<sequenceVars, queue, mem, ver, call, in, read, ops, failures>>

BlitTo(t) ==
    /\ pc[t] = "target"
    /\ FlushFor(t, call[t].on, [call[t] EXCEPT !.then = "blit"])
    /\ UNCHANGED <<mem, ver, in, read, ops, failures>>

\* What follows the flush, or its absence.
HostWrite(t) ==
    /\ pc[t] = "write"
    /\ mem' = [mem EXCEPT ![call[t].on] = ver[call[t].on] + 1]
    /\ ver' = [ver EXCEPT ![call[t].on] = @ + 1]
    /\ Goto(t, "idle")
    /\ call' = [call EXCEPT ![t] = NoCall]
    /\ UNCHANGED <<sequenceVars, queue, in, read, ops, failures>>

HostRead(t) ==
    /\ \/ /\ pc[t] = "map"
          /\ read' = [read EXCEPT ![t] = [got |-> mem[call[t].on], want |-> ver[call[t].on]]]
       \/ pc[t] = "result" /\ read' = [read EXCEPT ![t].got = mem[Result]]
    /\ Goto(t, "idle")
    /\ call' = [call EXCEPT ![t] = NoCall]
    /\ UNCHANGED <<sequenceVars, queue, mem, ver, in, ops, failures>>

ArgmaxSync(t) ==
    /\ pc[t] = "sync"
    /\ FlushFor(t, Result, HostCall("result", Result))
    /\ UNCHANGED <<mem, ver, in, read, ops, failures>>

\* The copy is waited for: inside the sequence it takes no lock and leaves the
\* open command buffer alone.
Blit(t) ==
    /\ pc[t] = "blit"
    /\ LET c == Copy(t, call[t].from, call[t].on) IN
       IF Mine(t)
       THEN \E ok \in BOOLEAN :
              /\ Created("alone", ok)
              /\ IF ok THEN /\ queue' = Append(queue, <<c>>)
                            /\ ver' = [ver EXCEPT ![c.dst] = c.makes]
                            /\ Goto(t, "blitted")
                 ELSE Goto(t, "idle") /\ UNCHANGED <<queue, ver>>
              /\ UNCHANGED sequenceVars
       ELSE Alone(t, c, "alone")
    /\ call' = [call EXCEPT ![t] = NoCall]
    /\ UNCHANGED <<mem, in, read, ops>>

BlitDone(t) ==
    /\ pc[t] = "blitted" /\ queue = <<>>
    /\ Goto(t, "idle")
    /\ UNCHANGED <<sequenceVars, queue, mem, ver, call, in, read, ops, failures>>

-----------------------------------------------------------------------------
\* The GPU (external) runs the next command of the oldest committed buffer.
GpuStep ==
    /\ queue # <<>>
    /\ LET buf == Head(queue)
           c   == Head(buf)
       IN  /\ mem' = [mem EXCEPT ![c.dst] =
                        IF c.src = Staging \/ mem[c.src] = c.saw THEN c.makes ELSE Wrong]
           /\ queue' = IF Len(buf) = 1 THEN Tail(queue) ELSE <<Tail(buf)>> \o Tail(queue)
    /\ UNCHANGED <<sequenceVars, ver, threadVars, failures>>

Call(t) == RegionAsk(t) \/ Op(t) \/ Argmax(t) \/ Map(t) \/ Upload(t) \/ BlitCopy(t)
Returns(t) == \/ RegionBegin(t) \/ RegionLeave(t) \/ AloneDone(t) \/ TokenDone(t)
              \/ Flushed(t) \/ HostWrite(t) \/ HostRead(t) \/ ArgmaxSync(t)
              \/ BlitTo(t) \/ Blit(t) \/ BlitDone(t)

Next == GpuStep \/ \E t \in Sessions : Call(t) \/ RegionEnd(t) \/ Returns(t)

Spec == Init /\ [][Next]_vars

-----------------------------------------------------------------------------
(* Properties *)

Points == {"idle", "lock", "end", "alone", "token", "sync", "flush", "write",
           "map", "result", "target", "blit", "blitted"}

SequenceTyped ==
    /\ lock \in [by : Sessions \cup {Nobody}, depth : Nat]
    /\ lock.by = Nobody <=> lock.depth = 0
    /\ owner \in Sessions \cup {Nobody}
    /\ seq \in [active : BOOLEAN, work : BOOLEAN, cmds : Seq(Commands), pending : 0 .. PendingCap]
    /\ refs \subseteq Buffers
MemoryTyped ==
    /\ queue \in Seq(Seq(Commands))
    /\ mem \in [Buffers -> Nat \cup {Wrong}]
    /\ ver \in [Buffers -> Nat]
ThreadsTyped ==
    /\ pc \in [Sessions -> Points]
    /\ call \in [Sessions -> [then : Points, on : Buffers, from : Buffers]]
    /\ in \in [Sessions -> {"none", "sequence", "bare"}]
    /\ read \in [Sessions -> [got : Nat \cup {Wrong}, want : Nat]]
OpsBounded == ops \in [Sessions -> Nat] /\ \A t \in Sessions : ops[t] <= MaxOps[t]
BufferBounded == failures \in 0 .. MaxFailures /\ Len(seq.cmds) <= RotateEvery + failures

TypeOK == SequenceTyped /\ MemoryTyped /\ ThreadsTyped /\ OpsBounded /\ BufferBounded

\* metal_internal.h: sessions on other threads wait instead of encoding into a
\* sequence they do not own.  What is in the open sequence, and what the GPU has
\* still to run, is the work of the one thread that holds the lock.
SequenceIsPrivate ==
    /\ owner # Nobody => lock.by = owner
    /\ seq.active <=> owner # Nobody
    /\ \A i \in DOMAIN seq.cmds : seq.cmds[i].by = lock.by
    /\ \A i \in DOMAIN queue : \A j \in DOMAIN queue[i] : queue[i][j].by = lock.by

\* No command sees memory the host wrote after it was encoded, or misses what
\* was to be there: whatever is rotated, flushed, or copied ahead or behind.
CommandsSeeProgramOrder == \A b \in Buffers : mem[b] # Wrong

\* A map, a download and an argmax return what the program's last write of the
\* tensor made; an argmax never another session's token from the shared result.
HostReadsResults ==
    \A t \in Sessions : pc[t] = "idle" => read[t].got = read[t].want

\* metal_internal.h: seq_lock is held from region begin to region end, and by
\* each standalone submission; so nobody outside of both holds it.
LockOnlyInRegions ==
    \A t \in Sessions : (pc[t] = "idle" /\ in[t] = "none") => lock.by # t
=============================================================================
