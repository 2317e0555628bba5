------------------------------ MODULE VkSequence ------------------------------
(***************************************************************************)
(* The batched submission of the Vulkan backend (backends/vulkan/sequence.c  *)
(* and its users): kernels are recorded, with a barrier only where the       *)
(* hazard table asks for one, rolled to the GPU in command buffers without   *)
(* waiting, and waited for when the host touches data.  The host runs one    *)
(* call of the backend at a time; `todo` holds what is left of that call,    *)
(* one entry per function still to run, so that the device's steps fall      *)
(* anywhere between two of them.                                             *)
(*                                                                           *)
(* Accesses are sets of cells: two byte ranges overlap iff they share one.   *)
(* What a kernel computes is the number of its command (VkDevice).           *)
(***************************************************************************)
EXTENDS VkDevice, FiniteSets, TLC

CONSTANTS
    Tensors,      \* buffers of activations, host-visible
    NoWeight,     \* not a weight
    Kernels,      \* what one dispatch may read and write: [in, out : SUBSET Tensors]
    XCap,         \* activations the x ring holds (VK_XRING_CAP)
    UCap,         \* uploads the upload ring holds (VK_URING_BYTES)
    CmdBufs,      \* VK_SEQ_CMDBUFS
    RollRing,     \* VK_SEQ_ROLL_RING
    Rotate,       \* VK_SEQ_ROTATE
    MaxDispatch,  \* VK_SEQ_MAX_DISPATCH
    DirtyCap,     \* VK_DIRTY_CAP
    MaxLost,      \* bound: how many submissions fail
    MaxCalls      \* bound: calls of the backend the host makes

X(i) == <<"x", i>>
U(i) == <<"u", i>>

ASSUME SequenceAssumption ==
    /\ Kernels \subseteq [in : SUBSET Tensors, out : SUBSET Tensors]
    /\ \A k \in Kernels : /\ IsFiniteSet(k.in) /\ IsFiniteSet(k.out)
                         /\ Cardinality(k.in) + Cardinality(k.out) < DirtyCap
    /\ XCap \in Nat \ {0} /\ UCap \in Nat /\ Rotate \in Nat \ {0}
    /\ CmdBufs \in Nat \ {0} /\ RollRing \in 1 .. CmdBufs
    /\ MaxDispatch \in Nat /\ MaxDispatch > 1
    /\ Tensors \cup {X(i) : i \in 0 .. XCap - 1} \cup {U(i) : i \in 0 .. UCap - 1} \subseteq Cells
    /\ Tensors \cap {U(i) : i \in 0 .. UCap - 1} = {}

VARIABLES
    seq,    \* the sequence fields of vk_state, with the open command buffer's commands
    mark,   \* mark_n, mark_pending, mark_in_open
    ring,   \* xring_used, uring_used
    todo,   \* what is left of the call the host is in
    prog,   \* the value each cell has if every call takes effect at once
    held,   \* the mark the caller got last, and the tensors not written since: what it
            \* may map by that mark
    answer, \* the data the last readback handed to the host
    count   \* calls made, commands numbered, submissions lost, and whether the loss of
            \* one is still to be reported

hostVars == <<seq, mark, ring, todo, prog, held, answer, count>>
vars == <<deviceVars, hostVars>>

NoAnswer == [ok |-> FALSE, got |-> 0, want |-> 0, missed |-> FALSE]

SequenceInit ==
    /\ seq = [open |-> FALSE, cmd |-> 0, inCmd |-> 0, n |-> 0, failed |-> FALSE,
              dirty |-> <<>>, batch |-> <<>>, waitCopy |-> 0, signalComp |-> 0]
    /\ mark = [n |-> 0, pending |-> FALSE, inOpen |-> FALSE]
    /\ ring = [x |-> 0, u |-> 0]
    /\ todo = <<>>
    /\ held = [mark |-> 0, clean |-> {}]
    /\ answer = NoAnswer
    /\ count = [calls |-> 0, ids |-> 0, lost |-> 0, unreported |-> FALSE]

Init ==
    /\ SequenceInit
    /\ prog = [c \in Cells |-> 0]
    /\ DeviceInit(prog)

-----------------------------------------------------------------------------
(* What is left of the call.  An entry names a function of the source and    *)
(* its arguments; a function that calls others puts them before the rest.    *)

Entry(f) == [f |-> f]
At(f)    == todo # <<>> /\ Head(todo).f = f
Arg      == Head(todo)
Return   == todo' = Tail(todo)
Then(es) == todo' = es \o Tail(todo)

\* Append a dispatch, or a copy, that reads `in` and writes `out`.  A GEMM on a weight
\* that was copied to the device reads it too: `weight` maps its cell to it.  put is the
\* weight a copy brings, NoWeight for any other command.
WeightDispatch(in, weight, out) ==
    [f |-> "dispatch", in |-> in, weight |-> weight, out |-> out, put |-> NoWeight,
     transfer |-> FALSE]
Dispatch(in, out) == WeightDispatch(in, <<>>, out)
Copy(in, out, put) ==
    [f |-> "copy", in |-> in, weight |-> <<>>, out |-> out, put |-> put, transfer |-> TRUE]
\* A linear's GEMM over the activations in cell x.
Gemm(x, y, w) == [f |-> "gemm", x |-> x, y |-> y, w |-> w]
Read(c) == [f |-> "read", cell |-> c]
HostWrite(c) == [f |-> "write", cell |-> c]
WaitMark(m) == [f |-> "wait_mark", mark |-> m]
Flush == <<Entry("flush")>>

-----------------------------------------------------------------------------
(* Recording: vk_seq_open_cmd, vk_seq_hazard, CmdDispatch *)

Opened(s) ==
    IF s.open THEN s
    ELSE [s EXCEPT !.open = TRUE, !.cmd = 0, !.inCmd = 0, !.batch = <<>>]

Accesses(in, out) == SetToSeq([cell : in, write : {FALSE}] \cup [cell : out, write : {TRUE}])

\* Mutant: a write after a read does not count as a conflict.
ConflictUnlessRead(dirty, acc) ==
    \/ \E i \in DOMAIN acc, d \in DOMAIN dirty :
        acc[i].cell = dirty[d].cell /\ dirty[d].write
    \/ Len(dirty) + Len(acc) > DirtyCap

Conflict(dirty, acc) ==
    \/ \E i \in DOMAIN acc, d \in DOMAIN dirty :
        /\ acc[i].cell = dirty[d].cell
        /\ acc[i].write \/ dirty[d].write
    \/ Len(dirty) + Len(acc) > DirtyCap

\* The sequence after recording command e with its accesses: the barrier, if one is
\* needed, empties the table.
Recorded(s, e, acc) ==
    LET kept == IF s.n = 0 THEN <<>> ELSE s.dirty
        bar  == s.n > 0 /\ Conflict(kept, acc)
    IN  [s EXCEPT !.dirty = (IF bar THEN <<>> ELSE kept) \o acc,
                  !.batch = Append(@, [e EXCEPT !.bar = bar]),
                  !.n = @ + 1, !.inCmd = @ + 1]

\* Record the command entry a asks for; it takes the next number and is what the
\* program order has in the cells it writes from here on.
Record(a) ==
    LET id == IF a.put = NoWeight THEN count.ids + 1 ELSE a.put
        sees == [c \in DOMAIN a.weight \cup a.in |->
                    IF c \in DOMAIN a.weight THEN a.weight[c] ELSE prog[c]]
        e  == Command(id, sees, a.out, a.transfer)
        value == IF \E c \in a.in : prog[c] = Lost THEN Lost ELSE id
    IN  /\ seq' = Recorded(Opened(seq), e, Accesses(Inputs(e), a.out))
        /\ prog' = [c \in Cells |-> IF c \in a.out THEN value ELSE prog[c]]
        /\ held' = [held EXCEPT !.clean = @ \ a.out]
        /\ count' = [count EXCEPT !.ids = IF a.put = NoWeight THEN id ELSE @]

\* vk_seq_dispatch_acc: a full sequence is flushed first; every Rotate commands are
\* handed to the GPU.
DispatchAcc ==
    /\ At("dispatch")
    /\ IF seq.n >= MaxDispatch
       THEN todo' = Flush \o todo /\ UNCHANGED <<seq, prog, held, count>>
       ELSE /\ Record(Arg)
            /\ Then(IF seq'.inCmd >= Rotate
                    THEN <<[f |-> "roll", ring |-> RollRing]>> ELSE <<>>)
    /\ UNCHANGED <<deviceVars, mark, ring, answer>>

\* vk_buffer_copy: no room test, no rotation.
BufferCopy ==
    /\ At("copy")
    /\ Record(Arg)
    /\ Return
    /\ UNCHANGED <<deviceVars, mark, ring, answer>>

-----------------------------------------------------------------------------
(* Submitting: vk_seq_attach, vk_seq_roll, vk_seq_flush *)

Attach(s) ==
    (IF s.waitCopy # 0 THEN <<AwaitCopy(s.waitCopy)>> ELSE <<>>)
    \o s.batch
    \o (IF s.signalComp # 0 THEN <<Signal(s.signalComp)>> ELSE <<>>)

\* QueueSubmit of the open command buffer succeeds, or fails and drops it: nothing it
\* writes has a value then, and the next readback is to say so.
Submit(ok) ==
    IF ok
    THEN /\ gpu' = gpu \o Attach(seq)
         /\ UNCHANGED <<prog, count>>
    ELSE /\ count.lost < MaxLost
         /\ count' = [count EXCEPT !.lost = @ + 1, !.unreported = TRUE]
         /\ LET out == UNION {seq.batch[i].writes : i \in {j \in DOMAIN seq.batch :
                                                            IsCommand(seq.batch[j])}}
            IN  prog' = [c \in Cells |-> IF c \in out THEN Lost ELSE prog[c]]
         /\ UNCHANGED gpu

Rolled(s, ok) ==
    [s EXCEPT !.cmd = @ + 1, !.inCmd = 0, !.batch = <<>>, !.waitCopy = 0, !.signalComp = 0,
              !.failed = @ \/ ~ok]

CanRoll(limit) == seq.open /\ seq.inCmd > 0 /\ seq.cmd + 1 < limit

RollSubmit(ok) ==
    /\ Submit(ok)
    /\ seq' = Rolled(seq, ok)
    /\ mark' = [mark EXCEPT !.inOpen = FALSE]
    /\ UNCHANGED <<mem, xfer, tl, event, ring, held, answer>>

Roll ==
    /\ At("roll")
    /\ Return
    /\ IF CanRoll(Arg.ring)
       THEN \E ok \in BOOLEAN : RollSubmit(ok)
       ELSE UNCHANGED <<deviceVars, seq, mark, ring, prog, held, answer, count>>

\* Mutant: an earlier failure is forgotten by a flush that succeeds.
ClosedFresh(s, ok) ==
    [s EXCEPT !.open = FALSE, !.n = 0, !.dirty = <<>>, !.batch = <<>>,
              !.waitCopy = 0, !.signalComp = 0, !.failed = ~ok]

Closed(s, ok) ==
    [s EXCEPT !.open = FALSE, !.n = 0, !.dirty = <<>>, !.batch = <<>>,
              !.waitCopy = 0, !.signalComp = 0, !.failed = @ \/ ~ok]

\* vk_seq_flush up to its QueueSubmit; with the submission accepted it waits for the
\* fence, which covers everything submitted before.
SeqFlush ==
    /\ At("flush")
    /\ IF seq.open
       THEN \E ok \in BOOLEAN :
            /\ Submit(ok)
            /\ seq' = Closed(seq, ok)
            /\ mark' = [mark EXCEPT !.inOpen = FALSE]
            /\ Then((IF ok THEN <<Entry("fence")>> ELSE <<>>)
                    \o <<WaitMark(mark.n), Entry("rings")>>)
       ELSE Return /\ UNCHANGED <<gpu, seq, mark, prog, count>>
    /\ UNCHANGED <<mem, xfer, tl, event, ring, held, answer>>

AwaitFence ==
    /\ At("fence") /\ ComputeIdle
    /\ Return
    /\ UNCHANGED <<deviceVars, seq, mark, ring, prog, held, answer, count>>

\* The end of vk_seq_flush: both rings start over.
ResetRings ==
    /\ At("rings")
    /\ ring' = [ring EXCEPT !.x = 0, !.u = 0]
    /\ Return
    /\ UNCHANGED <<deviceVars, seq, mark, prog, held, answer, count>>

Cut == [f |-> "cut"]

SeqCut ==
    /\ At("cut")
    /\ IF ~seq.open \/ seq.inCmd = 0
       THEN /\ Return
            /\ UNCHANGED <<deviceVars, seq, mark, ring, prog, held, answer, count>>
       ELSE IF CanRoll(CmdBufs)
       THEN /\ Return
            /\ \E ok \in BOOLEAN : RollSubmit(ok)
       ELSE /\ Then(Flush)
            /\ UNCHANGED <<deviceVars, seq, mark, ring, prog, held, answer, count>>

-----------------------------------------------------------------------------
(* Marks: vk_seq_mark, vk_seq_wait_mark *)

\* Mutant: an empty command buffer is taken for nothing in flight.
SeqMarkIfRecorded ==
    /\ At("mark")
    /\ IF seq.open /\ seq.inCmd > 0
       THEN Then(<<WaitMark(mark.n), Entry("set mark")>>) /\ UNCHANGED held
       ELSE Return /\ held' = [mark |-> 0, clean |-> Tensors]
    /\ UNCHANGED <<deviceVars, seq, mark, ring, prog, answer, count>>

\* vk_submit_mark: nothing to mark unless something is recorded, else the mark before
\* is waited for first.
SeqMark ==
    /\ At("mark")
    /\ IF seq.open
       THEN Then(<<WaitMark(mark.n), Entry("set mark")>>) /\ UNCHANGED held
       ELSE Return /\ held' = [mark |-> 0, clean |-> Tensors]
    /\ UNCHANGED <<deviceVars, seq, mark, ring, prog, answer, count>>

\* The event goes into the open command buffer; it is no dispatch.
SetMark ==
    /\ At("set mark")
    /\ seq' = [seq EXCEPT !.batch = Append(@, SetEvent)]
    /\ mark' = [n |-> mark.n + 1, pending |-> TRUE, inOpen |-> TRUE]
    /\ held' = [mark |-> mark.n + 1, clean |-> Tensors]
    /\ Return
    /\ UNCHANGED <<deviceVars, ring, prog, answer, count>>

\* Mutant: the event is polled though its command buffer is still open.
WaitMarkUnsubmitted ==
    /\ At("wait_mark")
    /\ IF ~mark.pending \/ Arg.mark # mark.n THEN Return ELSE Then(<<Entry("spin")>>)
    /\ UNCHANGED <<deviceVars, seq, mark, ring, prog, held, answer, count>>

\* vk_seq_wait_mark: a mark that is not the pending one has been waited for.  One in the
\* open command buffer is submitted first, by a roll or, failing that, by a flush.
WaitMarkBegin ==
    /\ At("wait_mark")
    /\ IF ~mark.pending \/ Arg.mark # mark.n
       THEN Return
       ELSE Then((IF mark.inOpen THEN <<Cut, Entry("flush mark")>> ELSE <<>>)
                 \o <<Entry("spin")>>)
    /\ UNCHANGED <<deviceVars, seq, mark, ring, prog, held, answer, count>>

FlushMark ==
    /\ At("flush mark")
    /\ Then(IF mark.inOpen THEN Flush ELSE <<>>)
    /\ UNCHANGED <<deviceVars, seq, mark, ring, prog, held, answer, count>>

\* The host polls the event until it is set, or a submission has failed.
Spin ==
    /\ At("spin")
    /\ IF mark.pending
       THEN /\ event \/ seq.failed
            /\ event' = FALSE
            /\ mark' = [mark EXCEPT !.pending = FALSE]
       ELSE UNCHANGED <<event, mark>>
    /\ Return
    /\ UNCHANGED <<mem, gpu, xfer, tl, seq, ring, prog, held, answer, count>>
-----------------------------------------------------------------------------
(* Rings, readbacks and host writes *)

\* vk_xring_stage: the next place of the x ring, after a flush if it is full.
StageX ==
    /\ At("stage x")
    /\ IF ring.x >= XCap
       THEN todo' = Flush \o todo /\ UNCHANGED ring
       ELSE /\ ring' = [ring EXCEPT !.x = @ + 1]
            /\ Then(<<Copy({Arg.x}, {X(ring.x)}, NoWeight), Gemm(X(ring.x), Arg.y, Arg.w)>>)
    /\ UNCHANGED <<deviceVars, seq, mark, prog, held, answer, count>>

\* The host writes the indices into its place of the ring and records the kernel.
Gather(u) == <<HostWrite(u), Dispatch({Arg.x, u}, {Arg.y})>>

\* A weight in device memory is bound where it is.
GemmResident ==
    /\ At("gemm") /\ Arg.w = NoWeight
    /\ Then(<<Dispatch({Arg.x}, {Arg.y})>>)
    /\ UNCHANGED <<deviceVars, seq, mark, ring, prog, held, answer, count>>

\* vk_uring_reserve: a full ring, or a sequence the next dispatch would flush, is
\* flushed first.
ReserveU ==
    /\ At("reserve u")
    /\ IF ring.u >= UCap \/ seq.n + 1 >= MaxDispatch
       THEN todo' = Flush \o todo /\ UNCHANGED ring
       ELSE ring' = [ring EXCEPT !.u = @ + 1] /\ Then(Gather(U(ring.u)))
    /\ UNCHANGED <<deviceVars, seq, mark, prog, held, answer, count>>

HostStore(c) ==
    LET id == count.ids + 1
    IN  /\ mem' = [mem EXCEPT ![c] = id]
        /\ prog' = [prog EXCEPT ![c] = id]
        /\ held' = [held EXCEPT !.clean = @ \ {c}]
        /\ count' = [count EXCEPT !.ids = id]

Write ==
    /\ At("write")
    /\ HostStore(Arg.cell)
    /\ Return
    /\ UNCHANGED <<gpu, xfer, tl, event, seq, mark, ring, answer>>

\* vk_seq_take_failure, then the host's copy out of the mapped buffer.
ReadBack ==
    /\ At("read")
    /\ IF seq.failed
       THEN /\ answer' = NoAnswer
            /\ seq' = [seq EXCEPT !.failed = FALSE]
            /\ count' = [count EXCEPT !.unreported = FALSE]
       ELSE /\ answer' = [ok |-> TRUE, got |-> mem[Arg.cell], want |-> prog[Arg.cell],
                          missed |-> count.unreported]
            /\ UNCHANGED <<seq, count>>
    /\ Return
    /\ UNCHANGED <<deviceVars, mark, ring, prog, held>>

-----------------------------------------------------------------------------
(* The calls of the backend *)

Begin(entries) ==
    /\ todo = <<>>
    /\ count.calls < MaxCalls
    /\ todo' = entries
    /\ answer' = NoAnswer
    /\ count' = [count EXCEPT !.calls = @ + 1]
    /\ UNCHANGED <<deviceVars, seq, mark, ring, prog, held>>

\* A kernel: norm, activation, attention, ...
Kernel(k) == Begin(<<Dispatch(k.in, k.out)>>)

\* vk_buffer_copy on the device; a range copied onto itself is no copy.
CopyBuffer(from, to) == Begin(<<Copy({from}, {to}, NoWeight)>>)

\* vk_linear_t with a resident weight and activations in host memory.
StagedX(x, y, w) == [f |-> "stage x", x |-> x, y |-> y, w |-> w]
Linear(x, y) == Begin(<<StagedX(x, y, NoWeight)>>)

\* vk_rows_gather: the indices go through the upload ring.
RowsGather(x, y) ==
    Begin(<<[f |-> "reserve u", x |-> x, y |-> y]>>)

\* vk_argmax.
Argmax(x, y) == Begin(<<Dispatch({x}, {y})>> \o Flush \o <<Read(y)>>)

\* vk_buffer_download, vk_buffer_map for reading.
Download(c) == Begin(Flush \o <<Read(c)>>)

\* vk_buffer_upload.
Upload(c) == Begin(Flush \o <<HostWrite(c)>>)

Submission == Begin(<<Cut>>)

\* The caller keeps one mark outstanding at a time (geist_backend.h).
SubmitMark == ~mark.pending /\ Begin(<<Entry("mark")>>)

MapMarked(c) ==
    c \in held.clean /\ Begin(<<WaitMark(held.mark), Read(c)>>)

Calls ==
    \/ \E k \in Kernels : Kernel(k)
    \/ \E c \in Tensors : \E d \in Tensors \ {c} :
        CopyBuffer(c, d) \/ Linear(c, d) \/ RowsGather(c, d) \/ Argmax(c, d)
    \/ \E c \in Tensors : Download(c) \/ Upload(c) \/ MapMarked(c)
    \/ Submission \/ SubmitMark

HostStep ==
    \/ DispatchAcc \/ BufferCopy \/ Roll \/ SeqFlush \/ AwaitFence \/ ResetRings
    \/ SeqCut \/ SeqMark \/ SetMark \/ WaitMarkBegin \/ FlushMark \/ Spin
    \/ StageX \/ GemmResident \/ ReserveU \/ Write \/ ReadBack

Next == Calls \/ HostStep \/ (ComputeStep /\ UNCHANGED hostVars)

Spec == Init /\ [][Next]_vars

\* The host's thread runs, and the device works off what is submitted.
FairSpec == Spec /\ WF_vars(HostStep) /\ WF_vars(ComputeStep /\ UNCHANGED hostVars)

-----------------------------------------------------------------------------
\* While no submission has failed, every kernel computes on the inputs of program order:
\* no barrier the hazard table elided was needed, across rolls, marks and flushes, and no
\* ring place is written by the host or a copy while a kernel still reads it.
KernelsSeeProgramOrder == count.lost = 0 => \A c \in Cells : mem[c] # Wrong

\* While no submission has failed, what a readback hands to the host is what the calls
\* before it wrote: a flush, an argmax and a mark all wait for as much as they must.
HostReadsResults == answer.ok /\ count.lost = 0 => answer.got = answer.want

\* The first readback after a submission was dropped fails: no call in between hands the
\* host data of a batch that never ran.
FailureReachesReadback == answer.ok => ~answer.missed

\* Every call of the backend returns: the host waits neither for a command buffer it has
\* not submitted nor for an event that is never set, dropped submissions included.
EveryCallReturns == []<>(todo = <<>>)
=============================================================================
