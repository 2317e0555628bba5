------------------------------- MODULE VkDevice -------------------------------
(***************************************************************************)
(* What the Vulkan backend uses of the device: a compute queue, a transfer   *)
(* queue, the timeline semaphores between them and one event the host polls. *)
(* External: the semantics are those of the Vulkan calls the backend makes.  *)
(*                                                                           *)
(* Commands of one queue START in any order that respects pipeline barriers  *)
(* and semaphore waits and FINISH in any order at all.  A command computes   *)
(* for as long as it runs: what it writes is torn meanwhile, and it writes   *)
(* its own number only if every cell it reads held, at its start and at its  *)
(* end, the value the program means it to see.                               *)
(***************************************************************************)
EXTENDS Integers, Sequences, SequencesExt

CONSTANTS
    Cells,       \* disjoint regions of device and host-visible memory
    Torn,        \* the value of a cell a command is writing
    Wrong,       \* the value of one computed from wrong inputs
    Lost         \* the value of one whose writer was dropped: anything

ASSUME ValuesAssumption ==
    Torn # Wrong /\ {Torn, Wrong, Lost} \cap Nat = {}   \* none is a command's number

VARIABLES
    mem,    \* mem[c]: the number of the command that wrote cell c last, a weight, or
            \* one of the above
    gpu,    \* compute queue: submitted and not finished, in submission order
    xfer,   \* transfer queue: submitted copies whose signal is not up yet
    tl,     \* timeline semaphores: copy (tl_copy) and comp (tl_comp)
    event   \* mark_event is set

deviceVars == <<mem, gpu, xfer, tl, event>>

Command(id, sees, writes, transfer) ==
    [kind |-> "command", id |-> id, sees |-> sees, writes |-> writes,
     transfer |-> transfer, bar |-> FALSE, running |-> FALSE, right |-> TRUE]
SetEvent   == [kind |-> "event"]
Signal(v)  == [kind |-> "signal", val |-> v]
AwaitCopy(v) == [kind |-> "wait", val |-> v]

IsCommand(e) == e.kind = "command"
SeesRight(e, S) ==
    \A c \in S : e.sees[c] = Lost \/ mem[c] = e.sees[c]
Inputs(e) == DOMAIN e.sees

\* A pipeline barrier orders all earlier commands before all later ones; a
\* semaphore wait holds the compute stage of all later commands.
MayStart(i) ==
    /\ IsCommand(gpu[i]) /\ ~gpu[i].running
    /\ \A k \in 1 .. i - 1 :
        /\ gpu[k].kind = "wait" => gpu[i].transfer
        /\ IsCommand(gpu[k]) => \A j \in k + 1 .. i : IsCommand(gpu[j]) => ~gpu[j].bar

Start(i) ==
    /\ MayStart(i)
    /\ gpu' = [gpu EXCEPT ![i].running = TRUE, ![i].right = SeesRight(gpu[i], Inputs(gpu[i]))]
    /\ mem' = [c \in Cells |-> IF c \in gpu[i].writes THEN Torn ELSE mem[c]]
    /\ UNCHANGED <<xfer, tl, event>>

Finish(i) ==
    /\ IsCommand(gpu[i]) /\ gpu[i].running
    /\ LET e == gpu[i]
           right == e.right /\ SeesRight(e, Inputs(e) \ e.writes)
       IN  mem' = [c \in Cells |-> IF c \in e.writes THEN IF right THEN e.id ELSE Wrong
                                   ELSE mem[c]]
    /\ gpu' = RemoveAt(gpu, i)
    /\ UNCHANGED <<xfer, tl, event>>

NoCommandBefore(i) == \A k \in 1 .. i - 1 : ~IsCommand(gpu[k])

\* vkCmdSetEvent and the signal of a submission wait for everything before them.
EventSet(i) ==
    /\ gpu[i].kind = "event" /\ NoCommandBefore(i)
    /\ event' = TRUE
    /\ gpu' = RemoveAt(gpu, i)
    /\ UNCHANGED <<mem, xfer, tl>>

SignalComp(i) ==
    /\ gpu[i].kind = "signal"
    /\ \A k \in 1 .. i - 1 : gpu[k].kind = "event"
    /\ tl' = [tl EXCEPT !.comp = gpu[i].val]
    /\ gpu' = RemoveAt(gpu, i)
    /\ UNCHANGED <<mem, xfer, event>>

PassWait(i) ==
    /\ gpu[i].kind = "wait" /\ tl.copy >= gpu[i].val
    /\ gpu' = RemoveAt(gpu, i)
    /\ UNCHANGED <<mem, xfer, tl, event>>

ComputeStep ==
    \E i \in 1 .. Len(gpu) :
        Start(i) \/ Finish(i) \/ EventSet(i) \/ SignalComp(i) \/ PassWait(i)

\* A submission of the transfer queue copies weights: put maps cells to them.
Transfer(put, wait, sig) == [put |-> put, wait |-> wait, sig |-> sig, st |-> "queued"]

\* A slot is torn while its bytes change; the weight it holds already changes none.
CopyStart(i) ==
    /\ xfer[i].st = "queued"
    /\ \A k \in 1 .. i : tl.comp >= xfer[k].wait
    /\ mem' = [c \in Cells |-> IF c \in DOMAIN xfer[i].put /\ mem[c] # xfer[i].put[c]
                               THEN Torn ELSE mem[c]]
    /\ xfer' = [xfer EXCEPT ![i].st = "running"]
    /\ UNCHANGED <<gpu, tl, event>>

CopyFinish(i) ==
    /\ xfer[i].st = "running"
    /\ mem' = [c \in Cells |-> IF c \in DOMAIN xfer[i].put THEN xfer[i].put[c] ELSE mem[c]]
    /\ xfer' = [xfer EXCEPT ![i].st = "landed"]
    /\ UNCHANGED <<gpu, tl, event>>

\* Signals come up in the order of the submissions.
SignalCopy ==
    /\ xfer # <<>> /\ Head(xfer).st = "landed"
    /\ tl' = [tl EXCEPT !.copy = Head(xfer).sig]
    /\ xfer' = Tail(xfer)
    /\ UNCHANGED <<mem, gpu, event>>

TransferStep ==
    \/ \E i \in 1 .. Len(xfer) : CopyStart(i) \/ CopyFinish(i)
    \/ SignalCopy

DeviceInit(contents) ==
    /\ mem = contents
    /\ gpu = <<>> /\ xfer = <<>>
    /\ tl = [copy |-> 0, comp |-> 0]
    /\ event = FALSE

ComputeIdle  == gpu = <<>>
TransferIdle == xfer = <<>>
=============================================================================
