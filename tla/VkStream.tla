------------------------------- MODULE VkStream -------------------------------
(***************************************************************************)
(* Weights that live in host memory and are copied to VRAM before a GEMM     *)
(* reads them (backends/vulkan/ops.c), on top of the batched submission:     *)
(*  - streaming: two slots, filled one ahead by the transfer queue, each     *)
(*    GEMM in a submission that waits for its copy and signals when done;    *)
(*  - staging: one slot per weight of a set, all copied by one submission    *)
(*    that waits for the readers of the set before.                          *)
(* Two queues and a host wait for one another through timeline semaphores;   *)
(* slot cells hold weights, so a GEMM that runs on another weight, or on one *)
(* half copied, has wrong inputs (VkDevice).                                 *)
(***************************************************************************)
EXTENDS VkSequence

CONSTANTS
    Weights,      \* weights in host memory
    Size(_),      \* bytes of a weight, in units
    Linears,      \* operands of a linear, and whether x is in host memory and is staged
    StageSlots,   \* staging slots (vk_stage_reserve_slots)
    Parts,        \* dispatches of one GEMM: 1, or 2 for a head and a tail
    Async         \* the device has a transfer queue (xq_on at the start)

W(k) == <<"w", k>>     \* streaming slot k
S(i) == <<"s", i>>     \* staging slot i

ASSUME StreamAssumption ==
    /\ NoWeight \notin Weights
    /\ Linears \subseteq [x : Tensors, y : Tensors, staged : BOOLEAN]
    /\ \A w \in Weights : Size(w) \in Nat \ {0}
    /\ StageSlots \in Nat /\ Parts \in Nat \ {0} /\ Async \in BOOLEAN
    /\ {W(0), W(1)} \cup {S(i) : i \in 1 .. StageSlots} \subseteq Cells

VARIABLES
    stream,   \* xq_on, wslot_next, wslot_reader (-1: none), stream_prev, and whether
              \* streaming has not been turned off (stream_m_min)
    tlVal,    \* tl_copy_val, tl_comp_val: last values handed out
    slot,     \* slot[k]: its size, wslot_src, wslot_ready, wslot_free
    follows,  \* follows[w]: stream_next, the weight streamed after w last time
    stage     \* stage_ready, stage_free, stage_unwaited; of[w]: the slot bound to w, or 0;
              \* split: a GEMM on a staged weight has been split over submissions

streamVars == <<stream, tlVal, slot, follows, stage>>
allVars == <<vars, streamVars>>

StreamInit ==
    /\ SequenceInit
    /\ prog = [c \in Cells |-> 0]
    /\ DeviceInit(prog)
    /\ stream = [on |-> Async, off |-> FALSE, next |-> 0, reader |-> -1, prev |-> NoWeight]
    /\ tlVal = [copy |-> 0, comp |-> 0]
    /\ slot = [k \in 0 .. 1 |-> [size |-> 0, src |-> NoWeight, ready |-> 0, free |-> 0]]
    /\ follows = [w \in Weights |-> NoWeight]
    /\ stage = [ready |-> 0, free |-> 0, unwaited |-> FALSE, of |-> [w \in Weights |-> 0],
                split |-> FALSE]

Other(k) == 1 - k
Later(v, w) == IF v > w THEN v ELSE w

\* Mutant: a value is handed out twice.
SameComp == tlVal.comp

\* The next value of tl_comp to hand out.
NextComp == tlVal.comp + 1

\* Mutant: a copy waits for the GEMM it is made for.
NextReader(k) == tlVal.comp + 1

\* The tl_comp value a copy into slot k waits for: its last reader is done.
LastReader(k) == slot[k].free

\* Mutant: the GEMM's submission does not wait for its copy.
AwaitNothing(v) == seq.waitCopy

\* What the open command buffer waits for when its GEMM needs copy v.
AwaitAlso(v) == Later(v, seq.waitCopy)

HostStays == UNCHANGED <<mark, ring, prog, held, answer, count>>
DeviceStays == UNCHANGED deviceVars

-----------------------------------------------------------------------------
(* vk_linear_t: the dispatches of GEMM g on weight cell c, then vk_weight_done *)

Dispatches(g, c) ==
    [i \in 1 .. Parts |-> WeightDispatch({g.x}, c :> g.w, {g.y})] \o <<Entry("weight done")>>

\* The GEMM's submission signals tl_comp, which frees its slot; it is cut off here, so
\* that nothing recorded later delays the signal.
WeightDone ==
    /\ At("weight done")
    /\ IF stream.reader < 0
       THEN Return /\ UNCHANGED <<seq, streamVars>>
       ELSE LET v == NextComp
            IN  /\ tlVal' = [tlVal EXCEPT !.comp = v]
                /\ seq' = [seq EXCEPT !.signalComp = v]
                /\ slot' = [slot EXCEPT ![stream.reader].free = v]
                /\ stream' = [stream EXCEPT !.reader = -1]
                /\ Then(<<Cut>>)
                /\ UNCHANGED <<follows, stage>>
    /\ DeviceStays /\ HostStays

-----------------------------------------------------------------------------
(* Streaming: vk_weight_bind, vk_xq_copy *)

\* Copy weight src into slot k for GEMM g, ahead of its use or not.
XqCopy(k, src, g, ahead) == [f |-> "xq copy", k |-> k, src |-> src, gemm |-> g, ahead |-> ahead]
Bound(k, g) == [f |-> "bound", k |-> k, gemm |-> g]
XqOff(k, g) == [f |-> "xq off", k |-> k, gemm |-> g]
InBatch(k, g) == <<Copy({}, {W(k)}, g.w)>> \o Dispatches(g, W(k))

Holds(w) == {k \in 0 .. 1 : stream.on /\ slot[k].src = w}

\* The slot for a streamed weight: the one it is in or on its way to, else the next.  A
\* slot too small is made anew, with both queues idle.
GemmStreamed ==
    /\ At("gemm") /\ Arg.w # NoWeight /\ stage.of[Arg.w] = 0 /\ ~stream.off
    /\ \E k \in IF Holds(Arg.w) # {} THEN {IF 0 \in Holds(Arg.w) THEN 0 ELSE 1}
                                     ELSE {stream.next} :
        IF slot[k].size < Size(Arg.w)
        THEN /\ stream' = [stream EXCEPT !.next = k]
             /\ todo' = Flush \o (IF stream.on THEN <<Entry("xq idle")>> ELSE <<>>)
                        \o <<[f |-> "new slot", k |-> k, w |-> Arg.w]>> \o todo
        ELSE /\ stream' = [stream EXCEPT !.next = IF stream.on THEN k ELSE Other(k)]
             /\ Then(IF ~stream.on THEN InBatch(k, Arg)
                     ELSE IF Holds(Arg.w) = {} THEN <<XqCopy(k, Arg.w, Arg, FALSE)>>
                     ELSE <<Cut, Bound(k, Arg)>>)
    /\ UNCHANGED <<seq, tlVal, slot, follows, stage>>
    /\ DeviceStays /\ HostStays

\* With streaming turned off the GEMM reads host memory.
GemmOverBus ==
    /\ At("gemm") /\ Arg.w # NoWeight /\ stage.of[Arg.w] = 0 /\ stream.off
    /\ Then([i \in 1 .. Parts |-> Dispatch({Arg.x}, {Arg.y})] \o <<Entry("weight done")>>)
    /\ UNCHANGED <<seq, streamVars>>
    /\ DeviceStays /\ HostStays

XqIdle ==
    /\ At("xq idle") /\ TransferIdle
    /\ Return
    /\ UNCHANGED <<seq, streamVars>>
    /\ DeviceStays /\ HostStays

\* The old slot is destroyed and a larger one made; what that holds is undefined.  With no
\* memory left, streaming is turned off.
NewSlot ==
    /\ At("new slot")
    /\ \E made \in BOOLEAN :
        /\ slot' = [slot EXCEPT ![Arg.k].size = IF made THEN Size(Arg.w) ELSE 0,
                                ![Arg.k].src = IF stream.on THEN NoWeight ELSE @]
        /\ stream' = [stream EXCEPT !.off = ~made]
    /\ mem' = [mem EXCEPT ![W(Arg.k)] = 0]
    /\ Return
    /\ UNCHANGED <<gpu, xfer, tl, event, seq, tlVal, follows, stage>>
    /\ HostStays

\* vk_xq_copy: the host waits for the slot's last copy, the new one waits on the device
\* for the slot's last reader.  A failing submission turns the transfer queue off.
XqCopyStep ==
    /\ At("xq copy")
    /\ tl.copy >= slot[Arg.k].ready
    /\ \/ LET sig == tlVal.copy + 1
          IN  /\ xfer' = Append(xfer, Transfer(W(Arg.k) :> Arg.src, LastReader(Arg.k), sig))
              /\ tlVal' = [tlVal EXCEPT !.copy = sig]
              /\ slot' = [slot EXCEPT ![Arg.k].ready = sig, ![Arg.k].src = Arg.src]
              /\ Then(IF Arg.ahead THEN Dispatches(Arg.gemm, W(Other(Arg.k)))
                      ELSE <<Cut, Bound(Arg.k, Arg.gemm)>>)
       \/ /\ Then(<<XqOff(IF Arg.ahead THEN Other(Arg.k) ELSE Arg.k, Arg.gemm)>>)
          /\ UNCHANGED <<xfer, tlVal, slot>>
    /\ UNCHANGED <<mem, gpu, tl, event, seq, stream, follows, stage>>
    /\ HostStays

\* After the cut: the GEMM's submission waits for its slot's copy, the weight before it
\* learns its successor, and the successor of this one is fetched into the other slot.
BoundStep ==
    /\ At("bound")
    /\ LET w == Arg.gemm.w
           k == Arg.k
           ahead == follows'[w]
       IN  /\ follows' = IF stream.prev \in {NoWeight, w} THEN follows
                         ELSE [follows EXCEPT ![stream.prev] = w]
           /\ seq' = [seq EXCEPT !.waitCopy = AwaitAlso(slot[k].ready)]
           /\ stream' = [stream EXCEPT !.prev = w, !.reader = k, !.next = Other(k)]
           /\ Then(IF /\ ahead \notin {NoWeight, w}
                      /\ slot[Other(k)].src # ahead
                      /\ slot[Other(k)].size >= Size(ahead)
                   THEN <<XqCopy(Other(k), ahead, Arg.gemm, TRUE)>>
                   ELSE Dispatches(Arg.gemm, W(k)))
    /\ UNCHANGED <<tlVal, slot, stage>>
    /\ DeviceStays /\ HostStays

\* The transfer queue failed: once it is idle, copies stay in the batch.
XqOffStep ==
    /\ At("xq off") /\ TransferIdle
    /\ stream' = [stream EXCEPT !.on = FALSE, !.reader = -1, !.next = Other(@)]
    /\ Then(InBatch(Arg.k, Arg.gemm))
    /\ UNCHANGED <<seq, tlVal, slot, follows, stage>>
    /\ DeviceStays /\ HostStays

-----------------------------------------------------------------------------
(* Staging: vk_stage_weights, vk_stage_read *)

\* Unbind the set before; then copy the new one, on the transfer queue or in the batch.
\* What is recorded so far may carry the signal the copies are to wait for.
StageBegin ==
    /\ At("stage weights")
    /\ stage' = [stage EXCEPT !.unwaited = FALSE, !.of = [w \in Weights |-> 0]]
    /\ Then(IF stream.on
            THEN (IF seq.signalComp # 0 THEN <<Cut>> ELSE <<>>)
                 \o <<[f |-> "stage copy", ws |-> Arg.ws]>>
            ELSE [i \in DOMAIN Arg.ws |-> Copy({}, {S(i)}, Arg.ws[i])]
                 \o <<[f |-> "staged", ws |-> Arg.ws]>>)
    /\ UNCHANGED <<seq, stream, tlVal, slot, follows>>
    /\ DeviceStays /\ HostStays

\* A failing submission leaves the set unbound; the caller gets an error.
StageCopy ==
    /\ At("stage copy")
    /\ tl.copy >= stage.ready
    /\ \/ LET sig == tlVal.copy + 1
              put == [c \in {S(i) : i \in DOMAIN Arg.ws} |-> Arg.ws[c[2]]]
          IN  /\ xfer' = Append(xfer, Transfer(put, stage.free, sig))
              /\ tlVal' = [tlVal EXCEPT !.copy = sig]
              /\ stage' = [stage EXCEPT !.ready = sig, !.unwaited = TRUE]
              /\ Then(<<[f |-> "staged", ws |-> Arg.ws]>>)
       \/ Return /\ UNCHANGED <<xfer, tlVal, stage>>
    /\ UNCHANGED <<mem, gpu, tl, event, seq, stream, slot, follows>>
    /\ HostStays

Staged ==
    /\ At("staged")
    /\ stage' = [stage EXCEPT !.of = [w \in Weights |->
                    IF w \in Range(Arg.ws) THEN CHOOSE i \in DOMAIN Arg.ws : Arg.ws[i] = w
                    ELSE 0]]
    /\ Return
    /\ UNCHANGED <<seq, stream, tlVal, slot, follows>>
    /\ DeviceStays /\ HostStays

\* A staged weight: the first reader after the copies starts a submission.
GemmStaged ==
    /\ At("gemm") /\ Arg.w # NoWeight /\ stage.of[Arg.w] # 0
    /\ Then(IF stream.on
            THEN (IF stage.unwaited THEN <<Cut>> ELSE <<>>)
                 \o <<[f |-> "stage read", gemm |-> Arg]>>
            ELSE Dispatches(Arg, S(stage.of[Arg.w])))
    /\ UNCHANGED <<seq, streamVars>>
    /\ DeviceStays /\ HostStays

\* vk_stage_read after its cut: the submission waits for the copies, and the value it
\* will signal frees the slots.
StageRead ==
    /\ At("stage read")
    /\ LET new == seq.signalComp = 0
           v   == IF new THEN NextComp ELSE seq.signalComp
       IN  /\ tlVal' = [tlVal EXCEPT !.comp = IF new THEN v ELSE @]
           /\ seq' = [seq EXCEPT !.signalComp = v,
                                 !.waitCopy = IF stage.unwaited THEN AwaitAlso(stage.ready) ELSE @]
           /\ stage' = [stage EXCEPT !.unwaited = FALSE, !.free = v]
    /\ Then(Dispatches(Arg.gemm, S(stage.of[Arg.gemm.w])))
    /\ UNCHANGED <<stream, slot, follows>>
    /\ DeviceStays /\ HostStays

-----------------------------------------------------------------------------
(* Calls: linears with the activations in host memory (staged through the x ring) or   *)
(* in place, a new staged set, and from VkSequence kernels and readbacks.              *)

SpilledLinear(l, w) ==
    Begin(<<IF l.staged THEN StagedX(l.x, l.y, w) ELSE Gemm(l.x, l.y, w)>>)

StageWeights(ws) == Begin(<<[f |-> "stage weights", ws |-> ws]>>)

StreamCalls ==
    \/ \E l \in Linears, w \in Weights : SpilledLinear(l, w)
    \/ \E n \in 1 .. StageSlots : \E ws \in [1 .. n -> Weights] :
        IsInjective(ws) /\ StageWeights(ws)
    \/ \E k \in Kernels : Kernel(k)
    \/ \E c \in Tensors : Download(c)

StreamStep ==
    \/ WeightDone \/ GemmStreamed \/ GemmOverBus \/ XqIdle \/ NewSlot \/ XqCopyStep
    \/ BoundStep \/ XqOffStep \/ StageBegin \/ StageCopy \/ Staged \/ GemmStaged \/ StageRead

\* The submission that is to free the staging slots goes off before the last dispatch of
\* their GEMM: a rotation, or the flush of a full sequence, falls between its dispatches.
SplitsStaged ==
    /\ seq.signalComp # 0 /\ seq'.signalComp = 0
    /\ \E i \in DOMAIN todo' :
        /\ todo'[i].f = "dispatch"
        /\ DOMAIN todo'[i].weight \cap {S(n) : n \in 1 .. StageSlots} # {}

SequenceStep ==
    /\ HostStep
    /\ stage' = [stage EXCEPT !.split = @ \/ SplitsStaged]
    /\ UNCHANGED <<stream, tlVal, slot, follows>>

HostRuns    == StreamStep \/ SequenceStep
ComputeRuns == ComputeStep /\ UNCHANGED <<hostVars, streamVars>>
CopiesRun   == TransferStep /\ UNCHANGED <<hostVars, streamVars>>

StreamNext == (StreamCalls /\ UNCHANGED streamVars) \/ HostRuns \/ ComputeRuns \/ CopiesRun

StreamSpec == StreamInit /\ [][StreamNext]_allVars

FairStreamSpec ==
    /\ StreamSpec
    /\ WF_allVars(HostRuns) /\ WF_allVars(ComputeRuns) /\ WF_allVars(CopiesRun)

-----------------------------------------------------------------------------
\* No GEMM computes on another weight than the one it is given: a slot, streamed or
\* staged, is not overwritten before the last reader of what it holds, nor read before
\* the copy into it is complete; and no barrier that was elided is missed.  Not once a
\* staged GEMM has been split over submissions: vk_stage_read asks for one signal for
\* all its dispatches, the first submission takes it, and the next copies wait for that
\* (KernelsSeeProgramOrder is violated then).
WeightsSeeProgramOrder == ~stage.split => KernelsSeeProgramOrder

\* What the queues still have to signal on tl_comp rises strictly: a value is never
\* signalled twice, nor a lower one after a higher (a rule of timeline semaphores, kept
\* by hand across streamed and staged GEMMs, cuts and flushes).
SignalsRise ==
    LET signals == {i \in DOMAIN gpu : gpu[i].kind = "signal"}
    IN  /\ \A i \in signals : tl.comp < gpu[i].val
        /\ \A i, j \in signals : i < j => gpu[i].val < gpu[j].val
        /\ seq.signalComp # 0 => /\ tl.comp < seq.signalComp
                                 /\ \A i \in signals : gpu[i].val < seq.signalComp

=============================================================================
