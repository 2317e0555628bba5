# geistlib in TLA+

Specifications of the parts of geistlib whose correctness depends on order,
interleaving or bookkeeping across calls, the TLC runs that check small
instances of them, and theorems proved with TLAPS. Paths are relative to the
repository; the library's own code is under `src/`, its public headers under
`include/`.

## The system

geistlib runs language models in process. Its layers, bottom up:

| Part | State it keeps | Operations | What can go wrong |
|---|---|---|---|
| `src/base/par.c` thread pool | one global pool: published word, task, per-worker `done`, `sleeping`, mutex, condition variable | `geist_par_for`, pull and chunked forms | lost wakeups, a task read by a late worker, a body that waits for its own thread, ranges that overlap |
| `src/base` (rest), `src/io`, `src/formats`, `src/quant` | files, arenas | loading and packing weights | sequential; parsing |
| `src/backends/vulkan` | one command sequence: open command buffer, hazard table, rolls in flight, a mark, the x and upload rings; streaming and staging slots, two timelines | dispatches, copies, linears, flush, cut, mark, readback | a barrier left out that was needed, a ring place reused too early, a readback that does not wait, two queues waiting on each other |
| `src/backends/metal` | one command sequence for all sessions of a model: owner and lock, open and pending command buffers, the set of referenced buffers | regions, dispatches, flush before host access, copies, argmax | a host access beside the GPU, another session's work in one's own sequence, a lock kept |
| `src/backends` (rest) | none that outlives an operation | kernels behind a vtable | numeric; any operation may fail |
| `src/archs/transformer` | per session: KV cache and its length, DeltaNet recurrence, pending logits, owed forward, speculative transaction, checkpoints, KIVI counters, pinned prefix | prefill, decode, verify, truncate, reset, snapshot | calls in every order over state that several functions keep by hand; failing steps; cancellation |
| `src/archs/audio_conformer` | a streaming encoder with a worker thread | begin, push, poll, end | queues, shutdown |
| `src/archs/vision_siglip` | none between calls | encode | numeric |
| `src/engine/session.c` | the session: cancel flag, audio turn, draft session | the public calls, speculation on top of the architecture's operations | a step of several fails; tokens handed out twice or never; target and draft out of step |
| `src/engine` (rest), `src/sampling` | models, backends, tokenizer, sampler | load, tokenize, sample, decide | sequential |

They interact by direct calls: the engine reaches the architecture through
`geist_arch_ops_decoder`, the architecture reaches a backend through its vtable,
and every CPU kernel reaches the pool through `geist_par_for`. A session
belongs to one thread; the only call another thread may make on it is
`geist_session_cancel`. The pool is shared by all threads of the process, the
Metal sequence by the sessions of a model, the audio encoder by a session and
its worker. The GPU backends run behind their caller: a call returns when its
work is recorded, and the device takes it up later.

What makes each part correct:

* pool: each item of a call runs exactly once, the call returns after all of
  them and does return;
* session: the caller sees a text that grows by what it prefilled and by the
  model's own continuation, and shrinks only when it asks; the owed forward,
  chunking, transactions and row states do not show;
* recurrence: it has absorbed exactly the cached positions;
* batch: it gives each member what its own decode step would have given, to all
  members or to none, and whatever the others do;
* KIVI cache: attention finds at each position the row of that position;
* speculation: the stream is the target's own greedy one whatever the drafter
  does, and the draft session stays level with the history;
* command sequences: a kernel computes on what program order gave its inputs,
  though most barriers are left out; the host reads what its calls have written;
  a failed submission is reported; every call returns; on Metal a sequence holds
  one session's work, and the lock is given back;
* audio turn: the tokens of a streamed turn are those of the whole turn encoded
  at once.

## Modules

| Module | Models |
|---|---|
| `ParFor` | what `par.h` promises of a parallel for |
| `ParPool` | the pthread pool of `par.c`, each shared access a step |
| `MCParPool` | instances |
| `Conversation` | what `geist_util.h` promises of a session |
| `SessionOps` | the operations of a transformer session, as functions from a state to its possible outcomes |
| `Session` | a session driven through the public calls, and cancelled |
| `SessionOpsProofs` | lemmas: what each operation of `SessionOps` does to the invariants, and which step of a conversation it is |
| `SessionProofs` | the session's invariants, that it is a `Conversation`, and its promises about refusals, cancels and failures, proved |
| `MCSession` | instances |
| `KiviCache` | the KIVI KV cache under the session calls |
| `MCKiviCache` | instances |
| `CpuProofs` | the pool's invariants, that every item runs once, that the pool is a `ParFor`, and the KIVI cache's invariants, proved |
| `AudioStream` | the streaming audio turn: the session's calls, the encoder and its worker thread |
| `AudioStreamProofs` | the turn's invariants, proved |
| `MCAudioStream` | instances |
| `Speculation` | `geist_session_decode_speculative` with a draft session, the model's draft head (MTP) or n-grams, both sessions from `SessionOps` |
| `SpeculationProofs` | that a speculative stream is the target's own, and that both sessions keep their invariants, proved |
| `MCSpeculation` | instances: two models that agree on some sequences only, and a target with a draft head |
| `SessionBatch` | `geist_session_decode_batch` over sessions from `SessionOps` |
| `SessionBatchProofs` | that each member of a batch is a `Conversation`, and that a batch is all or nothing, proved |
| `MCSessionBatch` | instances |
| `VkDevice` | the Vulkan device (external): memory, a compute and a transfer queue, timelines, an event |
| `VkSequence` | the batched submission of the Vulkan backend, on `VkDevice` |
| `MCVkSequence` | instances |
| `VkStream` | streaming and staging of weights, on `VkSequence` |
| `VkProofs` | that kernels and the host see program order, that dropped submissions are reported and that `tl_comp` rises, proved |
| `MCVkStream` | instances, and the state after a chunk |
| `MetalSequence` | the Metal backend's command sequence, shared by sessions |
| `MetalSequenceProofs` | its types, its privacy, its lock and the order its commands and reads see, proved |
| `MCMetalSequence` | instances |

`Session`, `Speculation` and `SessionBatch` build on `SessionOps`: one session,
a target and its draft (`D` is the draft's instance), and the members of a
batch. All three are checked against what `Conversation` says, `Session` and
`SessionBatch` as a refinement, the latter for each member. `VkStream` extends
`VkSequence`, which extends `VkDevice`; `ParPool` refines `ParFor`.

Definitions named as a mutant in their comment are deliberate mistakes. They
are used nowhere; each shows, put in the place of the definition below it,
that the property it is meant for can fail.

### ParPool

`lock`, `nWorkers`, `word`, `task` are the fields of `g_pool`; `done`,
`sleeping`, `mu` those of `struct par_worker`. `wpc` and `seen` are a worker's
place and the local it compares with the word; `cpc`, `req` and `idx` are a
caller's. `inside` is `tl_inside` of a calling thread. Each action is one
shared access or one stretch of code between two: `Publish` is the store of
`word`, `LookSleeping` one turn of the wake loop, `SetSleeping` and `Check` the
two halves of the race with it. `Grow` is `ensure_workers`, whose
`pthread_create` may fail at any worker. A wait on a condition variable may
wake by itself. A body is the set of items it takes: its range, or one item per
`Claim` of the pull counter; a body that calls `geist_par_for` is blocked
unless `inside` is set, because its thread holds the pool lock. Memory is
sequentially consistent, which is what the seq_cst and the release/acquire
pairs of the code give for the accesses modelled.

The OpenMP and GCD builds hand the loop to those runtimes and are not modelled.

### SessionOps and Session

A state is a record with the fields of `struct transformer_arch_session` that
decide behaviour. A K/V row is the token of its position; the recurrent state
is the sequence it has absorbed, and since it cannot be rewound a mistake shows
as a different sequence. The prediction is `Predict` of what it was computed
from, so it is stale exactly when that is no longer the session's content.
Whether the model is recurrent, and whether the backend keeps a verify's row
states, is fixed when the session is made.

Every operator returns the set of outcomes: status, tokens, new state. `Settle`
is `settle` of `arch.c`, which runs the forward `decode_step` left owed, and
each operation begins with it where `arch.c` does. `TxnBegin`, `TxnRestore`,
`RowStates` and `KvTruncate` are the speculative transaction of `arch_ops.c`;
`SpecVerify` is `spec_verify` of the engine. A failing forward may have
advanced the recurrence or not. So may a failing roll-back: a row state that cannot
be copied back ends `KvTruncate` with the verify's rows in place and the transaction
open, a restore that fails is not noticed and the accepted tokens are replayed
behind the rejected ones (`TxnRestores`, `Replayed`; see Disagreements).

In `Session` a call is one step, except that the sub-batches of a prefill are
steps of their own, so that `Cancel` may land between any two. Inside a verify
the flag cannot change once the call has begun: a cancel that arrives while the
verify's single forward runs is the one raised just before it.

`ImplementsConversation` maps a session to the text its caller sees: the cached
rows, followed by the token an owed forward will append.

### KiviCache

`ring` is the fp32 residual of each layer, `packed` its 2-bit groups, `tail` the
copy of a pin; `drained` and `residual` are the two counters all layers share.
Rows are written at `position - drained` without a check, and the model's ring
goes on past the real one, as the code's would go on into the next allocation
(see Disagreements). A drain and a copy go layer by layer, and each ends where a
buffer cannot be mapped: `Moved(c, 1 .. l)` is what a failed drain leaves,
`DrainFull` and `ResetTo` give the outcomes, and `failed` remembers one until
the session is empty. A reset has no status; the copy back it could not finish
is one of its outcomes. Whether a decode step's forward runs at once or is owed
makes no difference here: it is run at once.

### AudioStream

`mel` .. `lastMel` are the fields of `struct AudioEncoder` under its mutex,
`subBuf` .. `nDrained` those of `struct audio_stream_state`. `wpc` and `job`
are the worker's place and its locals, `spc` the session thread's place; the
turn is open (`audio_streaming`) when it is `"open"`. A stretch of code under
the mutex is a step (`TakeKick`, `Publish`, `Finish`, `Push`, `EncoderReset`).
Outside it a push of the worker is one step per thing a reset could come
between: the incremental subsample, the layers' read and write of their caches,
the projection into `soft`, the count. A soft token names the turn and the
place its audio came from, and whether its value is the one the one-shot
encoder would make: not so if its convolution window was cut (`Settled`) or if
the attention cache did not end at its block. `Poll` and `PullSome` take all
that is published, as the buffers of the session are never smaller
(`SoftBound`). A call of the decoder's `prefill_audio` may fail, and so may the
start of the worker's thread.

`Begin` covers the lazy start of the worker, `Destroy` the abort of a turn left
open by its session. After an abort the worker may still be in the old push;
`clean` marks the turns that do not begin then.

### Speculation

`sess` and `draft` are two sessions of `SessionOps` on different models;
`history` is what the caller has prefilled and been handed, which it passes with
each call. `DecodeSpeculative` is one whole call: the owed forward, the seed
from the pending logits, the drafts and the verify, with the plain decode where
the code falls back to it. `Rows` of the draft that the history no longer has
are rolled back, and what it lacks is prefilled, before it drafts. The n-gram
drafter looks for the longest suffix of the history that occurs earlier. The
draft head of a hybrid model (`forward/mtp.c`) is the third drafter: `mtp` in
the target's state is its cache and carried hidden state. Its row of a position is made of
that token and the target's hidden state before it, so it is the sequence of
both; `MtpSync` appends rows with every forward of the target, and a
transaction keeps, restores or cuts them (`MtpKept`) together with the
recurrence. A row built on the wrong hidden state shows as another sequence.
`SetDraft` attaches and detaches at any time between calls. The draft's backend
may fail at any forward; the target's failures are `Session`'s subject.

### SessionBatch

`sess` has a session per member, `calls` counts the calls made; `out` is what
the last one returned, to whom, and the batch it was. A batch is a sequence of
members, so it may name one twice or be too long. `BatchTooLarge`,
`BatchCancelled` and `BatchUnfit` are the refusals in the code's order: the
engine looks for a raised cancel in all members first, then the architecture
takes the first member that is a duplicate, has nothing pending or has no room.
`SettleBatch` runs the forwards that members owe, `Pass` is
`transformer_decode_batch_forward`. Where a pass fails (`BatchFails`), each
session of it is as before, has moved on, or has absorbed the token without
keeping it (`Wrecks`), and then all members are reset. Between the batches each
session makes calls of its own; a prefill is one sub-batch here.

### VkDevice and VkSequence

A byte range is a set of *cells*, and ranges overlap iff they share one. What a
kernel computes is its own number, so a wrong input shows as `Wrong` in every
cell that depends on it. `prog` is what each cell would hold if every call took
effect at once. The device takes submissions in order, starts any command
whose barrier and semaphores let it, may finish those it has started in any
order, and a cell that a running command writes reads as `Torn`. That is all
Vulkan promises: without a barrier two commands of one queue overlap.

`seq` holds the sequence fields of `vk_state` and the commands of the open
command buffer; `dirty` is the hazard table, `batch` the rolls in flight,
`mark` and `ring` the event and the two rings. The host runs one call at a time.
`todo` lists the functions that are left of it, one entry for each that the
device can fall between: a linear is *stage x*, its ring write, its dispatch
and the roll that may be due; a readback is *flush*, *await*, *reset rings* and
*read*. A submission that fails leaves its commands out (`lost`), as
`vk_seq_roll` does.

### VkStream

`stream`, `slot` and `follows` are the fields of weight streaming (`xq_on`,
`wslot_*`, `stream_next`), `stage` those of the staged set, `tlVal` the last
timeline values handed out. A GEMM on a streamed weight cuts the sequence, waits
for its slot's copy, and fetches the weight that followed it last time into the
other slot. The transfer queue is one more actor that may fail at its submit;
then copies go into the batch. A staged set is copied by one submission that
waits for the readers of the set before. A GEMM is `Parts` dispatches
(`vk_gemm_dispatch` makes a head and a tail of a row count that is no multiple of 16,
`vk_linear_t` one for each row without 32-lane subgroups), between which the sequence
may be rotated or flushed; `stage.split` remembers that this has happened to
one on a staged weight, whose only signal is then gone.

### MetalSequence

A thread's step runs from one place where it can block to the next: taking
`seq_lock`, and waiting for a command buffer. `lock`, `owner`, `seq` and `refs`
are `seq_lock`, `seq_owner`, the open sequence and `seq_ref`; `queue` is what is
committed and not finished, which the GPU runs in order, a command at a time.
Each tensor has a version in memory and one that program order gives it (`mem`,
`ver`), and a command names the version it is to see. `FlushFor` is
`metal_flush_if_referenced`: it flushes only if the sequence has bound the buffer, or if
`seq_ref` has overflowed (`References`). A copy ahead of the sequence flushes for its
source and then for its destination (`BlitCopy`, `BlitTo`). The creation of a command buffer may
fail where `MayFail` says: at a region's begin, at a rotation, for a standalone
submission, and after a flush ("reopen").

## Runs

| Run | Question | Instance |
|---|---|---|
| `ParPool_calls` | Do two concurrent callers each get every item run once, with a stable task and no lost wakeup; is the pool a `ParFor`; does every call return? | one call each, n in {1, 4}, up to 4 threads on a pool of 3; a static body that calls `geist_par_for` itself, and a pull body |
| `Session_calls` | Is a session a conversation, are pending logits current and cancels exact, does the recurrence follow the cache, does a refused call change nothing and a failed one lose nothing? | sub-batches of 3, 2 checkpoints, one row slot; seven models with calls and bounds of their own: dense (3 and 4 positions), with row states (2, 3 and 4) and without (3 and 4); failures in one call of five of them |
| `SessionBatch_members` | Is a batch its members' decode steps, all or nothing, whatever the members did before? | 2 members, batches of 2, 3 positions, 7 calls and cancels, one failing pass; dense and hybrid |
| `Speculation_stream` | Is a speculative stream the target's own, and does the draft keep up? | target with row states, 6 positions with n-grams or 5 with the draft head; draft dense or replaying, 2 checkpoints, k up to 4, one failure of the draft |
| `Kivi_cache` | Does attention find every row, whatever is drained, rolled back, pinned, cancelled or reset, and does emptying the session undo a failed drain? | 2 layers, groups of 2 rows, sub-batches and bursts of 2; 5 positions, and 4 with one failure |
| `AudioStream_turns` | Is a streamed turn the one-shot encoder's, early and complete, and do `audio_end` and the worker come back? | blocks of 2 tokens, 15 frames, pushes of 4 and 7, two turns, one fault |
| `VkSequence_calls` | Is every barrier left out unneeded, does every readback wait for enough, is a lost submission reported, does every call return? | any 4 calls over 2 tensors, rings of one place, 2 command buffers, rotation after 2, a hazard table of 4, one lost submission |
| `VkStream_weights` | Does no GEMM see a slot before its copy or after the next one, and do the queues never wait in a circle? | any 3 calls over 3 weights, one twice as large, GEMMs of 2 dispatches, 2 slots, one staging slot, rotation after 3 |
| `MetalSequence_sessions` | Do two sessions on one sequence see only their own work, in order, and is the lock given back? | 2 tensors each, 4 and 2 operations, one pending buffer, one reference, one failing creation |
| `MetalSequence_reopen`, `AudioStream_abort`, `VkStream_split` | see Disagreements | |

Bounds. A pool of 3 has a worker inside one team and outside the next, and n = 4
over 3 threads has uneven ranges. In `Session_calls` a context of 4 positions holds a prefill of
two sub-batches, or a verify that ends exactly at the end of the
context; `MCPredict` makes drafts accepted in full, in part and not at all.
`Bounds` says what the caller of a session of each kind does, so that every mechanism has a
model in which all that can meet it is called, and none has everything: snapshots and
failures on a dense context of 3, prompts of two sub-batches and cancels on
one of 4; with row states checkpoints that fail at 2 positions, checkpoints, truncations and verifies that
evict, rotate and prune at 3, and verifies of 3 rows, which with one row slot are
replayed, with failing roll-backs and cancels at 4; without them snapshots and
failures at 3, failing replays at 4. In
`Speculation_stream` 6 positions hold a prompt and two or three calls, so that a
rejected guess of one call is still in the draft when the next begins; a
prefill is one sub-batch, since `Session` has the others. With the draft head 5
positions hold two drafting calls and the refusal at the end of the context. k of
4 against 2 checkpoints is a draft that a recurrent draft session cannot take back
in full, as k of 10 or more against the code's 8 may be; one row slot makes a
verify of two rows use row states and one of three replay. In
`SessionBatch_members` seven calls hold a prefill of each member, an owed
forward of each, a batch and what follows it; the members are
interchangeable, so they are symmetric. Five positions with
groups of 2 hold a pinned prefix of a group and a rest, and a drain after it.
Values are two tokens, which is enough to tell a right row from a wrong one; the
KIVI model has no arithmetic on tokens, so they are symmetric. Fifteen frames in
pushes of 4 and 7 give a turn of up to two blocks with a partial last one,
snapshots at even and odd frames with and without an unsettled last row, and a
push that does not fit.

The Vulkan limits (in the code a rotation every 64 dispatches, 64 rolls in the
ring, 96 hazards) are set so that each is reached within four calls: a full
ring, a full hazard table, a rotation, a reused command buffer. `VkStream_weights` starts from a fresh backend and from
`AfterChunk`, the state after a chunk of p, q and r: learning an order and using
it takes more calls than the bound. A GEMM is a head and a tail there; rotated after 3
dispatches, they are kept together or split, streamed and staged. What the split does to a staged
one is left to `VkStream_split`, with 4 dispatches and a rotation after 2. On
Metal one pending slot and one reference make a rotation wait and a reference
set overflow at the second operation.

`CacheIsText` speaks of sessions without a failed drain since they were last
empty; `PrefixKept` of all. `PendingIsCurrent`, `RecurrenceMatchesCache` and `ImplementsConversation` speak
of sessions without a failed operation: after one the code promises only what
`FailuresLoseNothing` says. `WeightsSeeProgramOrder` claims nothing once a
staged GEMM has been split. In the same way `KernelsSeeProgramOrder` and
`HostReadsResults` speak of runs without a lost submission, and
`FailureReachesReadback` of the others.

Deadlock is not an error in the runs of the pool, audio, Vulkan and Metal: when
all have made their calls, the workers sleep and the queues are empty for good.
Hangs are what `EveryCallReturns` and `WaitsEnd` exclude; of Metal nothing of the kind is
checked, its lock is what `LockOnlyInRegions` is about. In `SessionBatch` it is
none because the calls are counted.

Fairness is stated where threads and devices run. `WF` of each thread's steps
inside a call: the operating system runs every thread that can run; nobody is
bound to call. `WF` of each queue of a device: it works off what is submitted.
`SF` of taking
the pool lock and a worker's mutex: a POSIX mutex does not
starve a waiter for ever on the schedulers the code runs on; without it a thread
could lose the lock to another one for ever. `SpuriousWakeup` is not fair, so
progress never rests on it.

## Proofs

The first part of `CpuProofs` proves, for any set of callers and sizes, any team limit and
pool size and any number of calls:

* `TypesHold`: `TypeOK`;
* `TaskNeverChangesUnderWorker`: `TaskStable`;
* `NoWakeupIsLost`: `NoLostWakeup`;
* `JoinWaitsForTheTeam`: `JoinedMeansDone`.

They rest on `ConstantsAssumption` and `NobodyAssumption`, and follow from one
inductive invariant, `IInv`. None of the four is inductive by itself: that the
task is stable needs that the lock holder is still joining, which needs that a
worker with the current word has not stored it in `done`, which needs that
`done` and `seen` never run ahead of `word`. `IInv` has a part for the types, a
part that says a caller past `Lock` holds the lock and how far it has come,
and a part for each worker: no word it has seen or answered runs ahead of the
published one, its flag is up while it sleeps, a worker that is busy works for
the current word, and as long as it *owes* the published word
(a member of the team that has not stored it) the lock holder is before its
join of that worker. Each action has a step in the proof, and under it one per
part it can disturb.

Its second part goes on from there: `EveryItemRunsOnce` (`EachItemOnce`) and
`PoolImplementsParFor` (`ImplementsParFor`, the pool refines `ParFor`). `ItemInv`
says what has run of a call as a function of where its threads are: in the pull
form the items below the counter, in the static form those of the ranges that
have run, range 0 once the caller joins and range w once worker w is past its
body. That the ranges of a team are disjoint and cover the items is arithmetic
(`RangesDisjoint`, `RangesCover`), proved for any size and team; so nothing runs
twice and, once the join has seen every worker, everything has run. The
refinement maps a call's items that have not run to `ParFor`'s, and the step that
runs some of them to `ParFor`'s step.

`MetalSequenceProofs` proves, for any number of sessions and tensors and any
limits:

* `TypesHold`: `TypeOK`, with the bound on an open command buffer: it outgrows
  `RotateEvery` only by as many dispatches as creations have failed;
* `SequenceStaysPrivate`: `SequenceIsPrivate`;
* `LockGivenBack`: `LockOnlyInRegions`, if a flush can always open the next
  sequence (`"reopen" \notin MayFail`); `MetalSequence_reopen` shows the theorem
  false without that hypothesis;
* `ProgramOrderIsSeen` (`CommandsSeeProgramOrder`) and `ReadsAreResults`
  (`HostReadsResults`), with no hypothesis on what fails.

They rest on `SequenceConstants`. The first two follow from `IInv`: types,
privacy, and for each thread the part that says in which places it holds the
lock, that a thread that waits for the GPU holds it, and that the queue is empty
when nobody does. A thread that finds the lock free therefore finds the queue
empty, which is what makes the work in it its own. `LockGivenBack` needs more:
`KInv` adds that the lock is taken only once outside a standalone submission
(`lock.depth <= 1`), and that a thread holding it is in its own sequence or
inside a submission (`Kept`). That part is what a failed reopening breaks.

The last two say that memory holds at each moment what program order put there, and follow from
`OInv`. Its `Program` speaks of the commands that wait, in the queue or in the open
command buffer, and of which waits behind which (`Waits`, `Precedes`): any two of them read and
make versions in that order (`InOrder`), none makes what is made already
(`Fitting`), and each version memory lacks is made by one of them (`Made`). The
last part is why the first command finds its input: if memory were older than
what it saw, a waiting command would make that version, and none waits before the
first. Its `Own` has, for each thread, why the host may go on without waiting: what waits of an
owner's is in its references (`Referenced`), so a tensor outside of them is used by nothing that
waits (`Clear`); a lock held without a sequence is held over an empty queue
(`Waited`), which is what a failed reopening leaves behind; and from an argmax to its
result the thread keeps the lock, so the one result buffer is its own (`Reading`).
The lemmas on `Append` and `Tail` say what each action does to `Waits` and `Precedes`;
above them no proof looks into a sequence.

The last part of `CpuProofs` proves `CacheAlwaysText` (`CacheIsText`), `PrefixAlwaysKept`
(`PrefixKept`) and `UndrainedAlwaysCut` (`UndrainedOnlyCut`), for any
group size, sub-batch and context lengths, draft counts and layers. `CacheInv` says that the counters
agree (`Shape`: whole groups are packed, the rest is in the ring), that every
position's row is where attention reads it while nothing has failed (`Right`),
what the pin's copy holds (`PrefixKept`), and that a pinning prefill began in an empty
session. Each part of a call (append, drain, cut, return to the prefix) has a lemma
saying that it maps such a cache to such a cache; the calls compose the parts. The
returns are why `PrefixKept` must be in the invariant: they are right only because the
pinned rows, in groups or in the copy, are those of the text.

`SessionProofs`, on the lemmas of `SessionOpsProofs`, proves all
safety properties that `Session_calls` checks, for any models, vocabulary, prediction,
lengths and numbers of slots:

* `PendingAlwaysCurrent` (`PendingIsCurrent`) and `RecurrenceAlwaysMatches`
  (`RecurrenceMatchesCache`). Their invariant `IInv` claims, as long as no
  operation has failed, `Rest` of an idle session (the rows are typed, the recurrent state and each
  checkpoint have absorbed the rows they stand for, pending logits are of the
  whole text, no transaction is open) and less of one in the middle of a prefill,
  whose logits may be of a shorter text. There is a lemma for each operation of
  `SessionOps`, which says what it makes of `Rest`; `SessionProofs` has one step
  per call. The parts depend on each other: a truncation restores a
  checkpoint, whose content counts only if checkpoints were invariant, and a
  verify's replay is right only because its transaction kept the state it began with.
* `SessionImplementsConversation` (`ImplementsConversation`, the refinement of
  `Conversation`), `RefusalsAlwaysSpare`, `CancelAlwaysExact` and
  `FailuresAlwaysKeep`. The last three speak of sessions
  in which something has failed, of which `IInv` says nothing. They rest on
  `HInv`, proved by `HeldAlways` for every state: the rows are tokens, the length
  fits the context, an owed forward has a token to feed and logits it came from, a
  transaction is open only where there is a recurrence (a failed roll-back may
  leave it open), the tokens a running prefill has left to feed fit,
  and a snapshot can be restored. Each operation is followed through `Grows` (its
  text has these tokens more), on success, on refusal and on failure. That the
  tokens of a decoding call are the model's own is where the refinement needs
  `IInv` too: the pending prediction must be that of the text.

`SessionBatchProofs` proves, for any number of members, batch limit and models, with
passes that fail:

* `EachAlwaysConverses` (`EachIsAConversation`), from `MembersStayGood`. Of a
  single session `IInv` claims nothing once an operation has failed; of a member `BInv`
  always claims `Rest` and `Held` together (`Good`). A failing pass may leave the
  recurrence and the checkpoints of its members in disorder, but all members are reset
  before anyone looks (`WreckFresh`: a reset needs only the rows up to the pin, and
  no pin where there is a recurrence). The calls of one session come with the lemmas of
  `SessionOpsProofs`, a pass is followed field by field.
* `BatchAlwaysWhole` (`BatchIsAllOrNothing`). A member fit for the pass has a
  decode step with one outcome, the token of the pass (`FitDecodes`), and the forward that
  it owes leaves, settled, the session that the pass leaves (`OwedSettles`), all its
  fields; a member that is not fit would be refused by its own decode step too
  (`CancelledRefuses`, `UnfitRefuses`), with the owed forward counted.

`SpeculationProofs` proves, for any target and draft models, vocabularies, predictions and
limits, whatever fails in the draft and wherever it stands:

* `SpeculationIsGreedy` (`StreamIsGreedy`, every step is a step of the target's
  `Conversation`) and `RecurrencesAlwaysMatch` (`RecurrencesMatch`), from
  `SessionsStayGood`. `TargetInv` is `Good` of the target with its draft head level
  (`HeadLevel`: one row for each cached position and the hidden state of the last);
  every operation of the target is followed once more for what it does to the head,
  whose transaction is kept and put back beside the recurrence's. `DraftInv` says of the
  draft that it is `Held`, and `Rest` as long as none of its operations has failed.
* The draft is a session of `SessionOps` too, so the lemmas of `SessionOpsProofs` are
  used a second time, as the instance `DP` with the draft's models and predictions;
  what they assume of their constants is proved of the draft's (`DraftConstants`).
  A verify needs no more of the guesses than that they are tokens: `ProposeOut` says so
  of a draft model, by a least number of guesses for which it would not hold, `MtpGuessesTyped` of the head and `NgramGuessesTyped` of the n-grams,
  whose longest match exists because the lengths looked at are bounded. After the verify
  nothing is claimed of what the draft session's text is, and nothing has to be: the
  stream does not depend on it.

`AudioStreamProofs` proves `TurnAlwaysAttach` (`TurnIsAttach`) and `DrainStaysBehind`
(`DrainBehindPublish`), for any block, buffer and pushes. `BInv` holds of every
turn, an aborted one's late push included: how far it has come, which
blocks a job has left, and that what is published never runs ahead of the place of
the block the worker is at, even where a reset has taken the counts back under it. `Sound`
holds of a turn begun on an idle worker: its frames are its own, the cached and
emitted rows are those of the one-shot encoder, and the tokens handed over so far are the
first of them. `TurnIsAttach` alone is of the end of a turn and says nothing of how it was reached.

`VkProofs` proves, for any kernels, weights and limits, with submissions that fail:

* `FailureAlwaysReported` (`FailureReachesReadback`): `failed` is up from a
  submission's failure to the readback that takes it (`FailureKept`), whatever
  rolls, flushes and reopenings lie between;
* `SignalsAlwaysRise` (`SignalsRise`): no submission signals a value of `tl_comp`
  at or below one signalled before it. `SInv` has, beside the property, what bounds it: the value handed
  to the open command buffer is above all those submitted (`Bounded`), and
  those in the queue rise with their places, so the device takes them in order
  (`Queued`). A failed submission drops its signal and leaves a gap, never a step back;
* `ProgramOrderSeen` (`KernelsSeeProgramOrder`) and `ReadsAreResults` (`HostReadsResults`).

The last two follow from `MInv`, which holds as long as no submission is lost. As on Metal
it relates memory to what is pending, but here the device may start a command before
the ones ahead of it have ended, and only a barrier holds it back. `Memory` says that
pending commands in conflict have a barrier between them (`Separated`), that a running
one is behind no barrier (`Alone`), and that each will find what it was recorded to see:
the last pending writer of a cell before it, or else memory, has that version
(`SeesOrder`). Starting, finishing, recording and storing keep `Memory`
by themselves (`StartMemory` and its like); why the host does it at the right moment is in
the other parts:

* `TableKnows`: a cell that a pending command touches is in the hazard table, for writing if
  it is written, unless a barrier lies behind that command already. The table is emptied when
  it is full and at each barrier, and this is what makes that sound;
* `RingsInUse`: an upload place that a pending command reads is below the ring's index, and
  nothing pending writes any;
* `MarkHeld`: no pending command writes a cell that is held clean for the mark, once the
  event is set or where it is behind the event;
* `CallShape`: each access of the host that is left of the running call has before it a flush
  with only waits after it, or the fence, or the wait for the mark, or is safe
  as it stands (`Guarded`); and what a gather wrote into the upload ring is used
  before the ring can start over (`Gathers`).

`Guarded` is the part that had to be found: between a flush's steps the queue is not empty yet,
so what protects the readback is not in the state of the queue but in what the call will
still do. TLC checked `MInv` with four calls and a lost submission, and with five calls and none.

Assumptions. The proofs rest on the `ASSUME`s of the modules and nothing else.
`SessionConstants` says that `Predict` gives a token for each text that fits the context of
some model; of longer ones it says nothing, since no session can hold them.
`SpeculationConstants` says the same of `DraftPredict`, for the draft's contexts and the
target's, whose head guesses within them, and of the draft's models what `SessionConstants` says of the others.
`ValuesAssumption` says that the marks for torn, wrong and lost contents are not numbers of commands.
The other assumptions give constants their types and keep sizes that divide from being zero.

Model-checked only:

* of `VkStream` that no GEMM sees a slot before its copy: what orders the transfer
  queue's writes against the compute queue's reads is two timelines, of which
  `SInv` relates one;
* of `Speculation` how well a draft keeps up: `DraftInStep` and `AcceptsWhatAgrees`
  relate the draft's text to the history from call to call and the emitted tokens to
  what the two models agree on. They hold of calls after which nothing has failed and
  are about cost, not about what is emitted; their proof needs the draft's text,
  and each rollback's checkpoint, followed through every call;
* liveness (`EveryCallReturns`, `WaitsEnd` and their like), out of the prover's
  reach with its fairness and ENABLED;
* what a recursive function computes for every argument: that is induction, and
  the library's theorems on it take an operator as a parameter, which no installed
  backend can instantiate. Where a proof needs a bound or a type of such a function it
  takes the least argument for which it would fail instead: that a drain of g groups
  is g drains of one, that there is a longest accepted prefix of a verify, and
  that the guesses of a draft are tokens, however many.

## Disagreements

Three runs check what a comment says and find a behaviour of the code that breaks
it.

* `MetalSequence_reopen`: `metal_batch_flush` drops the status of
  `metal_command_sequence_begin` (`src/src/backends/metal/sequence.c:170`). If a
  flush inside a region cannot create the next command buffer, nobody owns the
  sequence, and `metal_parallel_region_end` returns before it unlocks
  (`lifecycle.c:281`). The thread keeps `seq_lock` and every other session's
  region waits. `metal_internal.h:676` says the lock is held from region begin
  to region end.
* `AudioStream_abort`: `audio_encoder_reset` does not wait for the worker. A
  session destroyed while the worker encodes, and a new turn begun before it is
  done, give the new turn the old one's tokens (`n_soft` is advanced by the old
  push after the reset), or make it skip its own (`n_sub_total`). The encoder's
  `arch.c` says an aborted stream and one never opened are the same state.
* `VkStream_split`: `vk_stage_read` asks for one signal of `tl_comp` per staged
  linear (`ops.c:2124`), which has a head and a tail (`ops.c:959`) or a dispatch per
  row (`ops.c:2298`). If the sequence is rotated between two of them (`sequence.c:462`),
  the submission with the first ones signals, and the copies of the next set wait for
  that only: the rest reads a slot that is being overwritten. `ops.c:2111` says
  every submission with such a reader signals. `ProgramOrderSeen` is about
  `VkSequence`, which has no such slots, and is not touched.

More was seen while modelling and has no run.

* Session: a verify that accepts drafts up to the end of the context cannot
  append its correction; it fails and returns no token, but the accepted ones
  stay (`session.c:856`). An owed forward that fails may have advanced the
  DeltaNet state, and the retry absorbs the token again (`step.c:662`). A
  prefill that fails after a finished sub-batch leaves the logits of the shorter
  text pending. `audio_begin` refuses a second turn on the same session only,
  not on the same model as `geist_util.h:200` says. `transformer_kv_truncate` ignores the
  status of `deltanet_txn_restore` (`arch_ops.c:758`): where that fails, length and
  recurrence stay, the accepted tokens are replayed behind the rejected drafts, and
  the call returns OK with the recurrence of that longer text. Where `deltanet_rows_restore` fails (`:752`), it
  returns with the rejected drafts in the cache, their logits pending and the
  transaction open; the next call that commits keeps them. `FailuresLoseNothing`
  holds in both: no text is lost, but there is more of it than the caller was handed.
* KIVI: a fully accepted burst is not drained until its correction is prefilled.
  If that is cancelled, the next prefill's first sub-batch is written behind more
  than R rows and leaves a ring of R + m_max (`kv_store.c:194`). With R = 128
  and m_max = 64 it takes 113 rows or more before a burst of 16. The
  model's ring goes on past the real one, so `CacheIsText` does not show it. A drain that
  fails behind its first layer has moved that layer's rows and not the counters.
  A reset to a pinned prefix tells by the counters whether rows were moved
  (`step.c:754`: "Nothing else writes there, so without one they are still in
  place"), so it returns without an error to a prefix whose ring rows are other
  tokens' in that layer, and a retried drain packs the wrong rows. Only a reset to the empty
  session is safe, which is what `failed` in `CacheIsText` says.
* Speculation: the draft session falls out of step unnoticed after a failed
  rollback, after a recurrent draft has been rejected further back than its checkpoint slots
  reach, and when the caller resets or truncates the target without the history
  following. The stream stays right (`StreamIsGreedy`) and drafting gets
  useless. `session.c:917` says that a draft left ahead is started over: not so if its
  oldest checkpoint left lies where the history now ends (k of `Slots` + 2, the first guess
  rejected), when the rejected guess stays in place of the correction;
  `DraftInStep` says how far a stranded draft stays ahead. Near the end of the context a draft that cannot be prefilled fails
  the call, though the header promises at least one token. So does the draft
  head within k_max of the end (`mtp.c:328`): `INVALID_STATE` is not the
  `UNSUPPORTED` for which `decode_speculative` falls back to n-grams.
* Vulkan: a failed flush empties the hazard table and the rings without
  waiting for the rolls before it (`sequence.c:47`); a roll whose submit fails loses its
  `tl_comp` signal.
* Metal: the end of a flush and of a region drop the error of their command
  buffer.

## Not modelled

Arithmetic (kernels, quantization, sampling), weight formats, the tokenizer,
model load and backend choice, vision, decisions, tools, tests and benchmarks:
sequential code whose correctness is numeric or a matter of parsing. The larger
part of the repository by lines is of this kind (GPU kernels and generated
shaders, SIMD kernels, loaders), so the share of lines these models stand for
stays small.

Of the session: `attach_audio` and image prefill,
the offload twins' second cache; of `decode_batch` the refusals of
sessions made with other options, which change nothing. In `KiviCache` failing forwards, which write only
behind the text, and a decode step's retry; KIVI together with the recurrence, and a KIVI draft session.

Of Vulkan: destruction of weight buffers, grouped and selected linears, the
descriptor-set cache, dispatches without an access list. The ranges a kernel
declares are taken as true. Of Metal: views of one buffer, profiling and
capture, and the residency thread, which wires buffers for speed and changes no
result.

## Plan

1. `AudioStream` with two sessions on one model, and its synchronous pull path.
2. The offload twins; KIVI together with the recurrence.
3. Proofs: `Speculation`'s `DraftInStep`, with the draft's text in its invariant; the slots of `VkStream`, with `MInv` and `SInv` as they are.
