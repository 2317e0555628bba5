------------------------------ MODULE CpuProofs ------------------------------
(***************************************************************************)
(* Proofs about what runs on the CPU, first the pool and then the KIVI cache *)
(* (its argument stands above its part).                                     *)
(*                                                                           *)
(* ParPool: type correctness, that the task a worker runs is that of the     *)
(* call holding the pool lock, that no member of a team sleeps through its   *)
(* word, that a joined worker is done, that every item of a call is handed   *)
(* to fn exactly once, and that the pool implements ParFor, for any callers, *)
(* item counts, team and pool sizes, any number of calls and both forms of a *)
(* call.                                                                     *)
(*                                                                           *)
(* The argument: a worker OWES the published word from its publication       *)
(* until it stores the word in `done`.  While anyone owes, the caller that   *)
(* published it is between its publication and the end of its join, and      *)
(* holds the lock; so nobody else can write the task or publish.             *)
(*                                                                           *)
(* For the items: what has run of the call in flight is a function of where  *)
(* its threads are.  The pull form has handed out the items below its        *)
(* counter; the static form those of the ranges that have run: range 0 once  *)
(* the caller joins, range w once worker w is past its body.  The ranges of  *)
(* a team are disjoint and cover the items, so nothing runs twice and, once  *)
(* the join has seen every worker, everything has run.                       *)
(***************************************************************************)
EXTENDS ParPool, KiviCache, SequenceTheorems, WellFoundedInduction, TLAPS

Locked == {"grow", "write", "publish", "wake", "signal", "body", "join"}
InFlight == {"wake", "signal", "body", "join"}

\* Worker w has taken a word that counts it in and not yet answered it.
Busy(w) == \/ wpc[w] \in {"leave", "test"} /\ w < seen[w].T
           \/ wpc[w] \in {"read", "body", "finish"}
Owes(w) == Busy(w) \/ (w < word.T /\ seen[w] # word)

CallNumbered == \A c \in Callers : cpc[c] # "idle" => calls[c] >= 1
InTeam == \A w \in Workers : wpc[w] \in {"read", "body", "finish"} => w < seen[w].T
Types == TypeOK /\ CallNumbered /\ InTeam

LockHeld == \A c \in Callers : lock = c <=> cpc[c] \in Locked
TaskWritten ==
    \A c \in Callers : cpc[c] \in InFlight \cup {"publish"} =>
        task.job = Job(c) /\ task.n = req[c].n
TeamPublished == \A c \in Callers : cpc[c] \in InFlight => word.T = req[c].T
JoinedDone ==
    \A c \in Callers : cpc[c] = "join" => \A w \in Workers : w < idx[c] => done[w] = word
CallerInv == LockHeld /\ TaskWritten /\ TeamPublished /\ JoinedDone

WordsPast(w) == seen[w].gen <= word.gen /\ done[w].gen <= word.gen
OwerHeld(w) == Owes(w) => lock \in Callers /\ cpc[lock] \in InFlight /\ done[w] # word
BusyCurrent(w) == /\ Busy(w) => seen[w] = word
                  /\ wpc[w] = "body" => hand[w].job = Job(lock)
SleepFlag(w) == wpc[w] \in {"check", "wait", "woken", "leave"} => sleeping[w]
WakeAhead(w) == wpc[w] = "wait" /\ Owes(w) => cpc[lock] \in {"wake", "signal"} /\ idx[lock] <= w
WorkerInv(w) == WordsPast(w) /\ OwerHeld(w) /\ BusyCurrent(w) /\ SleepFlag(w) /\ WakeAhead(w)

IInv == Types /\ CallerInv /\ \A w \in Workers : WorkerInv(w)

-----------------------------------------------------------------------------
LEMMA RangeIsInt ==
    ASSUME NEW n \in Nat, NEW t \in Nat, NEW T \in Nat, t < T
    PROVE  ParRange(n, t, T) \in SUBSET Int
<1>1. T \in Nat \ {0}
    OBVIOUS
<1>2. n \div T \in Int /\ n % T \in Int
    BY <1>1
<1> QED
    BY <1>2 DEF ParRange

LEMMA TeamSize ==
    ASSUME NEW n \in Sizes, NEW threads \in 1 .. MaxThreads
    PROVE  Team(n, threads) \in 0 .. PoolMax /\ n \in Nat
    BY ConstantsAssumption DEF Team, Least

LEMMA TookTypes ==
    ASSUME CountTypes, NEW job, NEW S, Took(job, S)
    PROVE  ran' \in [Jobs -> [MaxItems -> Nat]]
<1>1. job \in Jobs => [i \in MaxItems |-> ran[job][i] + (IF i \in S THEN 1 ELSE 0)]
                      \in [MaxItems -> Nat]
    BY DEF CountTypes
<1> QED
    BY <1>1 DEF CountTypes, Took

LEMMA ClaimTypes ==
    ASSUME CountTypes, NEW c, Claim(c)
    PROVE  next' \in [Callers -> Nat]
<1>1. CASE c \in Callers
    BY <1>1 DEF CountTypes, Claim
<1>2. CASE c \notin Callers
    <2>1. \A d \in Callers : next'[d] = next[d]
        BY <1>2 DEF CountTypes, Claim
    <2> QED
        BY <2>1 DEF CountTypes, Claim
<1> QED
    BY <1>1, <1>2

LEMMA CallerKeepsTypes ==
    ASSUME Types, NEW c \in Callers, Call(c) \/ CallerStep(c)
    PROVE  Types'
<1> USE ConstantsAssumption DEF Types, TypeOK
<1>1. CASE Call(c)
    <2>1. PoolTypes' /\ (WorkerTypes /\ InTeam)'
        BY <1>1 DEF Call, PoolTypes, poolVars, WorkerTypes, InTeam, workerVars
    <2>2. (CallerTypes /\ CallNumbered)'
        BY <1>1, TeamSize DEF Call, CallerTypes, CallNumbered, callerVars, Goto, CallerPCs
    <2>3. CountTypes'
        BY <1>1 DEF Call, CountTypes
    <2> QED
        BY <2>1, <2>2, <2>3
<1>2. CASE Serial(c)
    <2>1. PoolTypes' /\ (WorkerTypes /\ InTeam)'
        BY <1>2 DEF Serial, PoolTypes, poolVars, WorkerTypes, InTeam, workerVars
    <2>2. (CallerTypes /\ CallNumbered)'
        BY <1>2 DEF Serial, CallerTypes, CallNumbered, callerVars, Goto, CallerPCs
    <2>3. CountTypes'
        BY <1>2, TookTypes DEF Serial, CountTypes
    <2> QED
        BY <2>1, <2>2, <2>3
<1>3. CASE SerialReturn(c)
    <2>1. PoolTypes' /\ (WorkerTypes /\ InTeam)' /\ CountTypes'
        BY <1>3 DEF SerialReturn, PoolTypes, poolVars, WorkerTypes, InTeam, workerVars, CountTypes
    <2>2. (CallerTypes /\ CallNumbered)'
        BY <1>3 DEF SerialReturn, CallerTypes, CallNumbered, callerVars, Goto, CallerPCs
    <2> QED
        BY <2>1, <2>2
<1>4. CASE Lock(c)
    <2>1. (WorkerTypes /\ InTeam)' /\ CountTypes'
        BY <1>4 DEF Lock, WorkerTypes, InTeam, workerVars, CountTypes
    <2>2. PoolTypes'
        BY <1>4 DEF Lock, PoolTypes, poolVars
    <2>3. (CallerTypes /\ CallNumbered)'
        BY <1>4 DEF Lock, CallerTypes, CallNumbered, callerVars, Goto, CallerPCs
    <2> QED
        BY <2>1, <2>2, <2>3
<1>5. CASE Grow(c)
    <2>1. CountTypes'
        BY <1>5 DEF Grow, CountTypes
    <2>2. req[c].T \in 0 .. PoolMax /\ nWorkers \in 0 .. PoolMax - 1 /\ word \in Words
        BY DEF CallerTypes, PoolTypes
    <2>3. PICK k \in nWorkers .. (IF nWorkers + 1 < req[c].T THEN req[c].T - 1 ELSE nWorkers) :
              GrowTo(c, k)
        BY <1>5 DEF Grow
    <2>4. k \in 0 .. PoolMax - 1 /\ Least(req[c].T, k + 1) \in 0 .. PoolMax
        BY <2>2 DEF Least
    <2>5. PoolTypes'
        BY <1>5, <2>3, <2>4 DEF Grow, GrowTo, PoolTypes, Goto
    <2>6. (WorkerTypes /\ InTeam)'
        BY <1>5, <2>2, <2>3 DEF Grow, GrowTo, WorkerTypes, InTeam, WorkerPCs, NoWord, Words
    <2>7. cpc' \in [Callers -> CallerPCs] /\ req' \in [Callers -> [n : Nat, T : 0 .. PoolMax, dyn : BOOLEAN, nest : BOOLEAN]]
        BY ZenonT(60), <2>3, <2>4 DEF GrowTo, CallerTypes, Goto, CallerPCs
    <2>8. (CallerTypes /\ CallNumbered)'
        BY <1>5, <2>3, <2>7 DEF Grow, GrowTo, CallerTypes, CallNumbered, Goto
    <2> QED
        BY <2>1, <2>5, <2>6, <2>8
<1>6. CASE WriteTask(c)
    <2>1. (WorkerTypes /\ InTeam)' /\ CountTypes'
        BY <1>6 DEF WriteTask, WorkerTypes, InTeam, workerVars, CountTypes
    <2>2. PoolTypes'
        BY <1>6 DEF WriteTask, PoolTypes, CallerTypes, CallNumbered, Job, Jobs
    <2>3. (CallerTypes /\ CallNumbered)'
        BY <1>6 DEF WriteTask, CallerTypes, CallNumbered, callerVars, Goto, CallerPCs
    <2> QED
        BY <2>1, <2>2, <2>3
<1>7. CASE Publish(c)
    <2>1. (WorkerTypes /\ InTeam)' /\ CountTypes'
        BY <1>7 DEF Publish, WorkerTypes, InTeam, workerVars, CountTypes
    <2>2. PoolTypes'
        BY <1>7 DEF Publish, PoolTypes, CallerTypes, Words
    <2>3. (CallerTypes /\ CallNumbered)'
        BY <1>7 DEF Publish, CallerTypes, CallNumbered, callerVars, Goto, CallerPCs
    <2> QED
        BY <2>1, <2>2, <2>3
<1>8. CASE LookSleeping(c)
    <2>1. PoolTypes' /\ (WorkerTypes /\ InTeam)' /\ CountTypes'
        BY <1>8 DEF LookSleeping, PoolTypes, poolVars, WorkerTypes, InTeam, workerVars, CountTypes
    <2>2. (CallerTypes /\ CallNumbered)'
        BY <1>8 DEF LookSleeping, CallerTypes, CallNumbered, callerVars, Goto, CallerPCs
    <2> QED
        BY <2>1, <2>2
<1>9. CASE Signal(c)
    <2>1. PoolTypes' /\ CountTypes'
        BY <1>9 DEF Signal, PoolTypes, poolVars, CountTypes
    <2>2. (WorkerTypes /\ InTeam)'
        BY <1>9 DEF Signal, WorkerTypes, InTeam, workerVars, WorkerPCs
    <2>3. (CallerTypes /\ CallNumbered)'
        BY <1>9 DEF Signal, CallerTypes, CallNumbered, callerVars, Goto, CallerPCs
    <2> QED
        BY <2>1, <2>2, <2>3
<1>10. CASE BeginOwn(c)
    <2>1. PoolTypes' /\ (WorkerTypes /\ InTeam)' /\ CountTypes'
        BY <1>10 DEF BeginOwn, PoolTypes, poolVars, WorkerTypes, InTeam, workerVars, CountTypes
    <2>2. (CallerTypes /\ CallNumbered)'
        BY <1>10 DEF BeginOwn, CallerTypes, CallNumbered, callerVars, Goto, CallerPCs
    <2> QED
        BY <2>1, <2>2
<1>11. CASE OwnPull(c)
    <2>1. PoolTypes' /\ (WorkerTypes /\ InTeam)' /\ (CallerTypes /\ CallNumbered)'
        BY <1>11 DEF OwnPull, PoolTypes, poolVars, WorkerTypes, InTeam, workerVars, CallerTypes, CallNumbered, callerVars
    <2>2. CountTypes'
        BY <1>11, TookTypes DEF OwnPull, CountTypes, Claim
    <2> QED
        BY <2>1, <2>2
<1>12. CASE OwnBody(c)
    <2>1. PoolTypes' /\ (WorkerTypes /\ InTeam)'
        BY <1>12 DEF OwnBody, PoolTypes, poolVars, WorkerTypes, InTeam, workerVars
    <2>2. (CallerTypes /\ CallNumbered)'
        BY <1>12 DEF OwnBody, CallerTypes, CallNumbered, callerVars, Goto, CallerPCs
    <2>3. CountTypes'
        BY <1>12, TookTypes DEF OwnBody, CountTypes, Claim
    <2> QED
        BY <2>1, <2>2, <2>3
<1>13. CASE Join(c)
    <2>1. PoolTypes' /\ (WorkerTypes /\ InTeam)' /\ CountTypes'
        BY <1>13 DEF Join, PoolTypes, poolVars, WorkerTypes, InTeam, workerVars, CountTypes
    <2>2. (CallerTypes /\ CallNumbered)'
        BY <1>13 DEF Join, CallerTypes, CallNumbered, callerVars
    <2> QED
        BY <2>1, <2>2
<1>14. CASE Return(c)
    <2>1. (WorkerTypes /\ InTeam)' /\ CountTypes'
        BY <1>14 DEF Return, WorkerTypes, InTeam, workerVars, CountTypes
    <2>2. PoolTypes'
        BY <1>14 DEF Return, PoolTypes, poolVars
    <2>3. (CallerTypes /\ CallNumbered)'
        BY <1>14 DEF Return, CallerTypes, CallNumbered, callerVars, Goto, CallerPCs
    <2> QED
        BY <2>1, <2>2, <2>3
<1> QED
    BY <1>1, <1>2, <1>3, <1>4, <1>5, <1>6, <1>7, <1>8, <1>9, <1>10, <1>11, <1>12, <1>13, <1>14
    DEF CallerStep

LEMMA WorkerKeepsTypes ==
    ASSUME Types, NEW w \in Workers, WorkerStep(w) \/ SpuriousWakeup(w)
    PROVE  Types'
<1> USE ConstantsAssumption DEF Types, TypeOK
<1>1. CASE SpinSee(w)
    <2>1. PoolTypes' /\ (CallerTypes /\ CallNumbered)' /\ CountTypes'
        BY <1>1 DEF SpinSee, PoolTypes, poolVars, CallerTypes, CallNumbered, callerVars, CountTypes
    <2>2. (WorkerTypes /\ InTeam)'
        BY <1>1 DEF SpinSee, PoolTypes, WorkerTypes, InTeam, Step, WorkerPCs
    <2> QED
        BY <2>1, <2>2
<1>2. CASE LockMu(w)
    <2>1. PoolTypes' /\ (CallerTypes /\ CallNumbered)' /\ CountTypes'
        BY <1>2 DEF LockMu, PoolTypes, poolVars, CallerTypes, CallNumbered, callerVars, CountTypes
    <2>2. (WorkerTypes /\ InTeam)'
        BY <1>2 DEF LockMu, WorkerTypes, InTeam, workerVars, Step, WorkerPCs
    <2> QED
        BY <2>1, <2>2
<1>3. CASE SetSleeping(w)
    <2>1. PoolTypes' /\ (CallerTypes /\ CallNumbered)' /\ CountTypes'
        BY <1>3 DEF SetSleeping, PoolTypes, poolVars, CallerTypes, CallNumbered, callerVars, CountTypes
    <2>2. (WorkerTypes /\ InTeam)'
        BY <1>3 DEF SetSleeping, WorkerTypes, InTeam, workerVars, Step, WorkerPCs
    <2> QED
        BY <2>1, <2>2
<1>4. CASE Check(w)
    <2>1. PoolTypes' /\ (CallerTypes /\ CallNumbered)' /\ CountTypes'
        BY <1>4 DEF Check, PoolTypes, poolVars, CallerTypes, CallNumbered, callerVars, CountTypes
    <2>2. (WorkerTypes /\ InTeam)'
        <3>1. wpc' \in [Workers -> WorkerPCs] /\ InTeam'
            BY <1>4 DEF Check, WorkerTypes, InTeam, Step, WorkerPCs
        <3>2. mu' \in [Workers -> BOOLEAN]
            BY <1>4 DEF Check, WorkerTypes
        <3>3. seen' \in [Workers -> Words]
            BY <1>4 DEF Check, PoolTypes, WorkerTypes
        <3> QED
            BY <1>4, <3>1, <3>2, <3>3 DEF Check, WorkerTypes
    <2> QED
        BY <2>1, <2>2
<1>5. CASE SpuriousWakeup(w)
    <2>1. PoolTypes' /\ (CallerTypes /\ CallNumbered)' /\ CountTypes'
        BY <1>5 DEF SpuriousWakeup, PoolTypes, poolVars, CallerTypes, CallNumbered, callerVars, CountTypes
    <2>2. (WorkerTypes /\ InTeam)'
        BY <1>5 DEF SpuriousWakeup, WorkerTypes, InTeam, workerVars, Step, WorkerPCs
    <2> QED
        BY <2>1, <2>2
<1>6. CASE Relock(w)
    <2>1. PoolTypes' /\ (CallerTypes /\ CallNumbered)' /\ CountTypes'
        BY <1>6 DEF Relock, PoolTypes, poolVars, CallerTypes, CallNumbered, callerVars, CountTypes
    <2>2. (WorkerTypes /\ InTeam)'
        BY <1>6 DEF Relock, WorkerTypes, InTeam, workerVars, Step, WorkerPCs
    <2> QED
        BY <2>1, <2>2
<1>7. CASE LeaveSleep(w)
    <2>1. PoolTypes' /\ (CallerTypes /\ CallNumbered)' /\ CountTypes'
        BY <1>7 DEF LeaveSleep, PoolTypes, poolVars, CallerTypes, CallNumbered, callerVars, CountTypes
    <2>2. (WorkerTypes /\ InTeam)'
        BY <1>7 DEF LeaveSleep, WorkerTypes, InTeam, workerVars, Step, WorkerPCs
    <2> QED
        BY <2>1, <2>2
<1>8. CASE TestTeam(w)
    <2>1. PoolTypes' /\ (CallerTypes /\ CallNumbered)' /\ CountTypes'
        BY <1>8 DEF TestTeam, PoolTypes, poolVars, CallerTypes, CallNumbered, callerVars, CountTypes
    <2>2. (WorkerTypes /\ InTeam)'
        BY <1>8 DEF TestTeam, WorkerTypes, InTeam, workerVars, Step, WorkerPCs
    <2> QED
        BY <2>1, <2>2
<1>9. CASE ReadTask(w)
    <2>1. PoolTypes' /\ (CallerTypes /\ CallNumbered)' /\ CountTypes'
        BY <1>9 DEF ReadTask, PoolTypes, poolVars, CallerTypes, CallNumbered, callerVars, CountTypes
    <2>2. (WorkerTypes /\ InTeam)'
        <3>1. w < seen[w].T
            BY <1>9 DEF ReadTask, InTeam
        <3>2. ParRange(task.n, w, seen[w].T) \in SUBSET Int
            BY SMTT(30), <3>1, RangeIsInt DEF PoolTypes, WorkerTypes, Words, Workers
        <3> QED
            BY <1>9, <3>1, <3>2 DEF ReadTask, PoolTypes, WorkerTypes, InTeam, Step, WorkerPCs
    <2> QED
        BY <2>1, <2>2
<1>10. CASE Pull(w)
    <2>1. PoolTypes' /\ (WorkerTypes /\ InTeam)' /\ (CallerTypes /\ CallNumbered)'
        BY <1>10 DEF Pull, PoolTypes, poolVars, WorkerTypes, InTeam, workerVars, CallerTypes, CallNumbered, callerVars
    <2>2. CountTypes'
        <3>1. ran' \in [Jobs -> [MaxItems -> Nat]]
            BY <1>10, TookTypes DEF Pull
        <3>2. next' \in [Callers -> Nat]
            BY <1>10, ClaimTypes DEF Pull
        <3> QED
            BY <3>1, <3>2 DEF CountTypes
    <2> QED
        BY <2>1, <2>2
<1>11. CASE Body(w)
    <2>1. PoolTypes' /\ (CallerTypes /\ CallNumbered)'
        BY <1>11 DEF Body, PoolTypes, poolVars, CallerTypes, CallNumbered, callerVars
    <2>2. (WorkerTypes /\ InTeam)'
        BY <1>11 DEF Body, WorkerTypes, InTeam, workerVars, Step, WorkerPCs, EmptyHand
    <2>3. CountTypes'
        BY <1>11, TookTypes DEF Body, CountTypes, Claim
    <2> QED
        BY <2>1, <2>2, <2>3
<1>12. CASE Finish(w)
    <2>1. PoolTypes' /\ (CallerTypes /\ CallNumbered)' /\ CountTypes'
        BY <1>12 DEF Finish, PoolTypes, poolVars, CallerTypes, CallNumbered, callerVars, CountTypes
    <2>2. (WorkerTypes /\ InTeam)'
        BY <1>12 DEF Finish, WorkerTypes, InTeam, workerVars, Step, WorkerPCs
    <2> QED
        BY <2>1, <2>2
<1> QED
    BY <1>1, <1>2, <1>3, <1>4, <1>5, <1>6, <1>7, <1>8, <1>9, <1>10, <1>11, <1>12 DEF WorkerStep

-----------------------------------------------------------------------------
(* A worker's step: nothing of the pool, the callers or another worker moves. *)

LEMMA WorkerFrame ==
    ASSUME NEW w \in Workers, WorkerStep(w) \/ SpuriousWakeup(w)
    PROVE  UNCHANGED <<lock, word, task, cpc, calls, req, idx>>
    BY DEF WorkerStep, SpinSee, LockMu, SetSleeping, Check, SpuriousWakeup, Relock, LeaveSleep,
           TestTeam, ReadTask, Pull, Body, Finish, poolVars, workerVars, callerVars

LEMMA OtherWorkers ==
    ASSUME Types, NEW w \in Workers, WorkerStep(w) \/ SpuriousWakeup(w),
           NEW v \in Workers, v # w
    PROVE  /\ wpc'[v] = wpc[v] /\ seen'[v] = seen[v] /\ done'[v] = done[v]
           /\ sleeping'[v] = sleeping[v] /\ hand'[v] = hand[v]
    BY DEF WorkerStep, SpinSee, LockMu, SetSleeping, Check, SpuriousWakeup, Relock, LeaveSleep,
           TestTeam, ReadTask, Pull, Body, Finish, poolVars, workerVars, Step,
           Types, TypeOK, WorkerTypes

LEMMA OtherWorkersKeep ==
    ASSUME IInv, NEW w \in Workers, WorkerStep(w) \/ SpuriousWakeup(w),
           NEW v \in Workers, v # w
    PROVE  WorkerInv(v)'
<1>1. Types /\ WorkerInv(v)
    BY DEF IInv
<1> QED
    BY <1>1, WorkerFrame, OtherWorkers
    DEF WorkerInv, WordsPast, OwerHeld, BusyCurrent, SleepFlag, WakeAhead, Owes, Busy, Job

LEMMA OwnStepKeeps ==
    ASSUME IInv, NEW w \in Workers, WorkerStep(w) \/ SpuriousWakeup(w)
    PROVE  WorkerInv(w)'
<1> USE DEF WorkerInv, WordsPast, OwerHeld, BusyCurrent, SleepFlag, WakeAhead, Owes, Busy, Job
<1>1. /\ WorkerInv(w)
      /\ word \in Words
      /\ wpc \in [Workers -> WorkerPCs] /\ seen \in [Workers -> Words]
      /\ done \in [Workers -> Words] /\ sleeping \in [Workers -> BOOLEAN]
      /\ hand \in [Workers -> [items : SUBSET Int, job : Jobs \cup {NoJob}]]
      /\ wpc[w] \in {"read", "body", "finish"} => w < seen[w].T
    BY DEF IInv, Types, TypeOK, PoolTypes, WorkerTypes, InTeam
<1>2. UNCHANGED <<lock, word, task, cpc, calls, req, idx>>
    BY WorkerFrame
<1>3. CASE SpinSee(w)
    BY <1>1, <1>2, <1>3 DEF SpinSee, Step, Words
<1>4. CASE LockMu(w)
    BY <1>1, <1>2, <1>4 DEF LockMu, Step, Words
<1>5. CASE SetSleeping(w)
    BY <1>1, <1>2, <1>5 DEF SetSleeping, Step, Words
<1>6. CASE Check(w)
    BY <1>1, <1>2, <1>6 DEF Check, Step, Words
<1>7. CASE SpuriousWakeup(w)
    BY <1>1, <1>2, <1>7 DEF SpuriousWakeup, Step, Words
<1>8. CASE Relock(w)
    BY <1>1, <1>2, <1>8 DEF Relock, Step, Words
<1>9. CASE LeaveSleep(w)
    BY <1>1, <1>2, <1>9 DEF LeaveSleep, Step, Words
<1>10. CASE TestTeam(w)
    BY <1>1, <1>2, <1>10 DEF TestTeam, Step, Words
<1>11. CASE ReadTask(w)
    <2>1. task.job = Job(lock)
        BY <1>1, <1>11 DEF IInv, CallerInv, TaskWritten, ReadTask
    <2>2. hand'[w].job = task.job /\ wpc'[w] = "body" /\ UNCHANGED <<done, seen, sleeping>>
        BY <1>1, <1>11 DEF ReadTask, Step, workerVars
    <2> QED
        BY <1>1, <1>2, <1>11, <2>1, <2>2 DEF ReadTask
<1>12. CASE Pull(w)
    BY <1>1, <1>2, <1>12 DEF Pull, Step, Words, workerVars
<1>13. CASE Body(w)
    BY <1>1, <1>2, <1>13 DEF Body, Step, Words
<1>14. CASE Finish(w)
    BY <1>1, <1>2, <1>14 DEF Finish, Step, Words
<1> QED
    BY <1>3, <1>4, <1>5, <1>6, <1>7, <1>8, <1>9, <1>10, <1>11, <1>12, <1>13, <1>14 DEF WorkerStep

LEMMA WorkerStepKeepsCallers ==
    ASSUME IInv, NEW w \in Workers, WorkerStep(w) \/ SpuriousWakeup(w)
    PROVE  CallerInv'
<1>1. UNCHANGED <<lock, word, task, cpc, calls, req, idx>>
    BY WorkerFrame
<1>2. (LockHeld /\ TaskWritten /\ TeamPublished)'
    BY <1>1 DEF IInv, CallerInv, LockHeld, TaskWritten, TeamPublished, Job
<1>3. \A v \in Workers : done[v] = word => done'[v] = word
    <2>1. TAKE v \in Workers
    <2>2. CASE v # w
        BY <2>2, OtherWorkers DEF IInv
    <2>3. CASE v = w /\ Finish(w)
        BY <2>3 DEF IInv, WorkerInv, BusyCurrent, OwerHeld, Owes, Busy, Finish
    <2>4. CASE v = w /\ ~Finish(w)
        BY <2>4 DEF WorkerStep, SpinSee, LockMu, SetSleeping, Check, SpuriousWakeup, Relock,
                    LeaveSleep, TestTeam, ReadTask, Pull, Body, workerVars
    <2> QED
        BY <2>2, <2>3, <2>4
<1>4. JoinedDone'
    BY <1>1, <1>3 DEF IInv, CallerInv, JoinedDone
<1> QED
    BY <1>2, <1>4 DEF CallerInv

LEMMA WorkerKeeps ==
    ASSUME IInv, NEW w \in Workers, WorkerStep(w) \/ SpuriousWakeup(w)
    PROVE  IInv'
<1>1. Types'
    BY WorkerKeepsTypes DEF IInv
<1>2. ASSUME NEW v \in Workers PROVE WorkerInv(v)'
    BY OtherWorkersKeep, OwnStepKeeps
<1> QED
    BY <1>1, <1>2, WorkerStepKeepsCallers DEF IInv, Workers

-----------------------------------------------------------------------------
(* A caller's step: the other callers stay where they are. *)

LEMMA OtherCallers ==
    ASSUME Types, NEW c \in Callers, Call(c) \/ CallerStep(c), NEW d \in Callers, d # c
    PROVE  cpc'[d] = cpc[d] /\ calls'[d] = calls[d] /\ req'[d] = req[d] /\ idx'[d] = idx[d]
    BY DEF CallerStep, Call, Serial, SerialReturn, Lock, Grow, GrowTo, WriteTask, Publish,
           LookSleeping, Signal, BeginOwn, OwnPull, OwnBody, Join, Return, Goto, callerVars,
           Types, TypeOK, CallerTypes

LEMMA CallerStepKeepsCallers ==
    ASSUME IInv, NEW c \in Callers, Call(c) \/ CallerStep(c)
    PROVE  CallerInv'
<1>1. /\ CallerInv
      /\ cpc \in [Callers -> CallerPCs] /\ calls \in [Callers -> 0 .. MaxCalls]
      /\ req \in [Callers -> [n : Nat, T : 0 .. PoolMax, dyn : BOOLEAN, nest : BOOLEAN]]
      /\ idx \in [Callers -> Nat]
    BY DEF IInv, Types, TypeOK, CallerTypes
<1>2. \A d \in Callers : d # c => /\ cpc'[d] = cpc[d] /\ calls'[d] = calls[d]
                                 /\ req'[d] = req[d] /\ idx'[d] = idx[d]
    BY OtherCallers DEF IInv
<1> USE NobodyAssumption DEF CallerInv, LockHeld, TaskWritten, TeamPublished, JoinedDone, Job,
        Locked, InFlight, Goto
<1>3. CASE Call(c)
    BY <1>1, <1>2, <1>3 DEF Call, poolVars, workerVars, callerVars
<1>4. CASE Serial(c)
    BY <1>1, <1>2, <1>4 DEF Serial, poolVars, workerVars, callerVars
<1>5. CASE SerialReturn(c)
    BY <1>1, <1>2, <1>5 DEF SerialReturn, poolVars, workerVars, callerVars
<1>6. CASE Lock(c)
    BY <1>1, <1>2, <1>6 DEF Lock, poolVars, workerVars, callerVars
<1>7. CASE Grow(c)
    <2>1. cpc[c] = "grow" /\ lock = c /\ UNCHANGED <<word, task, calls, idx>>
        BY <1>1, <1>7 DEF Grow
    <2>2. \/ cpc' = [cpc EXCEPT ![c] = "serial"] /\ lock' = Nobody
          \/ cpc' = [cpc EXCEPT ![c] = "write"] /\ lock' = lock
        BY <1>7 DEF Grow, GrowTo
    <2>3. \A d \in Callers : d # c => cpc'[d] = cpc[d] /\ cpc[d] \notin Locked
        BY <1>1, <1>2, <2>1
    <2>4. \/ cpc'[c] = "serial" /\ lock' = Nobody
          \/ cpc'[c] = "write" /\ lock' = c
        BY <1>1, <2>1, <2>2
    <2>5. LockHeld'
        BY <2>3, <2>4
    <2>6. \A d \in Callers : cpc'[d] \notin InFlight \cup {"publish"}
        BY <2>3, <2>4
    <2>7. (TaskWritten /\ TeamPublished /\ JoinedDone)'
        BY <2>6
    <2> QED
        BY <2>5, <2>7
<1>8. CASE WriteTask(c)
    BY <1>1, <1>2, <1>8 DEF WriteTask, poolVars, workerVars, callerVars
<1>9. CASE Publish(c)
    BY <1>1, <1>2, <1>9 DEF Publish, poolVars, workerVars, callerVars
<1>10. CASE LookSleeping(c)
    BY <1>1, <1>2, <1>10 DEF LookSleeping, poolVars, workerVars, callerVars
<1>11. CASE Signal(c)
    BY <1>1, <1>2, <1>11 DEF Signal, poolVars, workerVars, callerVars
<1>12. CASE BeginOwn(c)
    BY <1>1, <1>2, <1>12 DEF BeginOwn, poolVars, workerVars, callerVars
<1>13. CASE OwnPull(c)
    BY <1>1, <1>2, <1>13 DEF OwnPull, poolVars, workerVars, callerVars
<1>14. CASE OwnBody(c)
    BY <1>1, <1>2, <1>14 DEF OwnBody, Workers, poolVars, workerVars, callerVars
<1>15. CASE Join(c)
    <2>1. UNCHANGED <<lock, word, task, done, cpc, calls, req>>
        BY <1>15 DEF Join, poolVars, workerVars
    <2>2. idx[c] \in Nat /\ idx'[c] = idx[c] + 1 /\ done[idx[c]] = word
        BY <1>1, <1>15 DEF Join
    <2>3. \A w \in Workers : w < idx'[c] => w < idx[c] \/ w = idx[c]
        BY <2>2 DEF Workers
    <2>4. JoinedDone'
        BY <1>1, <1>2, <2>1, <2>2, <2>3
    <2> QED
        BY <1>1, <2>1, <2>4
<1>16. CASE Return(c)
    BY <1>1, <1>2, <1>16 DEF Return, poolVars, workerVars, callerVars
<1> QED
    BY <1>3, <1>4, <1>5, <1>6, <1>7, <1>8, <1>9, <1>10, <1>11, <1>12, <1>13, <1>14, <1>15, <1>16 DEF CallerStep

LEMMA CallerStepKeepsWorkers ==
    ASSUME IInv, NEW c \in Callers, Call(c) \/ CallerStep(c), NEW w \in Workers
    PROVE  WorkerInv(w)'
<1> USE DEF WorkerInv, WordsPast, OwerHeld, BusyCurrent, SleepFlag, WakeAhead, Owes, Busy, Job,
        Locked, InFlight
<1>1. /\ WorkerInv(w) /\ CallerInv /\ word \in Words
      /\ cpc \in [Callers -> CallerPCs] /\ calls \in [Callers -> 0 .. MaxCalls]
      /\ req \in [Callers -> [n : Nat, T : 0 .. PoolMax, dyn : BOOLEAN, nest : BOOLEAN]]
      /\ idx \in [Callers -> Nat]
      /\ wpc \in [Workers -> WorkerPCs] /\ seen \in [Workers -> Words]
      /\ done \in [Workers -> Words] /\ sleeping \in [Workers -> BOOLEAN]
    BY DEF IInv, Types, TypeOK, PoolTypes, WorkerTypes, CallerTypes
<1>2. /\ cpc[c] \in Locked => lock = c
      /\ cpc[c] \in {"grow", "write", "publish"} => ~Owes(w)
      /\ lock = Nobody => ~Owes(w)
    BY <1>1, NobodyAssumption DEF CallerInv, LockHeld
<1>3. CASE Call(c)
    BY <1>1, <1>3 DEF Call, Goto, CallerInv, LockHeld, TeamPublished, JoinedDone, Words, poolVars, workerVars, callerVars
<1>4. CASE Serial(c)
    BY <1>1, <1>4 DEF Serial, Goto, CallerInv, LockHeld, TeamPublished, JoinedDone, Words, poolVars, workerVars, callerVars
<1>5. CASE SerialReturn(c)
    BY <1>1, <1>5 DEF SerialReturn, Goto, CallerInv, LockHeld, TeamPublished, JoinedDone, Words, poolVars, workerVars, callerVars
<1>6. CASE Lock(c)
    BY <1>1, <1>2, <1>6 DEF Lock, Goto, workerVars
<1>7. CASE Grow(c)
    <2>1. PICK k \in nWorkers .. (IF nWorkers + 1 < req[c].T THEN req[c].T - 1 ELSE nWorkers) :
              GrowTo(c, k)
        BY <1>7 DEF Grow
    <2>2. ~Owes(w) /\ word' = word /\ hand' = hand
        BY <1>2, <1>7 DEF Grow
    <2>3. CASE w \in nWorkers + 1 .. k
        BY <1>1, <2>1, <2>2, <2>3 DEF GrowTo, Words, NoWord
    <2>4. CASE w \notin nWorkers + 1 .. k
        BY <1>1, <2>1, <2>2, <2>4 DEF GrowTo
    <2> QED
        BY <2>3, <2>4
<1>8. CASE WriteTask(c)
    BY <1>1, <1>8 DEF WriteTask, Goto, CallerInv, LockHeld, TeamPublished, JoinedDone, Words, poolVars, workerVars, callerVars
<1>9. CASE Publish(c)
    BY <1>1, <1>2, <1>9 DEF Publish, Goto, Words, Workers, workerVars
<1>10. CASE LookSleeping(c)
    BY <1>1, <1>2, <1>10 DEF LookSleeping, Goto, Workers, poolVars, workerVars
<1>11. CASE Signal(c)
    BY <1>1, <1>2, <1>11 DEF Signal, Goto, Workers, poolVars
<1>12. CASE BeginOwn(c)
    BY <1>1, <1>2, <1>12 DEF BeginOwn, Goto, CallerInv, TeamPublished, Workers, Words, poolVars, workerVars
<1>13. CASE OwnPull(c)
    BY <1>1, <1>13 DEF OwnPull, Goto, CallerInv, LockHeld, TeamPublished, JoinedDone, Words, poolVars, workerVars, callerVars
<1>14. CASE OwnBody(c)
    BY <1>1, <1>14 DEF OwnBody, Goto, CallerInv, LockHeld, TeamPublished, JoinedDone, Words, poolVars, workerVars, callerVars
<1>15. CASE Join(c)
    BY <1>1, <1>15 DEF Join, Goto, CallerInv, LockHeld, TeamPublished, JoinedDone, Words, poolVars, workerVars, callerVars
<1>16. CASE Return(c)
    <2>1. cpc[c] = "join" /\ idx[c] = req[c].T /\ word.T = req[c].T
        BY <1>1, <1>16 DEF Return, CallerInv, TeamPublished
    <2>2. w < word.T => done[w] = word
        BY <1>1, <2>1 DEF CallerInv, JoinedDone
    <2>3. Owes(w) => w < word.T
        BY <1>1 DEF IInv, Types, InTeam
    <2>4. ~Owes(w)
        BY <1>1, <2>2, <2>3
    <2>5. UNCHANGED <<word, done, sleeping, wpc, seen, hand>>
        BY <1>16 DEF Return, workerVars
    <2> QED
        BY <1>1, <2>4, <2>5
<1> QED
    BY <1>3, <1>4, <1>5, <1>6, <1>7, <1>8, <1>9, <1>10, <1>11, <1>12, <1>13, <1>14, <1>15, <1>16 DEF CallerStep

LEMMA CallerKeeps ==
    ASSUME IInv, NEW c \in Callers, Call(c) \/ CallerStep(c)
    PROVE  IInv'
<1>1. Types'
    BY CallerKeepsTypes DEF IInv
<1>2. ASSUME NEW w \in Workers PROVE WorkerInv(w)'
    BY CallerStepKeepsWorkers
<1> QED
    BY <1>1, <1>2, CallerStepKeepsCallers DEF IInv, Workers

-----------------------------------------------------------------------------
LEMMA InitHolds == Init => IInv
<1> SUFFICES ASSUME Init PROVE IInv
    OBVIOUS
<1>1. Types
    BY ConstantsAssumption DEF Init, Types, TypeOK, PoolTypes, WorkerTypes, CallerTypes, CountTypes,
        CallNumbered, InTeam, NoTask, NoWord, NoJob, NoRequest, EmptyHand, Words, CallerPCs, WorkerPCs
<1>2. CallerInv
    BY NobodyAssumption DEF Init, CallerInv, LockHeld, TaskWritten, TeamPublished, JoinedDone,
        Locked, InFlight
<1>3. \A w \in Workers : WorkerInv(w)
    BY DEF Init, WorkerInv, WordsPast, OwerHeld, BusyCurrent, SleepFlag, WakeAhead, Owes, Busy,
        NoWord, Workers
<1> QED
    BY <1>1, <1>2, <1>3 DEF IInv

LEMMA StepKeeps == IInv /\ [Next]_vars => IInv'
<1> SUFFICES ASSUME IInv, [Next]_vars PROVE IInv'
    OBVIOUS
<1>1. CASE Next
    BY <1>1, CallerKeeps, WorkerKeeps DEF Next
<1>2. CASE UNCHANGED vars
    <2>1. Types'
        BY <1>2 DEF IInv, Types, TypeOK, PoolTypes, WorkerTypes, CallerTypes, CountTypes,
            CallNumbered, InTeam, vars, poolVars, workerVars, callerVars
    <2>2. CallerInv'
        BY <1>2 DEF IInv, CallerInv, LockHeld, TaskWritten, TeamPublished, JoinedDone, Job,
            vars, poolVars, workerVars, callerVars
    <2>3. (\A w \in Workers : WorkerInv(w))'
        BY <1>2 DEF IInv, WorkerInv, WordsPast, OwerHeld, BusyCurrent, SleepFlag, WakeAhead, Owes,
            Busy, Job, vars, poolVars, workerVars, callerVars
    <2> QED
        BY <2>1, <2>2, <2>3 DEF IInv
<1> QED
    BY <1>1, <1>2

LEMMA Inductive == Spec => []IInv
    BY InitHolds, StepKeeps, PTL DEF Spec

\* Every variable keeps its type; in particular the team never exceeds the pool
\* and a published job is one a caller has made.
THEOREM TypesHold == Spec => []TypeOK
<1>1. IInv => TypeOK
    BY DEF IInv, Types
<1> QED
    BY Inductive, <1>1, PTL

\* par.c, struct pool: n, fn and ctx are written under the lock before the word
\* that publishes them and read only by that word's team until each has stored
\* it: no worker ever runs another call's task, for any callers and pool size.
THEOREM TaskNeverChangesUnderWorker == Spec => []TaskStable
<1>1. IInv => TaskStable
    <2> SUFFICES ASSUME IInv, NEW w \in Workers, Working(w)
                 PROVE  /\ seen[w] = word
                        /\ lock \in Callers
                        /\ cpc[lock] \in InFlight
                        /\ task.job = Job(lock) /\ task.n = req[lock].n
                        /\ word.T = req[lock].T
                        /\ wpc[w] = "body" => hand[w].job = Job(lock)
        BY DEF TaskStable, InFlight
    <2>1. Busy(w)
        BY DEF Working, Busy
    <2>2. seen[w] = word /\ lock \in Callers /\ cpc[lock] \in InFlight
        BY <2>1 DEF IInv, WorkerInv, BusyCurrent, OwerHeld, Owes
    <2>3. task.job = Job(lock) /\ task.n = req[lock].n /\ word.T = req[lock].T
        BY <2>2 DEF IInv, CallerInv, TaskWritten, TeamPublished
    <2> QED
        BY <2>2, <2>3 DEF IInv, WorkerInv, BusyCurrent
<1> QED
    BY Inductive, <1>1, PTL

\* wait_word and the wake loop of geist_par_for: a worker that waits on its
\* condition variable while a word counts it in is still ahead of the caller's
\* loop, which finds its flag up.
THEOREM NoWakeupIsLost == Spec => []NoLostWakeup
<1>1. IInv => NoLostWakeup
    BY DEF IInv, NoLostWakeup, WorkerInv, WakeAhead, OwerHeld, SleepFlag, Owes
<1> QED
    BY Inductive, <1>1, PTL

\* The join of geist_par_for: a worker whose `done` equals the word has left the
\* body and cannot enter it again for that word.
THEOREM JoinWaitsForTheTeam == Spec => []JoinedMeansDone
<1>1. IInv => JoinedMeansDone
    <2> SUFFICES ASSUME IInv, NEW c \in Callers, cpc[c] = "join", NEW w \in Workers, w < idx[c]
                 PROVE  done[w] = word /\ ~Working(w)
        BY DEF JoinedMeansDone
    <2>1. done[w] = word
        BY DEF IInv, CallerInv, JoinedDone
    <2> QED
        BY <2>1 DEF IInv, WorkerInv, OwerHeld, Owes, Busy, Working
<1> QED
    BY Inductive, <1>1, PTL

-----------------------------------------------------------------------------
(* par_range: the ranges of a team partition [0, n). *)

\* Division with remainder.
LEMMA Division ==
    ASSUME NEW a \in Nat, NEW b \in Nat \ {0}
    PROVE  /\ a \div b \in Nat /\ a % b \in Nat /\ a % b < b
           /\ a = (a \div b) * b + (a % b)
    OBVIOUS

LEMMA ProductGrows ==
    ASSUME NEW a \in Nat, NEW b \in Nat, NEW q \in Nat, a <= b
    PROVE  a * q \in Nat /\ b * q \in Nat /\ a * q <= b * q
<1>1. PICK d \in Nat : b = a + d
    <2>1. b - a \in Nat /\ b = a + (b - a)
        OBVIOUS
    <2> QED
        BY <2>1
<1>2. b * q = a * q + d * q
    BY <1>1
<1>3. a * q \in Nat /\ d * q \in Nat
    OBVIOUS
<1> QED
    BY <1>2, <1>3

\* The range of a thread ends where that of the next one begins.
Begin(n, t, T) == t * (n \div T) + Least(t, n % T)

LEMMA RangeEnds ==
    ASSUME NEW n \in Nat, NEW T \in Nat \ {0}, NEW t \in Nat
    PROVE  /\ Begin(n, t, T) \in Nat /\ Begin(n, t + 1, T) \in Nat
           /\ ParRange(n, t, T) = Begin(n, t, T) .. Begin(n, t + 1, T) - 1
<1> DEFINE q == n \div T
           r == n % T
<1>1. q \in Nat /\ r \in Nat
    BY Division
<1> HIDE DEF q, r
<1>2. t * q \in Nat /\ (t + 1) * q = t * q + q
    BY <1>1
<1>3. Least(t + 1, r) = Least(t, r) + (IF t < r THEN 1 ELSE 0) /\ Least(t, r) \in Nat
    BY <1>1 DEF Least
<1>4. ParRange(n, t, T) = t * q + Least(t, r) .. t * q + Least(t, r) + q + (IF t < r THEN 1 ELSE 0) - 1
    BY DEF ParRange, q, r
<1>5. Begin(n, t, T) = t * q + Least(t, r) /\ Begin(n, t + 1, T) = (t + 1) * q + Least(t + 1, r)
    BY DEF Begin, q, r
<1>6. Begin(n, t, T) \in Nat /\ Begin(n, t + 1, T) \in Nat
    BY <1>1, <1>2, <1>3, <1>5
<1>7. Begin(n, t + 1, T) = t * q + Least(t, r) + q + (IF t < r THEN 1 ELSE 0)
    BY <1>1, <1>2, <1>3, <1>5
<1> QED
    BY SMTT(30), <1>1, <1>2, <1>3, <1>4, <1>5, <1>6, <1>7

LEMMA BeginGrows ==
    ASSUME NEW n \in Nat, NEW T \in Nat \ {0}, NEW t \in Nat, NEW u \in Nat, t <= u
    PROVE  Begin(n, t, T) <= Begin(n, u, T)
<1> DEFINE q == n \div T
           r == n % T
<1>1. q \in Nat /\ r \in Nat
    BY Division
<1> HIDE DEF q, r
<1>2. t * q \in Nat /\ u * q \in Nat /\ t * q <= u * q
    BY <1>1, ProductGrows
<1>3. Least(t, r) \in Nat /\ Least(u, r) \in Nat /\ Least(t, r) <= Least(u, r)
    BY <1>1 DEF Least
<1>4. Begin(n, t, T) = t * q + Least(t, r) /\ Begin(n, u, T) = u * q + Least(u, r)
    BY DEF Begin, q, r
<1> QED
    BY <1>2, <1>3, <1>4

LEMMA RangesDisjoint ==
    ASSUME NEW n \in Nat, NEW T \in Nat \ {0}, NEW t \in Nat, NEW u \in Nat, t # u
    PROVE  ParRange(n, t, T) \cap ParRange(n, u, T) = {}
<1>1. /\ ParRange(n, t, T) = Begin(n, t, T) .. Begin(n, t + 1, T) - 1
      /\ ParRange(n, u, T) = Begin(n, u, T) .. Begin(n, u + 1, T) - 1
      /\ Begin(n, t, T) \in Nat /\ Begin(n, t + 1, T) \in Nat
      /\ Begin(n, u, T) \in Nat /\ Begin(n, u + 1, T) \in Nat
    BY RangeEnds
<1>2. CASE t < u
    <2>1. Begin(n, t + 1, T) <= Begin(n, u, T)
        BY <1>2, BeginGrows
    <2> QED
        BY <1>1, <2>1
<1>3. CASE u < t
    <2>1. Begin(n, u + 1, T) <= Begin(n, t, T)
        BY <1>3, BeginGrows
    <2> QED
        BY <1>1, <2>1
<1> QED
    BY <1>2, <1>3

LEMMA RangesInside ==
    ASSUME NEW n \in Nat, NEW T \in Nat \ {0}, NEW t \in Nat, t < T
    PROVE  ParRange(n, t, T) \subseteq Items(n)
<1>1. Begin(n, T, T) = n
    <2>1. n \div T \in Nat /\ n % T \in Nat /\ n % T < T /\ n = (n \div T) * T + (n % T)
        BY Division
    <2>2. Least(T, n % T) = n % T
        BY <2>1 DEF Least
    <2>3. T * (n \div T) = (n \div T) * T
        BY <2>1
    <2> QED
        BY <2>1, <2>2, <2>3 DEF Begin
<1>2. Begin(n, t + 1, T) <= Begin(n, T, T)
    <2>1. t + 1 \in Nat /\ t + 1 <= T
        OBVIOUS
    <2> QED
        BY <2>1, BeginGrows
<1>3. Begin(n, t, T) \in Nat /\ Begin(n, t + 1, T) \in Nat
    BY RangeEnds
<1>4. ParRange(n, t, T) = Begin(n, t, T) .. Begin(n, t + 1, T) - 1
    BY RangeEnds
<1> QED
    BY <1>1, <1>2, <1>3, <1>4 DEF Items

LEMMA RangesCover ==
    ASSUME NEW n \in Nat, NEW T \in Nat \ {0}, NEW i \in Items(n)
    PROVE  \E t \in 0 .. T - 1 : i \in ParRange(n, t, T)
<1> DEFINE q == n \div T
           r == n % T
<1>1. q \in Nat /\ r \in Nat /\ r < T /\ n = q * T + r
    BY Division
<1> HIDE DEF q, r
<1>2. i \in Nat /\ i < n
    BY DEF Items
<1>3. \A t \in Nat : Begin(n, t, T) = t * q + Least(t, r)
    BY DEF Begin, q, r
<1>4. CASE i < r * (q + 1)
    <2> DEFINE t == i \div (q + 1)
    <2>1. t \in Nat /\ i % (q + 1) \in Nat /\ i % (q + 1) < q + 1 /\ i = t * (q + 1) + (i % (q + 1))
        <3>1. q + 1 \in Nat \ {0}
            BY <1>1
        <3> QED
            BY <1>2, <3>1, Division
    <2> HIDE DEF t
    <2>2. t < r
        <3> SUFFICES ASSUME r <= t PROVE FALSE
            BY <1>1, <2>1
        <3>1. r * (q + 1) <= t * (q + 1) /\ t * (q + 1) \in Nat /\ r * (q + 1) \in Nat
            BY <1>1, <2>1, ProductGrows
        <3> QED
            BY <1>2, <1>4, <2>1, <3>1
    <2>3. Least(t, r) = t /\ Least(t + 1, r) = t + 1
        BY <1>1, <2>1, <2>2 DEF Least
    <2>4. t * (q + 1) = t * q + t /\ (t + 1) * q + (t + 1) = t * (q + 1) + (q + 1) /\ t * q \in Nat
        BY <1>1, <2>1
    <2>5. i \in ParRange(n, t, T)
        <3>1. t * q + t <= i /\ i <= (t + 1) * q + (t + 1) - 1
            BY <1>1, <1>2, <2>1, <2>4
        <3>2. Begin(n, t, T) = t * q + t /\ Begin(n, t + 1, T) = (t + 1) * q + (t + 1)
            BY <1>3, <2>1, <2>3
        <3>3. /\ ParRange(n, t, T) = Begin(n, t, T) .. Begin(n, t + 1, T) - 1
              /\ Begin(n, t, T) \in Nat /\ Begin(n, t + 1, T) \in Nat
            BY <2>1, RangeEnds
        <3> QED
            BY <1>1, <1>2, <2>1, <3>1, <3>2, <3>3
    <2> QED
        BY <1>1, <2>1, <2>2, <2>5
<1>5. CASE r * (q + 1) <= i
    <2> DEFINE j == i - r * (q + 1)
               d == T - r
    <2>1. r * (q + 1) \in Nat /\ r * (q + 1) = r * q + r /\ q * T = r * q + d * q /\ r * q \in Nat /\ d * q \in Nat /\ d \in Nat
        BY <1>1
    <2>2. j \in Nat /\ j < d * q /\ i = r * q + r + j
        BY <1>1, <1>2, <1>5, <2>1
    <2>3. q # 0
        BY <1>1, <2>1, <2>2
    <2> HIDE DEF j, d
    <2> DEFINE s == j \div q
    <2>4. s \in Nat /\ j % q \in Nat /\ j % q < q /\ j = s * q + (j % q)
        BY <1>1, <2>2, <2>3, Division
    <2> HIDE DEF s
    <2>5. s < d
        <3> SUFFICES ASSUME d <= s PROVE FALSE
            BY <2>1, <2>4
        <3>1. d * q <= s * q /\ s * q \in Nat /\ d * q \in Nat
            BY <1>1, <2>1, <2>4, ProductGrows
        <3> QED
            BY <2>2, <2>4, <3>1
    <2>6. Least(r + s, r) = r /\ Least(r + s + 1, r) = r
        BY <1>1, <2>4 DEF Least
    <2>7. (r + s) * q = r * q + s * q /\ (r + s + 1) * q = r * q + s * q + q /\ s * q \in Nat
        BY <1>1, <2>4
    <2>8. i \in ParRange(n, r + s, T)
        <3>1. (r + s) * q + r <= i /\ i <= (r + s + 1) * q + r - 1
            BY <1>1, <1>2, <2>1, <2>2, <2>4, <2>7
        <3>2. r + s \in Nat /\ r + s + 1 \in Nat
            BY <1>1, <2>4
        <3>3. Begin(n, r + s, T) = (r + s) * q + r /\ Begin(n, r + s + 1, T) = (r + s + 1) * q + r
            BY <1>3, <2>6, <3>2
        <3>4. /\ ParRange(n, r + s, T) = Begin(n, r + s, T) .. Begin(n, r + s + 1, T) - 1
              /\ Begin(n, r + s, T) \in Nat /\ Begin(n, r + s + 1, T) \in Nat
            BY <3>2, RangeEnds
        <3> QED
            BY <1>1, <1>2, <2>4, <3>1, <3>3, <3>4
    <2>9. r + s \in 0 .. T - 1
        BY <1>1, <2>4, <2>5 DEF d
    <2> QED
        BY <2>8, <2>9
<1> QED
    BY <1>1, <1>2, <1>4, <1>5

-----------------------------------------------------------------------------
(* What has run of a call. *)

NotBegun == {"serial", "lock", "grow", "write", "publish"}
RangeRun(c, t) == IF t = 0 THEN cpc[c] = "join" ELSE wpc[t] = "finish" \/ done[t] = word
Handed(c, i) ==
    IF req[c].dyn THEN i < next[c]
    ELSE \E t \in 0 .. req[c].T - 1 : i \in ParRange(req[c].n, t, req[c].T) /\ RangeRun(c, t)
HasRun(c, i) == /\ i < req[c].n
                /\ cpc[c] \notin NotBegun
                /\ cpc[c] \in InFlight => Handed(c, i)

CurrentItems ==
    \A c \in Callers : calls[c] >= 1 =>
        \A i \in MaxItems : ran[Job(c)][i] = IF HasRun(c, i) THEN 1 ELSE 0
OtherItems ==
    \A c \in Callers : \A k \in 1 .. MaxCalls : \A i \in MaxItems :
        /\ k < calls[c] => ran[<<c, k>>][i] <= 1
        /\ k > calls[c] => ran[<<c, k>>][i] = 0
TeamOf == \A c \in Callers : cpc[c] \in InFlight \cup {"write", "publish"} => req[c].T >= 1
SizeKnown == \A c \in Callers : cpc[c] # "idle" => req[c].n \in Sizes
Counter ==
    \A c \in Callers : /\ cpc[c] \in NotBegun => next[c] = 0
                       /\ cpc[c] = "join" /\ req[c].dyn => next[c] >= req[c].n
HandItems ==
    \A w \in Workers :
        wpc[w] = "body" => hand[w].items = ParRange(req[lock].n, w, req[lock].T)
ItemInv == CurrentItems /\ OtherItems /\ TeamOf /\ SizeKnown /\ Counter /\ HandItems

-----------------------------------------------------------------------------
LEMMA TookCounts ==
    ASSUME CountTypes, NEW job \in Jobs, NEW S, Took(job, S)
    PROVE  /\ \A i \in MaxItems : ran'[job][i] = ran[job][i] + (IF i \in S THEN 1 ELSE 0)
           /\ \A j \in Jobs : j # job => ran'[j] = ran[j]
    BY DEF CountTypes, Took

LEMMA TeamWorkers ==
    ASSUME Types, NEW c \in Callers, NEW t \in 0 .. req[c].T - 1, t # 0
    PROVE  t \in Workers
<1>1. req[c].T \in 0 .. PoolMax
    BY DEF Types, TypeOK, CallerTypes
<1> QED
    BY <1>1, ConstantsAssumption DEF Workers

\* Only the call in flight has ranges under way.
LEMMA RunsKeepHandOut ==
    ASSUME Types, NEW c \in Callers, NEW i,
           req'[c] = req[c], next'[c] = next[c], cpc'[c] = cpc[c],
           \A v \in Workers : (wpc'[v] = "finish" \/ done'[v] = word')
                                  <=> (wpc[v] = "finish" \/ done[v] = word)
    PROVE  HasRun(c, i)' <=> HasRun(c, i)
<1>1. \A t \in 0 .. req[c].T - 1 : RangeRun(c, t)' <=> RangeRun(c, t)
    BY TeamWorkers DEF RangeRun
<1>2. Handed(c, i)' <=> Handed(c, i)
    BY <1>1 DEF Handed
<1> QED
    BY <1>2 DEF HasRun

LEMMA WorkerKeepsRuns ==
    ASSUME IInv, NEW w \in Workers, WorkerStep(w) \/ SpuriousWakeup(w), ~Body(w)
    PROVE  \A v \in Workers : (wpc'[v] = "finish" \/ done'[v] = word')
                                  <=> (wpc[v] = "finish" \/ done[v] = word)
<1>1. TAKE v \in Workers
<1>2. word' = word
    BY WorkerFrame
<1>3. CASE v # w
    BY <1>2, <1>3, OtherWorkers DEF IInv
<1>4. CASE v = w /\ Finish(w)
    <2>1. wpc[w] = "finish" /\ done'[w] = seen[w]
        BY <1>4 DEF Finish, IInv, Types, TypeOK, WorkerTypes
    <2>2. seen[w] = word
        BY <2>1 DEF IInv, WorkerInv, BusyCurrent, Busy
    <2> QED
        BY <1>2, <1>4, <2>1, <2>2
<1>5. CASE v = w /\ ~Finish(w)
    <2>1. wpc \in [Workers -> WorkerPCs]
        BY DEF IInv, Types, TypeOK, WorkerTypes
    <2>2. (done' = done /\ wpc[w] # "finish" /\ wpc'[w] # "finish") \/ UNCHANGED <<done, wpc>>
        BY <1>5, <2>1 DEF WorkerStep, SpinSee, LockMu, SetSleeping, Check, SpuriousWakeup, Relock,
            LeaveSleep, TestTeam, ReadTask, Pull, workerVars, Step
    <2> QED
        BY <1>2, <1>5, <2>2
<1> QED
    BY <1>3, <1>4, <1>5

\* A worker in its body runs the call in flight.
LEMMA BodyInFlight ==
    ASSUME IInv, NEW w \in Workers, wpc[w] = "body"
    PROVE  /\ lock \in Callers /\ cpc[lock] \in InFlight
           /\ hand[w].job = Job(lock) /\ hand[w].job[1] = lock
           /\ Job(lock) \in Jobs /\ calls[lock] >= 1
           /\ w < req[lock].T /\ done[w] # word
<1>1. Busy(w) /\ WorkerInv(w)
    BY DEF IInv, Busy
<1>2. lock \in Callers /\ cpc[lock] \in InFlight /\ done[w] # word /\ hand[w].job = Job(lock) /\ seen[w] = word
    BY <1>1 DEF WorkerInv, BusyCurrent, OwerHeld, Owes
<1>3. word.T = req[lock].T /\ w < seen[w].T
    BY <1>2 DEF IInv, CallerInv, TeamPublished, Types, InTeam
<1>4. Job(lock) \in Jobs /\ calls[lock] >= 1
    BY <1>2 DEF IInv, Types, TypeOK, CallerTypes, CallNumbered, InFlight, Job, Jobs
<1> QED
    BY <1>2, <1>3, <1>4 DEF Job

\* At most one call is in flight.
LEMMA OneInFlight ==
    ASSUME IInv, NEW c \in Callers, cpc[c] \in Locked
    PROVE  lock = c /\ \A d \in Callers : d # c => cpc[d] \notin Locked
    BY DEF IInv, CallerInv, LockHeld

LEMMA OtherItemsKept ==
    ASSUME Types, OtherItems, UNCHANGED calls,
           \/ UNCHANGED ran
           \/ \E c \in Callers : calls[c] >= 1 /\ \E S : Took(Job(c), S)
    PROVE  OtherItems'
<1>1. CASE UNCHANGED ran
    BY <1>1 DEF OtherItems
<1>2. CASE \E c \in Callers : calls[c] >= 1 /\ \E S : Took(Job(c), S)
    <2>0. PICK c \in Callers : calls[c] >= 1 /\ \E S : Took(Job(c), S)
        BY <1>2
    <2>1. PICK S : calls[c] >= 1 /\ Took(Job(c), S)
        BY <2>0
    <2>2. Job(c) \in Jobs /\ calls[c] \in 0 .. MaxCalls
        BY <2>1 DEF Types, TypeOK, CallerTypes, Job, Jobs
    <2>3. \A j \in Jobs : j # Job(c) => ran'[j] = ran[j]
        BY <2>1, <2>2, TookCounts DEF Types, TypeOK
    <2>4. ASSUME NEW d \in Callers, NEW k \in 1 .. MaxCalls, k # calls[d]
          PROVE  ran'[<<d, k>>] = ran[<<d, k>>]
        <3>1. <<d, k>> \in Jobs /\ <<d, k>> # Job(c)
            BY <2>4 DEF Job, Jobs
        <3> QED
            BY <2>3, <3>1
    <2>5. calls \in [Callers -> 0 .. MaxCalls] /\ MaxCalls \in Nat
        BY ConstantsAssumption DEF Types, TypeOK, CallerTypes
    <2>6. SUFFICES ASSUME NEW d \in Callers, NEW k \in 1 .. MaxCalls, NEW i \in MaxItems
                   PROVE  /\ k < calls[d] => ran'[<<d, k>>][i] <= 1
                          /\ k > calls[d] => ran'[<<d, k>>][i] = 0
        BY DEF OtherItems
    <2>7. k # calls[d] => ran'[<<d, k>>] = ran[<<d, k>>]
        BY <2>4
    <2> QED
        BY <2>5, <2>7 DEF OtherItems
<1> QED
    BY <1>1, <1>2

-----------------------------------------------------------------------------
(* A worker's step. *)

LEMMA WorkerKeepsHand ==
    ASSUME IInv, IInv', HandItems, NEW w \in Workers, WorkerStep(w) \/ SpuriousWakeup(w)
    PROVE  HandItems'
<1>1. UNCHANGED <<lock, word, task, req>>
    BY WorkerFrame
<1>2. SUFFICES ASSUME NEW v \in Workers, wpc'[v] = "body"
               PROVE  hand'[v].items = ParRange(req[lock].n, v, req[lock].T)
    BY <1>1 DEF HandItems
<1>3. CASE v # w
    BY <1>2, <1>3, OtherWorkers DEF HandItems, IInv
<1>4. CASE v = w
    <2>1. wpc \in [Workers -> WorkerPCs] /\ hand \in [Workers -> [items : SUBSET Int, job : Jobs \cup {NoJob}]]
        BY DEF IInv, Types, TypeOK, WorkerTypes
    <2>2. ReadTask(w) \/ Pull(w)
        BY <1>2, <1>4, <2>1 DEF WorkerStep, SpinSee, LockMu, SetSleeping, Check, SpuriousWakeup, Relock,
            LeaveSleep, TestTeam, Body, Finish, Step
    <2>3. CASE ReadTask(w)
        <3>1. hand'[w].items = ParRange(task.n, w, seen[w].T)
            BY <2>1, <2>3 DEF ReadTask
        <3>2. Busy(w) /\ WorkerInv(w)
            BY <2>3 DEF ReadTask, Busy, IInv
        <3>3. seen[w] = word /\ lock \in Callers /\ cpc[lock] \in InFlight
            BY <3>2 DEF WorkerInv, BusyCurrent, OwerHeld, Owes
        <3>4. task.n = req[lock].n /\ word.T = req[lock].T
            BY <3>3 DEF IInv, CallerInv, TaskWritten, TeamPublished
        <3> QED
            BY <1>4, <3>1, <3>3, <3>4
    <2>4. CASE Pull(w)
        BY <1>4, <2>4 DEF Pull, workerVars, HandItems
    <2> QED
        BY <2>2, <2>3, <2>4
<1> QED
    BY <1>3, <1>4

LEMMA WorkerRuns ==
    ASSUME IInv, ItemInv, NEW w \in Workers, Pull(w) \/ Body(w), NEW c, c = lock
    PROVE  /\ \/ ran' = ran
              \/ \E S : Took(Job(c), S)
           /\ \A d \in Callers : d # c => next'[d] = next[d]
           /\ next'[c] = next[c] \/ next'[c] = next[c] + 1
           /\ \A i \in MaxItems : ran'[Job(c)][i] = IF HasRun(c, i)' THEN 1 ELSE 0
           /\ cpc[c] = "join" /\ req[c].dyn => next'[c] >= req[c].n
<1>1. wpc[w] = "body"
    BY DEF Pull, Body
<1>2. /\ c \in Callers /\ cpc[c] \in InFlight /\ hand[w].job = Job(c) /\ hand[w].job[1] = c
      /\ Job(c) \in Jobs /\ calls[c] >= 1 /\ w < req[c].T /\ done[w] # word
    BY <1>1, BodyInFlight
<1>3. UNCHANGED <<lock, word, task, cpc, calls, req, idx>>
    BY WorkerFrame DEF WorkerStep
<1>4. next \in [Callers -> Nat] /\ CountTypes /\ req[c].n \in Nat /\ req[c].T \in 0 .. PoolMax /\ req[c].dyn \in BOOLEAN
    BY <1>2 DEF IInv, Types, TypeOK, CountTypes, CallerTypes
<1>5. \A i \in MaxItems : ran[Job(c)][i] = IF HasRun(c, i) THEN 1 ELSE 0
    BY <1>2 DEF ItemInv, CurrentItems
<1>6. MaxItems \subseteq Nat
    BY ConstantsAssumption DEF MaxItems, Items
<1>7. \A i : HasRun(c, i) <=> i < req[c].n /\ Handed(c, i)
    BY <1>2 DEF HasRun, InFlight, NotBegun
<1>8. \A i : HasRun(c, i)' <=> i < req[c].n /\ Handed(c, i)'
    BY <1>2, <1>3 DEF HasRun, InFlight, NotBegun
<1>9. CASE req[c].dyn
    <2>1. next' = [next EXCEPT ![c] = @ + 1]
        BY <1>2, <1>9 DEF Pull, Body, Claim
    <2>2. next'[c] = next[c] + 1 /\ next[c] \in Nat
        BY <1>2, <1>4, <2>1
    <2>3. \A i : Handed(c, i) <=> i < next[c]
        BY <1>9 DEF Handed
    <2>4. \A i : Handed(c, i)' <=> i < next[c] + 1
        BY <1>3, <1>9, <2>2 DEF Handed
    <2>5. cpc[c] = "join" => next'[c] >= req[c].n
        BY <1>2, <1>4, <1>9, <2>2 DEF ItemInv, Counter
    <2>6. CASE Pull(w)
        <3>1. next[c] < req[c].n /\ Took(Job(c), {next[c]})
            BY <1>2, <2>6 DEF Pull
        <3>2. \A i \in MaxItems : ran'[Job(c)][i] = ran[Job(c)][i] + (IF i \in {next[c]} THEN 1 ELSE 0)
            BY <1>2, <1>4, <3>1, TookCounts
        <3>3. ASSUME NEW i \in MaxItems
              PROVE  ran'[Job(c)][i] = IF HasRun(c, i)' THEN 1 ELSE 0
            <4>1. i \in Nat
                BY <1>6
            <4>2. HasRun(c, i)' <=> HasRun(c, i) \/ i = next[c]
                BY <1>4, <1>7, <1>8, <2>2, <2>3, <2>4, <3>1, <4>1
            <4>3. i = next[c] => ~HasRun(c, i)
                BY <1>7, <2>2, <2>3
            <4> QED
                BY <1>5, <3>2, <4>2, <4>3
        <3> QED
            BY <2>1, <2>2, <2>5, <3>1, <3>3
    <2>7. CASE Body(w)
        <3>1. next[c] >= req[c].n /\ ran' = ran
            BY <1>2, <1>9, <2>7 DEF Body
        <3>2. \A i \in MaxItems : HasRun(c, i)' <=> HasRun(c, i)
            BY <1>4, <1>6, <1>7, <1>8, <2>2, <2>3, <2>4, <3>1
        <3> QED
            BY <1>5, <2>1, <2>2, <2>5, <3>1, <3>2
    <2> QED
        BY <2>6, <2>7
<1>10. CASE ~req[c].dyn
    <2>1. Body(w) /\ UNCHANGED next /\ Took(Job(c), hand[w].items)
        BY <1>2, <1>10 DEF Pull, Body
    <2>2. hand[w].items = ParRange(req[c].n, w, req[c].T)
        BY <1>1 DEF ItemInv, HandItems
    <2>3. \A i \in MaxItems : ran'[Job(c)][i] = ran[Job(c)][i] + (IF i \in ParRange(req[c].n, w, req[c].T) THEN 1 ELSE 0)
        BY <1>2, <1>4, <2>1, <2>2, TookCounts
    <2>4. wpc' = [wpc EXCEPT ![w] = "finish"] /\ done' = done
        BY <2>1 DEF Body, Step
    <2>5. w \in Nat \ {0} /\ wpc \in [Workers -> WorkerPCs]
        BY DEF Workers, IInv, Types, TypeOK, WorkerTypes
    <2>6. ~RangeRun(c, w) /\ RangeRun(c, w)'
        BY <1>1, <1>2, <2>4, <2>5 DEF RangeRun
    <2>7. \A t \in 0 .. req[c].T - 1 : t # w => (RangeRun(c, t)' <=> RangeRun(c, t))
        BY <1>2, <1>3, <2>4, <2>5, TeamWorkers DEF RangeRun, IInv
    <2>8. w \in 0 .. req[c].T - 1
        BY <1>2, <1>4, <2>5
    <2>9. ASSUME NEW i \in MaxItems
          PROVE  ran'[Job(c)][i] = IF HasRun(c, i)' THEN 1 ELSE 0
        <3> DEFINE In(t) == i \in ParRange(req[c].n, t, req[c].T)
        <3>1. Handed(c, i) <=> \E t \in 0 .. req[c].T - 1 : In(t) /\ RangeRun(c, t)
            BY <1>10 DEF Handed
        <3>2. Handed(c, i)' <=> \E t \in 0 .. req[c].T - 1 : In(t) /\ RangeRun(c, t)'
            BY <1>3, <1>10 DEF Handed
        <3>3. \A t \in 0 .. req[c].T - 1 : t # w /\ In(w) => ~In(t)
            BY <1>4, <2>5, <2>8, RangesDisjoint
        <3>4. In(w) => i < req[c].n
            BY <1>4, <2>5, <2>8, RangesInside DEF Items
        <3> HIDE DEF In
        <3>5. Handed(c, i)' <=> Handed(c, i) \/ In(w)
            BY <2>6, <2>7, <2>8, <3>1, <3>2
        <3>6. In(w) => ~Handed(c, i)
            BY <2>6, <3>1, <3>3
        <3>7. ran'[Job(c)][i] = ran[Job(c)][i] + (IF In(w) THEN 1 ELSE 0)
            BY <2>3 DEF In
        <3> QED
            BY <1>5, <1>7, <1>8, <3>4, <3>5, <3>6, <3>7
    <2> QED
        BY <1>10, <2>1, <2>9
<1> QED
    BY <1>9, <1>10

LEMMA WorkerKeepsItems ==
    ASSUME IInv, IInv', ItemInv, NEW w \in Workers, WorkerStep(w) \/ SpuriousWakeup(w)
    PROVE  ItemInv'
<1>1. UNCHANGED <<lock, word, task, cpc, calls, req, idx>>
    BY WorkerFrame
<1>2. HandItems'
    BY WorkerKeepsHand DEF ItemInv
<1>3. (TeamOf /\ SizeKnown)'
    BY <1>1 DEF ItemInv, TeamOf, SizeKnown
<1>4. Types
    BY DEF IInv
<1>5. CASE Pull(w) \/ Body(w)
    <2>1. PICK c : c = lock
        OBVIOUS
    <2>2. c \in Callers /\ calls[c] >= 1 /\ Job(c) \in Jobs /\ cpc[c] \in InFlight
        BY <1>5, <2>1, BodyInFlight DEF Pull, Body
    <2>3. /\ \/ ran' = ran
             \/ \E S : Took(Job(c), S)
          /\ \A d \in Callers : d # c => next'[d] = next[d]
          /\ next'[c] = next[c] \/ next'[c] = next[c] + 1
          /\ \A i \in MaxItems : ran'[Job(c)][i] = IF HasRun(c, i)' THEN 1 ELSE 0
          /\ cpc[c] = "join" /\ req[c].dyn => next'[c] >= req[c].n
        BY <1>5, <2>1, WorkerRuns
    <2>4. OtherItems'
        BY <1>1, <1>4, <2>2, <2>3, OtherItemsKept DEF ItemInv
    <2>5. Counter'
        BY <1>1, <2>2, <2>3 DEF ItemInv, Counter, NotBegun, InFlight
    <2>6. CurrentItems'
        <3>1. SUFFICES ASSUME NEW d \in Callers, calls[d] >= 1, NEW i \in MaxItems
                       PROVE  ran'[Job(d)][i] = IF HasRun(d, i)' THEN 1 ELSE 0
            BY <1>1 DEF CurrentItems, Job
        <3>2. CASE d = c
            BY <2>3, <3>2
        <3>3. CASE d # c
            <4>1. cpc[d] \notin InFlight
                BY <2>2, <3>3, OneInFlight DEF InFlight, Locked
            <4>2. HasRun(d, i)' <=> HasRun(d, i)
                BY <1>1, <4>1 DEF HasRun
            <4>3. Job(d) \in Jobs /\ Job(d) # Job(c)
                BY <1>4, <3>1, <3>3 DEF Types, TypeOK, CallerTypes, Job, Jobs
            <4>4. ran'[Job(d)] = ran[Job(d)]
                BY <1>4, <2>2, <2>3, <4>3, TookCounts DEF Types, TypeOK
            <4> QED
                BY <3>1, <4>2, <4>4 DEF ItemInv, CurrentItems
        <3> QED
            BY <3>2, <3>3
    <2> QED
        BY <1>2, <1>3, <2>4, <2>5, <2>6 DEF ItemInv
<1>6. CASE ~(Pull(w) \/ Body(w))
    <2>1. UNCHANGED <<next, ran>>
        BY <1>6 DEF WorkerStep, SpinSee, LockMu, SetSleeping, Check, SpuriousWakeup, Relock,
            LeaveSleep, TestTeam, ReadTask, Finish
    <2>2. \A v \in Workers : (wpc'[v] = "finish" \/ done'[v] = word')
                                  <=> (wpc[v] = "finish" \/ done[v] = word)
        BY <1>6, WorkerKeepsRuns
    <2>3. \A d \in Callers : \A i : HasRun(d, i)' <=> HasRun(d, i)
        BY <1>1, <1>4, <2>1, <2>2, RunsKeepHandOut
    <2>4. CurrentItems'
        BY <1>1, <2>1, <2>3 DEF ItemInv, CurrentItems, Job
    <2>5. (OtherItems /\ Counter)'
        BY <1>1, <2>1 DEF ItemInv, OtherItems, Counter
    <2> QED
        BY <1>2, <1>3, <2>4, <2>5 DEF ItemInv
<1> QED
    BY <1>5, <1>6

-----------------------------------------------------------------------------
(* A caller's step. *)

\* Only the call whose caller steps can change hands.
LEMMA OtherCallersItems ==
    ASSUME IInv, NEW c \in Callers, Call(c) \/ CallerStep(c), NEW d \in Callers, d # c, NEW i
    PROVE  HasRun(d, i)' <=> HasRun(d, i)
<1>1. Types
    BY DEF IInv
<1>2. cpc'[d] = cpc[d] /\ req'[d] = req[d]
    BY <1>1, OtherCallers
<1>3. CASE cpc[d] \in InFlight
    <2>1. lock = d /\ cpc[c] \notin Locked
        BY <1>3, OneInFlight DEF InFlight, Locked
    <2>2. Call(c) \/ Serial(c) \/ SerialReturn(c)
        BY <2>1, NobodyAssumption DEF CallerStep, Lock, Grow, WriteTask, Publish, LookSleeping, Signal,
            BeginOwn, OwnPull, OwnBody, Join, Return, Locked
    <2>3. UNCHANGED <<poolVars, workerVars>> /\ next'[d] = next[d]
        BY <2>2, <1>1 DEF Call, Serial, SerialReturn, Types, TypeOK, CountTypes
    <2> QED
        BY <1>1, <1>2, <2>3, RunsKeepHandOut DEF poolVars, workerVars
<1>4. CASE cpc[d] \notin InFlight
    BY <1>2, <1>4 DEF HasRun
<1> QED
    BY <1>3, <1>4

LEMMA CallerKeepsHand ==
    ASSUME IInv, IInv', HandItems, NEW c \in Callers, Call(c) \/ CallerStep(c)
    PROVE  HandItems'
<1>1. SUFFICES ASSUME NEW w \in Workers, wpc'[w] = "body"
               PROVE  hand'[w].items = ParRange(req'[lock'].n, w, req'[lock'].T)
    BY DEF HandItems
<1>2. lock' \in Callers /\ cpc'[lock'] \in InFlight
    BY <1>1 DEF IInv, WorkerInv, OwerHeld, Owes, Busy
<1>3. hand' = hand /\ wpc[w] = "body"
    <2>1. wpc \in [Workers -> WorkerPCs]
        BY DEF IInv, Types, TypeOK, WorkerTypes
    <2> QED
        BY <1>1, <2>1 DEF CallerStep, Call, Serial, SerialReturn, Lock, Grow, GrowTo, WriteTask, Publish,
            LookSleeping, Signal, BeginOwn, OwnPull, OwnBody, Join, Return, workerVars
<1>4. lock \in Callers /\ cpc[lock] \in InFlight
    BY <1>3, BodyInFlight
<1>5. PICK d \in Callers : d = lock
    BY <1>4
<1>6. lock' = d
    BY <1>2, <1>5, NobodyAssumption DEF CallerStep, Call, Serial, SerialReturn, Lock, Grow, GrowTo,
        WriteTask, Publish, LookSleeping, Signal, BeginOwn, OwnPull, OwnBody, Join, Return, poolVars
<1>7. req'[d] = req[d]
    <2>1. CASE d = c
        BY <1>4, <1>5, <2>1 DEF CallerStep, Call, Serial, SerialReturn, Lock, Grow, WriteTask, Publish,
            LookSleeping, Signal, BeginOwn, OwnPull, OwnBody, Join, Return, callerVars, InFlight
    <2>2. CASE d # c
        BY <2>2, OtherCallers DEF IInv
    <2> QED
        BY <2>1, <2>2
<1> QED
    BY <1>3, <1>5, <1>6, <1>7 DEF HandItems

\* What is left to show of a caller's step is about its own call.
OwnItems(c) ==
    /\ calls[c] >= 1 => \A i \in MaxItems : ran[Job(c)][i] = IF HasRun(c, i) THEN 1 ELSE 0
    /\ cpc[c] \in InFlight \cup {"write", "publish"} => req[c].T >= 1
    /\ cpc[c] # "idle" => req[c].n \in Sizes
    /\ cpc[c] \in NotBegun => next[c] = 0
    /\ cpc[c] = "join" /\ req[c].dyn => next[c] >= req[c].n

LEMMA OwnCallSuffices ==
    ASSUME IInv, IInv', ItemInv, NEW c \in Callers, Call(c) \/ CallerStep(c),
           OwnItems(c)', OtherItems',
           \/ UNCHANGED ran
           \/ calls[c] >= 1 /\ \E S : Took(Job(c), S)
    PROVE  ItemInv'
<1>1. Types
    BY DEF IInv
<1>2. ASSUME NEW d \in Callers, d # c
      PROVE  OwnItems(d)'
    <2>1. cpc'[d] = cpc[d] /\ req'[d] = req[d] /\ calls'[d] = calls[d]
        BY <1>1, <1>2, OtherCallers
    <2>2. next'[d] = next[d]
        BY <1>1, <1>2 DEF CallerStep, Call, Serial, SerialReturn, Lock, Grow, WriteTask, Publish,
            LookSleeping, Signal, BeginOwn, OwnPull, OwnBody, Join, Return, Claim, Types, TypeOK, CountTypes
    <2>3. ASSUME calls[d] >= 1, NEW i \in MaxItems
          PROVE  ran'[Job(d)'][i] = IF HasRun(d, i)' THEN 1 ELSE 0
        <3>1. HasRun(d, i)' <=> HasRun(d, i)
            BY <1>2, OtherCallersItems
        <3>2. Job(d) \in Jobs /\ Job(d) # Job(c) /\ Job(d)' = Job(d)
            BY <1>1, <1>2, <2>1, <2>3 DEF Types, TypeOK, CallerTypes, Job, Jobs
        <3>3. calls[c] >= 1 => Job(c) \in Jobs
            BY <1>1 DEF Types, TypeOK, CallerTypes, Job, Jobs
        <3>4. ran'[Job(d)] = ran[Job(d)]
            BY <1>1, <3>2, <3>3, TookCounts DEF Types, TypeOK
        <3> QED
            BY <2>3, <3>1, <3>2, <3>4 DEF ItemInv, CurrentItems
    <2> QED
        BY <2>1, <2>2, <2>3 DEF OwnItems, ItemInv, TeamOf, SizeKnown, Counter
<1>3. \A d \in Callers : OwnItems(d)'
    BY <1>2
<1>4. (CurrentItems /\ TeamOf /\ SizeKnown /\ Counter)'
    BY <1>3 DEF OwnItems, CurrentItems, TeamOf, SizeKnown, Counter
<1>5. HandItems'
    BY CallerKeepsHand DEF ItemInv
<1> QED
    BY <1>4, <1>5 DEF ItemInv

LEMMA CallerKeepsItems ==
    ASSUME IInv, IInv', ItemInv, NEW c \in Callers, Call(c) \/ CallerStep(c)
    PROVE  ItemInv'
<1> SUFFICES /\ OwnItems(c)' /\ OtherItems'
             /\ \/ UNCHANGED ran
                \/ calls[c] >= 1 /\ \E S : Took(Job(c), S)
    BY OwnCallSuffices
<1>1. /\ Types /\ CountTypes /\ next \in [Callers -> Nat]
      /\ cpc \in [Callers -> CallerPCs] /\ calls \in [Callers -> 0 .. MaxCalls]
      /\ req \in [Callers -> [n : Nat, T : 0 .. PoolMax, dyn : BOOLEAN, nest : BOOLEAN]]
      /\ cpc[c] # "idle" => calls[c] >= 1
      /\ MaxItems \subseteq Nat
    <2>1. MaxItems \subseteq Nat
        BY ConstantsAssumption DEF MaxItems, Items
    <2> QED
        BY <2>1 DEF IInv, Types, TypeOK, CallerTypes, CountTypes, CallNumbered
<1>2. OwnItems(c) /\ OtherItems
    BY DEF ItemInv, OwnItems, CurrentItems, TeamOf, SizeKnown, Counter
<1>3. calls[c] >= 1 => Job(c) \in Jobs
    BY <1>1 DEF Job, Jobs
\* A step that changes nothing OwnItems is about but the caller's place.
<1>4. ASSUME UNCHANGED <<ran, calls, req, next>>,
             cpc[c] # "idle", cpc'[c] # "join" \/ cpc[c] = "join",
             cpc'[c] \in NotBegun <=> cpc[c] \in NotBegun,
             cpc'[c] \in InFlight <=> cpc[c] \in InFlight,
             cpc'[c] \in {"write", "publish"} => cpc[c] \in {"write", "publish"},
             \A i \in MaxItems : HasRun(c, i)' <=> HasRun(c, i)
      PROVE  OwnItems(c)' /\ OtherItems' /\ UNCHANGED ran
    BY <1>1, <1>2, <1>4 DEF OwnItems, OtherItems, Job, NotBegun, InFlight
<1>5. CASE Call(c)
    <2>1. PICK n \in Sizes, T \in 0 .. PoolMax, dyn \in BOOLEAN, nest \in BOOLEAN :
              /\ req' = [req EXCEPT ![c] = [n |-> n, T |-> T, dyn |-> dyn, nest |-> nest]]
              /\ cpc' = [cpc EXCEPT ![c] = IF T <= 1 THEN "serial" ELSE "lock"]
        <3>1. PICK n \in Sizes, threads \in 1 .. MaxThreads, f \in Forms :
                  /\ req' = [req EXCEPT ![c] = [n |-> n, T |-> Team(n, threads), dyn |-> f.dyn, nest |-> f.nest]]
                  /\ cpc' = [cpc EXCEPT ![c] = IF Team(n, threads) <= 1 THEN "serial" ELSE "lock"]
            BY <1>5 DEF Call, Goto
        <3>2. f.dyn \in BOOLEAN /\ f.nest \in BOOLEAN
            BY ConstantsAssumption
        <3> QED
            BY <3>1, <3>2, TeamSize
    <2>2. /\ calls'[c] = calls[c] + 1 /\ calls[c] < MaxCalls /\ next'[c] = 0 /\ ran' = ran
          /\ \A d \in Callers : d # c => calls'[d] = calls[d]
          /\ cpc'[c] \in {"serial", "lock"} /\ req'[c].n \in Sizes /\ cpc[c] = "idle"
        BY <1>1, <1>5, <2>1 DEF Call
    <2>3. \A i \in MaxItems : ran'[Job(c)'][i] = 0
        <3>1. calls[c] + 1 \in 1 .. MaxCalls /\ calls[c] + 1 > calls[c] /\ Job(c)' = <<c, calls[c] + 1>>
            BY <1>1, <2>2, ConstantsAssumption DEF Job
        <3> QED
            BY <1>2, <2>2, <3>1 DEF OtherItems
    <2>4. \A i \in MaxItems : ~HasRun(c, i)'
        BY <2>2 DEF HasRun, NotBegun
    <2>5. OwnItems(c)'
        BY <2>2, <2>3, <2>4 DEF OwnItems, InFlight, Job
    <2>6. OtherItems'
        <3>1. SUFFICES ASSUME NEW d \in Callers, NEW k \in 1 .. MaxCalls, NEW i \in MaxItems
                       PROVE  /\ k < calls'[d] => ran[<<d, k>>][i] <= 1
                              /\ k > calls'[d] => ran[<<d, k>>][i] = 0
            BY <2>2 DEF OtherItems
        <3>2. CASE d # c \/ k # calls[c]
            <4>1. calls[d] \in Nat /\ k \in Nat
                BY <1>1
            <4>2. calls'[d] = calls[d] \/ (d = c /\ calls'[d] = calls[d] + 1)
                BY <2>2
            <4>3. k < calls'[d] => k < calls[d]
                BY <3>2, <4>1, <4>2
            <4>4. k > calls'[d] => k > calls[d]
                BY <4>1, <4>2
            <4> QED
                BY <1>2, <4>3, <4>4 DEF OtherItems
        <3>3. CASE d = c /\ k = calls[c]
            <4>1. ran[<<c, k>>][i] <= 1
                BY <1>1, <1>2, <3>3 DEF OwnItems, Job
            <4> QED
                BY <1>1, <2>2, <3>3, <4>1
        <3> QED
            BY <3>2, <3>3
    <2> QED
        BY <2>2, <2>5, <2>6
<1>6. CASE Serial(c)
    <2>1. /\ cpc[c] = "serial" /\ cpc'[c] = "served" /\ UNCHANGED <<calls, req, next>>
          /\ calls[c] >= 1 /\ Took(Job(c), Items(req[c].n))
        BY <1>1, <1>6 DEF Serial, Goto
    <2>2. \A i \in MaxItems : ran'[Job(c)][i] = ran[Job(c)][i] + (IF i \in Items(req[c].n) THEN 1 ELSE 0)
        BY <1>1, <1>3, <2>1, TookCounts
    <2>3. \A i \in MaxItems : ~HasRun(c, i) /\ (HasRun(c, i)' <=> i \in Items(req[c].n))
        BY <1>1, <2>1 DEF HasRun, NotBegun, InFlight, Items
    <2>4. \A i \in MaxItems : ran'[Job(c)][i] = IF HasRun(c, i)' THEN 1 ELSE 0
        BY <1>2, <2>1, <2>2, <2>3 DEF OwnItems
    <2>5. OwnItems(c)'
        BY <1>2, <2>1, <2>4 DEF OwnItems, Job, NotBegun, InFlight
    <2> QED
        BY <1>1, <1>2, <2>1, <2>5, OtherItemsKept
<1>7. CASE SerialReturn(c)
    <2>1. cpc[c] = "served" /\ cpc'[c] = "idle" /\ UNCHANGED <<calls, req, next, ran>>
        BY <1>1, <1>7 DEF SerialReturn, Goto
    <2>2. \A i \in MaxItems : HasRun(c, i)' <=> HasRun(c, i)
        BY <2>1 DEF HasRun, NotBegun, InFlight
    <2> QED
        BY <1>4, <2>1, <2>2 DEF NotBegun, InFlight
<1>8. CASE Lock(c)
    <2>1. cpc[c] = "lock" /\ cpc'[c] = "grow" /\ UNCHANGED <<calls, req, next, ran>>
        BY <1>1, <1>8 DEF Lock, Goto
    <2>2. \A i \in MaxItems : HasRun(c, i)' <=> HasRun(c, i)
        BY <2>1 DEF HasRun, NotBegun
    <2> QED
        BY <1>4, <2>1, <2>2 DEF NotBegun, InFlight
<1>9. CASE Grow(c)
    <2>1. PICK k \in nWorkers .. (IF nWorkers + 1 < req[c].T THEN req[c].T - 1 ELSE nWorkers) : GrowTo(c, k)
        BY <1>9 DEF Grow
    <2> DEFINE T == Least(req[c].T, k + 1)
    <2>2. /\ cpc[c] = "grow" /\ UNCHANGED <<calls, next, ran>>
          /\ req' = [req EXCEPT ![c].T = T]
          /\ cpc' = [cpc EXCEPT ![c] = IF T <= 1 THEN "serial" ELSE "write"]
        BY <1>9, <2>1 DEF Grow, GrowTo, Goto
    <2>3. T \in Nat
        BY <1>1 DEF Least, IInv, Types, TypeOK, PoolTypes
    <2> HIDE DEF T
    <2>4. /\ cpc'[c] \in {"serial", "write"} /\ (cpc'[c] = "write" => req'[c].T >= 1)
          /\ req'[c].n = req[c].n
        BY <1>1, <2>2, <2>3
    <2>5. \A i \in MaxItems : ~HasRun(c, i) /\ ~HasRun(c, i)'
        BY <2>2, <2>4 DEF HasRun, NotBegun
    <2>6. OwnItems(c)'
        BY <1>2, <2>2, <2>4, <2>5 DEF OwnItems, Job, NotBegun, InFlight
    <2> QED
        BY <1>1, <1>2, <2>2, <2>6, OtherItemsKept
<1>10. CASE WriteTask(c)
    <2>1. cpc[c] = "write" /\ cpc'[c] = "publish" /\ UNCHANGED <<calls, req, next, ran>>
        BY <1>1, <1>10 DEF WriteTask, Goto
    <2>2. \A i \in MaxItems : HasRun(c, i)' <=> HasRun(c, i)
        BY <2>1 DEF HasRun, NotBegun
    <2> QED
        BY <1>4, <2>1, <2>2 DEF NotBegun, InFlight
<1>11. CASE Publish(c)
    <2>1. /\ cpc[c] = "publish" /\ cpc'[c] = "wake" /\ UNCHANGED <<calls, req, next, ran, wpc, done>>
          /\ word' = [gen |-> word.gen + 1, T |-> req[c].T]
        BY <1>1, <1>11 DEF Publish, Goto, workerVars
    <2>2. ASSUME NEW w \in Workers
          PROVE  wpc[w] # "finish" /\ done[w] # word'
        <3>1. lock = c
            BY <2>1, OneInFlight DEF Locked
        <3>2. WorkerInv(w) /\ ~Busy(w)
            BY <2>1, <3>1 DEF IInv, WorkerInv, OwerHeld, Owes, InFlight
        <3>3. done[w].gen <= word.gen /\ done[w].gen \in Nat /\ word.gen \in Nat
            BY <3>2 DEF WorkerInv, WordsPast, IInv, Types, TypeOK, WorkerTypes, PoolTypes, Words
        <3> QED
            BY <2>1, <3>2, <3>3 DEF Busy
    <2>3. next[c] = 0 /\ req[c].T >= 1
        BY <1>2, <2>1 DEF OwnItems, NotBegun
    <2>4. \A t \in 0 .. req[c].T - 1 : ~RangeRun(c, t)'
        BY <1>1, <2>1, <2>2, TeamWorkers DEF RangeRun
    <2>5. \A i \in MaxItems : ~HasRun(c, i)
        BY <2>1 DEF HasRun, NotBegun
    <2>6. \A i \in MaxItems : ~HasRun(c, i)'
        BY <1>1, <2>1, <2>3, <2>4 DEF HasRun, Handed, InFlight
    <2>7. OwnItems(c)'
        BY <1>2, <2>1, <2>3, <2>5, <2>6 DEF OwnItems, Job, NotBegun, InFlight
    <2> QED
        BY <1>1, <1>2, <2>1, <2>7, OtherItemsKept
<1>12. CASE LookSleeping(c) \/ Signal(c) \/ BeginOwn(c) \/ Join(c)
    <2>1. /\ cpc[c] \in InFlight /\ cpc'[c] \in InFlight /\ UNCHANGED <<calls, req, next, ran, word, done>>
          /\ cpc'[c] = "join" <=> cpc[c] = "join"
        BY <1>1, <1>12 DEF LookSleeping, Signal, BeginOwn, Join, Goto, poolVars, workerVars, InFlight
    <2>2. \A w \in Workers : wpc'[w] = "finish" <=> wpc[w] = "finish"
        BY <1>1, <1>12 DEF LookSleeping, Signal, BeginOwn, Join, workerVars, Types, TypeOK, WorkerTypes
    <2>3. \A t \in 0 .. req[c].T - 1 : RangeRun(c, t)' <=> RangeRun(c, t)
        BY <1>1, <2>1, <2>2, TeamWorkers DEF RangeRun
    <2>4. \A i \in MaxItems : HasRun(c, i)' <=> HasRun(c, i)
        BY <2>1, <2>3 DEF HasRun, Handed, InFlight, NotBegun
    <2> QED
        BY <1>4, <2>1, <2>4 DEF NotBegun, InFlight
<1>13. CASE OwnPull(c)
    <2>1. /\ cpc[c] = "body" /\ UNCHANGED <<calls, req, cpc>> /\ req[c].dyn
          /\ next'[c] = next[c] + 1 /\ next[c] < req[c].n
          /\ calls[c] >= 1 /\ Took(Job(c), {next[c]})
        BY <1>1, <1>13 DEF OwnPull, Claim, callerVars
    <2>2. \A i \in MaxItems : ran'[Job(c)][i] = ran[Job(c)][i] + (IF i \in {next[c]} THEN 1 ELSE 0)
        BY ZenonT(60), <1>1, <1>3, <2>1, TookCounts
    <2>3. \A i \in MaxItems : /\ HasRun(c, i) <=> i < next[c]
                              /\ HasRun(c, i)' <=> i < next[c] + 1
        <3>1. \A i : /\ HasRun(c, i) <=> i < req[c].n /\ i < next[c]
                     /\ HasRun(c, i)' <=> i < req[c].n /\ i < next[c] + 1
            BY <2>1 DEF HasRun, Handed, NotBegun, InFlight
        <3> QED
            BY <1>1, <2>1, <3>1
    <2>4. ASSUME NEW i \in MaxItems
          PROVE  ran'[Job(c)][i] = IF HasRun(c, i)' THEN 1 ELSE 0
        <3>1. i \in Nat /\ next[c] \in Nat
            BY <1>1
        <3>2. ran[Job(c)][i] = IF HasRun(c, i) THEN 1 ELSE 0
            BY <1>2, <2>1 DEF OwnItems
        <3>3. HasRun(c, i)' <=> HasRun(c, i) \/ i = next[c]
            BY <2>3, <3>1
        <3>4. i = next[c] => ~HasRun(c, i)
            BY <2>3, <3>1
        <3> QED
            BY <2>2, <3>2, <3>3, <3>4
    <2>5. OwnItems(c)'
        BY <1>2, <2>1, <2>4 DEF OwnItems, Job, NotBegun, InFlight
    <2> QED
        BY <1>1, <1>2, <2>1, <2>5, OtherItemsKept
<1>14. CASE OwnBody(c)
    <2>1. /\ cpc[c] = "body" /\ cpc'[c] = "join" /\ UNCHANGED <<calls, req, word, done, wpc>>
          /\ calls[c] >= 1
        BY <1>1, <1>14 DEF OwnBody, Goto, poolVars, workerVars
    <2>2. CASE req[c].dyn
        <3>1. next[c] >= req[c].n /\ next'[c] = next[c] + 1 /\ ran' = ran
            BY <1>1, <1>14, <2>2 DEF OwnBody, Claim
        <3>2. \A i \in MaxItems : HasRun(c, i)' <=> HasRun(c, i)
            <4>1. \A i : /\ HasRun(c, i) <=> i < req[c].n /\ i < next[c]
                         /\ HasRun(c, i)' <=> i < req[c].n /\ i < next[c] + 1
                BY <2>1, <2>2, <3>1 DEF HasRun, Handed, NotBegun, InFlight
            <4> QED
                BY <1>1, <3>1, <4>1
        <3>3. \A i \in MaxItems : ran'[Job(c)'][i] = IF HasRun(c, i)' THEN 1 ELSE 0
            BY <1>2, <2>1, <3>1, <3>2 DEF OwnItems, Job
        <3>4. next'[c] >= req[c].n /\ req[c].T >= 1 /\ req[c].n \in Sizes
            BY <1>1, <1>2, <2>1, <3>1 DEF OwnItems, InFlight
        <3>5. OwnItems(c)'
            BY <2>1, <3>3, <3>4 DEF OwnItems, NotBegun
        <3> QED
            BY <1>1, <1>2, <2>1, <3>1, <3>5, OtherItemsKept
    <2>3. CASE ~req[c].dyn
        <3>1. Took(Job(c), ParRange(req[c].n, 0, req[c].T)) /\ next' = next
            BY <1>14, <2>3 DEF OwnBody
        <3>2. req[c].T \in Nat \ {0} /\ req[c].n \in Nat
            BY <1>1, <1>2, <2>1 DEF OwnItems, InFlight
        <3>3. ~RangeRun(c, 0) /\ RangeRun(c, 0)'
            BY <2>1 DEF RangeRun
        <3>4. \A t \in 0 .. req[c].T - 1 : t # 0 => (RangeRun(c, t)' <=> RangeRun(c, t))
            BY <2>1 DEF RangeRun
        <3>5. ASSUME NEW i \in MaxItems
              PROVE  ran'[Job(c)][i] = IF HasRun(c, i)' THEN 1 ELSE 0
            <4> DEFINE In(t) == i \in ParRange(req[c].n, t, req[c].T)
            <4>1. HasRun(c, i) <=> i < req[c].n /\ \E t \in 0 .. req[c].T - 1 : In(t) /\ RangeRun(c, t)
                BY <2>1, <2>3 DEF HasRun, Handed, NotBegun, InFlight
            <4>2. HasRun(c, i)' <=> i < req[c].n /\ \E t \in 0 .. req[c].T - 1 : In(t) /\ RangeRun(c, t)'
                BY <2>1, <2>3 DEF HasRun, Handed, NotBegun, InFlight
            <4>3. \A t \in 0 .. req[c].T - 1 : t # 0 /\ In(0) => ~In(t)
                BY <3>2, RangesDisjoint
            <4>4. In(0) => i < req[c].n
                BY <3>2, RangesInside DEF Items
            <4>5. ran'[Job(c)][i] = ran[Job(c)][i] + (IF In(0) THEN 1 ELSE 0)
                BY <1>1, <1>3, <2>1, <3>1, TookCounts
            <4> HIDE DEF In
            <4>6. 0 \in 0 .. req[c].T - 1
                BY <3>2
            <4>7. HasRun(c, i)' <=> HasRun(c, i) \/ In(0)
                BY <3>3, <3>4, <4>1, <4>2, <4>4, <4>6
            <4>8. In(0) => ~HasRun(c, i)
                BY <3>3, <4>1, <4>3
            <4> QED
                BY <1>2, <2>1, <4>5, <4>7, <4>8 DEF OwnItems
        <3>6. OwnItems(c)'
            BY <1>2, <2>1, <2>3, <3>1, <3>5 DEF OwnItems, Job, NotBegun, InFlight
        <3> QED
            BY <1>1, <1>2, <2>1, <3>1, <3>6, OtherItemsKept
    <2> QED
        BY <2>2, <2>3
<1>15. CASE Return(c)
    <2>1. /\ cpc[c] = "join" /\ cpc'[c] = "idle" /\ UNCHANGED <<calls, req, next, ran>>
          /\ idx[c] = req[c].T
        BY <1>1, <1>15 DEF Return, Goto
    <2>2. ASSUME NEW i \in MaxItems, i < req[c].n
          PROVE  Handed(c, i)
        <3>1. CASE req[c].dyn
            BY <1>1, <1>2, <2>1, <2>2, <3>1 DEF Handed, OwnItems
        <3>2. CASE ~req[c].dyn
            <4>1. req[c].T \in Nat \ {0} /\ req[c].n \in Nat /\ i \in Items(req[c].n)
                BY <1>1, <1>2, <2>1, <2>2 DEF OwnItems, InFlight, Items
            <4>2. PICK t \in 0 .. req[c].T - 1 : i \in ParRange(req[c].n, t, req[c].T)
                BY <4>1, RangesCover
            <4>3. t # 0 => done[t] = word
                BY <1>1, <2>1, <4>1, TeamWorkers DEF IInv, CallerInv, JoinedDone
            <4>4. RangeRun(c, t)
                BY <2>1, <4>3 DEF RangeRun
            <4> QED
                BY <3>2, <4>2, <4>4 DEF Handed
        <3> QED
            BY <3>1, <3>2
    <2>3. \A i \in MaxItems : HasRun(c, i)' <=> HasRun(c, i)
        BY <2>1, <2>2 DEF HasRun, NotBegun, InFlight
    <2>4. OwnItems(c)'
        BY <1>2, <2>1, <2>3 DEF OwnItems, Job, NotBegun, InFlight
    <2> QED
        BY <1>1, <1>2, <2>1, <2>4, OtherItemsKept
<1> QED
    BY <1>5, <1>6, <1>7, <1>8, <1>9, <1>10, <1>11, <1>12, <1>13, <1>14, <1>15 DEF CallerStep

-----------------------------------------------------------------------------
LEMMA ItemsInit == Init => ItemInv
<1> SUFFICES ASSUME Init PROVE ItemInv
    OBVIOUS
<1>1. CurrentItems /\ TeamOf /\ SizeKnown
    BY DEF Init, CurrentItems, TeamOf, SizeKnown, InFlight
<1>2. Counter
    BY DEF Init, Counter
<1>3. OtherItems
    BY DEF Init, OtherItems, Jobs
<1>4. HandItems
    BY DEF Init, HandItems
<1> QED
    BY <1>1, <1>2, <1>3, <1>4 DEF ItemInv

LEMMA ItemsStep == IInv /\ IInv' /\ ItemInv /\ [Next]_vars => ItemInv'
<1> SUFFICES ASSUME IInv, IInv', ItemInv, [Next]_vars PROVE ItemInv'
    OBVIOUS
<1>1. CASE Next
    BY <1>1, CallerKeepsItems, WorkerKeepsItems DEF Next
<1>2. CASE UNCHANGED vars
    <2>1. \A c \in Callers : \A i : HasRun(c, i)' <=> HasRun(c, i)
        BY <1>2 DEF HasRun, Handed, RangeRun, vars, poolVars, workerVars, callerVars
    <2>2. (CurrentItems /\ OtherItems)'
        BY <1>2, <2>1 DEF ItemInv, CurrentItems, OtherItems, Job, vars, callerVars
    <2>3. (TeamOf /\ SizeKnown /\ Counter /\ HandItems)'
        BY <1>2 DEF ItemInv, TeamOf, SizeKnown, Counter, HandItems, vars, poolVars, workerVars, callerVars
    <2> QED
        BY <2>2, <2>3 DEF ItemInv
<1> QED
    BY <1>1, <1>2

LEMMA ItemsInductive == Spec => [](IInv /\ ItemInv)
<1>1. Init => IInv /\ ItemInv
    BY InitHolds, ItemsInit
<1>2. (IInv /\ ItemInv) /\ [Next]_vars => (IInv /\ ItemInv)'
    BY StepKeeps, ItemsStep
<1> QED
    BY <1>1, <1>2, PTL DEF Spec

\* geist_par_for (par.h): every item of a finished call was handed to fn exactly
\* once, and no item of a call in progress twice, whatever the team the pool
\* could make, the form of the call and what the other callers do.
THEOREM EveryItemRunsOnce == Spec => []EachItemOnce
<1>1. IInv /\ ItemInv => EachItemOnce
    <2> SUFFICES ASSUME IInv, ItemInv, NEW c \in Callers, NEW k \in 1 .. calls[c], NEW i \in MaxItems
                 PROVE  /\ ran[<<c, k>>][i] <= 1
                        /\ (k = calls[c] /\ cpc[c] = "idle" /\ i < req[c].n) => ran[<<c, k>>][i] = 1
                        /\ (k = calls[c] /\ i >= req[c].n) => ran[<<c, k>>][i] = 0
        BY DEF EachItemOnce
    <2>1. calls[c] \in 0 .. MaxCalls /\ req[c].n \in Nat /\ i \in Nat /\ k \in 1 .. MaxCalls
        <3>1. MaxItems \subseteq Nat
            BY ConstantsAssumption DEF MaxItems, Items
        <3>2. calls[c] \in 0 .. MaxCalls /\ req[c].n \in Nat
            BY DEF IInv, Types, TypeOK, CallerTypes
        <3> QED
            BY <3>1, <3>2, ConstantsAssumption
    <2>2. CASE k < calls[c]
        BY <2>1, <2>2 DEF ItemInv, OtherItems
    <2>3. CASE k = calls[c]
        <3>1. ran[<<c, k>>][i] = IF HasRun(c, i) THEN 1 ELSE 0
            BY <2>1, <2>3 DEF ItemInv, CurrentItems, Job
        <3>2. cpc[c] = "idle" /\ i < req[c].n => HasRun(c, i)
            BY DEF HasRun, NotBegun, InFlight
        <3>3. i >= req[c].n => ~HasRun(c, i)
            BY <2>1 DEF HasRun
        <3> QED
            BY <3>1, <3>2, <3>3
    <2> QED
        BY <2>1, <2>2, <2>3
<1> QED
    BY ItemsInductive, <1>1, PTL

-----------------------------------------------------------------------------
(* The pool implements ParFor. *)

Todo(c) == {i \in Items(req[c].n) : cpc[c] # "idle" /\ ran[Job(c)][i] = 0}
Active == [c \in Callers |-> cpc[c] # "idle"]
AllTodo == [c \in Callers |-> Todo(c)]

LEMMA ItemsOfCall ==
    ASSUME ItemInv, NEW c \in Callers, cpc[c] # "idle"
    PROVE  Items(req[c].n) \subseteq MaxItems
    BY DEF ItemInv, SizeKnown, MaxItems

\* A step that leaves every call where it is and counts items of caller c's
\* call only is a Run of the promise, or a stutter.
LEMMA RunRefines ==
    ASSUME IInv, ItemInv, NEW c \in Callers, cpc[c] # "idle",
           UNCHANGED calls,
           \A d \in Callers : req'[d].n = req[d].n /\ (cpc'[d] = "idle" <=> cpc[d] = "idle"),
           \/ UNCHANGED ran
           \/ \E S : Took(Job(c), S)
    PROVE  Promise!Run(c)
<1>1. Types /\ CountTypes /\ calls \in [Callers -> 0 .. MaxCalls]
    BY DEF IInv, Types, TypeOK, CallerTypes
<1>2. \A d \in Callers : cpc[d] # "idle" => Job(d) \in Jobs /\ Job(d)' = Job(d)
    BY <1>1 DEF Types, CallNumbered, Job, Jobs
<1>3. ASSUME NEW d \in Callers, d # c
      PROVE  Todo(d)' = Todo(d)
    <2>1. CASE cpc[d] = "idle"
        BY <2>1 DEF Todo
    <2>2. CASE cpc[d] # "idle"
        <3>1. Job(d) # Job(c) /\ Job(c) \in Jobs /\ Job(d) \in Jobs
            BY <1>2, <1>3, <2>2 DEF Job
        <3>2. ran'[Job(d)] = ran[Job(d)]
            BY <1>1, <3>1, TookCounts
        <3> QED
            BY <1>2, <2>2, <3>2 DEF Todo
    <2> QED
        BY <2>1, <2>2
<1>4. Todo(c)' \subseteq Todo(c)
    <2>1. SUFFICES ASSUME NEW i \in Items(req[c].n), ran'[Job(c)][i] = 0
                   PROVE  ran[Job(c)][i] = 0
        BY <1>2 DEF Todo
    <2>2. i \in MaxItems
        BY ItemsOfCall
    <2>3. ran[Job(c)][i] \in Nat
        BY <1>1, <1>2, <2>2 DEF CountTypes
    <2>4. UNCHANGED ran \/ \E S : ran'[Job(c)][i] = ran[Job(c)][i] + (IF i \in S THEN 1 ELSE 0)
        BY <1>1, <1>2, <2>2, TookCounts
    <2> QED
        BY <2>1, <2>3, <2>4
<1>5. Active' = Active
    BY DEF Active
<1>6. AllTodo' = [AllTodo EXCEPT ![c] = @ \ (Todo(c) \ Todo(c)')]
    <2>1. Todo(c) \ (Todo(c) \ Todo(c)') = Todo(c)'
        BY <1>4
    <2> QED
        BY <1>3, <2>1 DEF AllTodo
<1>7. Active[c] /\ AllTodo[c] = Todo(c)
    BY DEF Active, AllTodo
<1>8. Promise!Run(c) <=> /\ Active[c]
                         /\ \E S \in SUBSET AllTodo[c] : AllTodo' = [AllTodo EXCEPT ![c] = @ \ S]
                         /\ UNCHANGED Active
    BY DEF Promise!Run, Active, AllTodo, Todo
<1> QED
    BY <1>5, <1>6, <1>7, <1>8

LEMMA CallRefines ==
    ASSUME IInv, ItemInv, NEW c \in Callers, Call(c)
    PROVE  Promise!Call(c)
<1>1. Types /\ CountTypes /\ calls \in [Callers -> 0 .. MaxCalls]
      /\ cpc \in [Callers -> CallerPCs]
      /\ req \in [Callers -> [n : Nat, T : 0 .. PoolMax, dyn : BOOLEAN, nest : BOOLEAN]]
    BY DEF IInv, Types, TypeOK, CallerTypes
<1>2. PICK n \in Sizes : req'[c].n = n
    <2>1. PICK n \in Sizes, threads \in 1 .. MaxThreads, f \in Forms :
              req' = [req EXCEPT ![c] = [n |-> n, T |-> Team(n, threads), dyn |-> f.dyn, nest |-> f.nest]]
        BY DEF Call
    <2> QED
        BY <1>1, <2>1
<1>3. /\ cpc[c] = "idle" /\ cpc'[c] # "idle" /\ ran' = ran
      /\ calls'[c] = calls[c] + 1 /\ calls[c] < MaxCalls
    BY <1>1 DEF Call, Goto
<1>4. \A d \in Callers : d # c => cpc'[d] = cpc[d] /\ calls'[d] = calls[d] /\ req'[d] = req[d]
    BY <1>1, OtherCallers
<1>5. \A d \in Callers : d # c => Todo(d)' = Todo(d)
    BY <1>3, <1>4 DEF Todo, Job
<1>6. Todo(c)' = 0 .. n - 1
    <2>1. calls[c] + 1 \in 1 .. MaxCalls /\ calls[c] + 1 > calls[c] /\ Job(c)' = <<c, calls[c] + 1>>
        BY <1>1, <1>3, ConstantsAssumption DEF Job
    <2>2. \A i \in MaxItems : ran'[Job(c)'][i] = 0
        BY <1>3, <2>1 DEF ItemInv, OtherItems
    <2>3. Items(n) \subseteq MaxItems
        BY DEF MaxItems
    <2> QED
        BY <1>2, <1>3, <2>2, <2>3 DEF Todo, Items
<1>7. Active' = [Active EXCEPT ![c] = TRUE] /\ ~Active[c]
    BY <1>3, <1>4 DEF Active
<1>8. AllTodo' = [AllTodo EXCEPT ![c] = 0 .. n - 1]
    BY <1>5, <1>6 DEF AllTodo
<1>9. Promise!Call(c) <=> /\ ~Active[c]
                          /\ Active' = [Active EXCEPT ![c] = TRUE]
                          /\ \E m \in Sizes : AllTodo' = [AllTodo EXCEPT ![c] = 0 .. m - 1]
    BY DEF Promise!Call, Active, AllTodo, Todo
<1> QED
    BY <1>7, <1>8, <1>9

LEMMA ReturnRefines ==
    ASSUME IInv, ItemInv, ItemInv', NEW c \in Callers, SerialReturn(c) \/ Return(c)
    PROVE  Promise!Return(c)
<1>1. /\ Types /\ CountTypes /\ cpc \in [Callers -> CallerPCs] /\ calls \in [Callers -> 0 .. MaxCalls]
      /\ req[c].n \in Nat
    BY DEF IInv, Types, TypeOK, CallerTypes
<1>2. /\ cpc[c] # "idle" /\ cpc'[c] = "idle" /\ UNCHANGED <<calls, req, ran>>
      /\ \A d \in Callers : d # c => cpc'[d] = cpc[d]
    BY <1>1 DEF SerialReturn, Return, Goto
<1>3. \A i \in Items(req[c].n) : ran[Job(c)][i] = 1
    <2>1. SUFFICES ASSUME NEW i \in Items(req[c].n) PROVE ran'[Job(c)'][i] = 1
        BY <1>2 DEF Job
    <2>2. i \in MaxItems /\ i < req[c].n
        BY <1>1, <1>2, ItemsOfCall DEF Items
    <2>3. HasRun(c, i)'
        BY <1>2, <2>2 DEF HasRun, NotBegun, InFlight
    <2>4. calls'[c] >= 1
        BY <1>1, <1>2 DEF Types, CallNumbered
    <2> QED
        BY <2>2, <2>3, <2>4 DEF ItemInv, CurrentItems
<1>4. Todo(c) = {} /\ Todo(c)' = {}
    BY <1>2, <1>3 DEF Todo
<1>5. \A d \in Callers : d # c => Todo(d)' = Todo(d)
    BY <1>2 DEF Todo, Job
<1>6. Active[c] /\ Active' = [Active EXCEPT ![c] = FALSE]
    BY <1>2 DEF Active
<1>7. AllTodo[c] = {} /\ AllTodo' = AllTodo
    BY <1>4, <1>5 DEF AllTodo
<1>8. Promise!Return(c) <=> /\ Active[c]
                            /\ AllTodo[c] = {}
                            /\ Active' = [Active EXCEPT ![c] = FALSE]
                            /\ UNCHANGED AllTodo
    BY DEF Promise!Return, Active, AllTodo, Todo
<1> QED
    BY <1>6, <1>7, <1>8

\* A caller inside geist_par_for that neither enters nor returns.
LEMMA InnerStepRefines ==
    ASSUME IInv, ItemInv, NEW c \in Callers, CallerStep(c), ~SerialReturn(c), ~Return(c)
    PROVE  Promise!Run(c)
<1>1. /\ Types /\ cpc \in [Callers -> CallerPCs]
      /\ req \in [Callers -> [n : Nat, T : 0 .. PoolMax, dyn : BOOLEAN, nest : BOOLEAN]]
    BY DEF IInv, Types, TypeOK, CallerTypes
<1>2. UNCHANGED calls /\ cpc[c] # "idle"
    BY DEF CallerStep, Serial, Lock, Grow, WriteTask, Publish, LookSleeping, Signal,
        BeginOwn, OwnPull, OwnBody, Join, callerVars
<1>3. UNCHANGED ran \/ \E S : Took(Job(c), S)
    BY DEF CallerStep, Serial, Lock, Grow, WriteTask, Publish, LookSleeping, Signal,
        BeginOwn, OwnPull, OwnBody, Join
<1>4. req'[c].n = req[c].n /\ cpc'[c] # "idle"
    <2>1. CASE Grow(c)
        <3>1. PICK k : GrowTo(c, k)
            BY <2>1 DEF Grow
        <3> QED
            BY <1>1, <3>1 DEF GrowTo, Goto
    <2>2. CASE ~Grow(c)
        BY <1>1, <2>2 DEF CallerStep, Serial, Lock, WriteTask, Publish, LookSleeping, Signal,
            BeginOwn, OwnPull, OwnBody, Join, callerVars, Goto
    <2> QED
        BY <2>1, <2>2
<1>5. \A d \in Callers : d # c => cpc'[d] = cpc[d] /\ req'[d] = req[d]
    BY <1>1, OtherCallers
<1>6. \A d \in Callers : req'[d].n = req[d].n /\ (cpc'[d] = "idle" <=> cpc[d] = "idle")
    BY <1>2, <1>4, <1>5
<1> QED
    BY <1>2, <1>3, <1>6, RunRefines

LEMMA WorkerRefines ==
    ASSUME IInv, ItemInv, NEW w \in Workers, WorkerStep(w) \/ SpuriousWakeup(w)
    PROVE  [Promise!Next]_(Promise!vars)
<1>1. UNCHANGED <<lock, word, task, cpc, calls, req, idx>>
    BY WorkerFrame
<1>2. CASE Pull(w) \/ Body(w)
    <2>1. PICK c : c = lock
        OBVIOUS
    <2>2. c \in Callers /\ cpc[c] \in InFlight
        BY <1>2, <2>1, BodyInFlight DEF Pull, Body
    <2>3. UNCHANGED ran \/ \E S : Took(Job(c), S)
        BY <1>2, <2>1, WorkerRuns
    <2>4. Promise!Run(c)
        BY <1>1, <2>2, <2>3, RunRefines DEF InFlight
    <2> QED
        BY <2>2, <2>4 DEF Promise!Next
<1>3. CASE ~(Pull(w) \/ Body(w))
    <2>1. UNCHANGED ran
        BY <1>3 DEF WorkerStep, SpinSee, LockMu, SetSleeping, Check, SpuriousWakeup, Relock,
            LeaveSleep, TestTeam, ReadTask, Finish
    <2> QED
        BY <1>1, <2>1 DEF Promise!vars, Job
<1> QED
    BY <1>2, <1>3

\* par.h states what geist_par_for does as one step per set of items nobody ran
\* before; the pool with its lock, word, sleeping workers and join does nothing
\* else, for any number of calling threads.
THEOREM PoolImplementsParFor == Spec => ImplementsParFor
<1>1. Init => Promise!Init
    <2> SUFFICES ASSUME Init PROVE Promise!Init
        OBVIOUS
    <2>1. [c \in Callers |-> cpc[c] # "idle"] = [c \in Callers |-> FALSE]
        BY DEF Init
    <2>2. [c \in Callers |-> {i \in Items(req[c].n) : cpc[c] # "idle" /\ ran[Job(c)][i] = 0}]
              = [c \in Callers |-> {}]
        BY DEF Init
    <2> QED
        BY <2>1, <2>2 DEF Promise!Init
<1>2. IInv /\ ItemInv /\ (IInv /\ ItemInv)' /\ [Next]_vars => [Promise!Next]_(Promise!vars)
    <2> SUFFICES ASSUME IInv, ItemInv, ItemInv', [Next]_vars
                 PROVE  [Promise!Next]_(Promise!vars)
        OBVIOUS
    <2>1. CASE \E c \in Callers : Call(c) \/ CallerStep(c)
        <3>1. PICK c \in Callers : Call(c) \/ CallerStep(c)
            BY <2>1
        <3>2. Promise!Call(c) \/ Promise!Run(c) \/ Promise!Return(c)
            BY <3>1, CallRefines, ReturnRefines, InnerStepRefines
        <3> QED
            BY <3>2 DEF Promise!Next
    <2>2. CASE \E w \in Workers : WorkerStep(w) \/ SpuriousWakeup(w)
        BY <2>2, WorkerRefines
    <2>3. CASE UNCHANGED vars
        BY <2>3 DEF vars, callerVars, Promise!vars, Job
    <2> QED
        BY <2>1, <2>2, <2>3 DEF Next
<1> QED
    BY ItemsInductive, <1>1, <1>2, PTL DEF ImplementsParFor, Promise!Spec, Spec

-----------------------------------------------------------------------------
(***************************************************************************)
(* KiviCache: through every drain, burst, rollback, truncate and return to a *)
(* pinned prefix, attention finds the row of each position, for any group    *)
(* size, sub-batch, context, draft count and layers.                         *)
(*                                                                           *)
(* The argument: each part of a call maps a cache whose counters agree       *)
(* (Shape) and whose rows are where attention reads them (Right) to such a   *)
(* cache; a part that fails keeps Shape, and the session is marked until it  *)
(* is empty.  The calls compose the parts.  A drain of g groups is a         *)
(* recursive function; that it is DrainGroup g times is proved with the      *)
(* least number for which it would not be.                                   *)
(***************************************************************************)

\* Whole groups: the quotient and the remainder are the only ones.
LEMMA DivisionUnique ==
    ASSUME NEW n \in Nat, NEW k \in Nat, NEW r \in Nat, NEW b \in Nat \ {0}, r < b, n = k * b + r
    PROVE  n \div b = k /\ n % b = r
<1> DEFINE q == n \div b
           s == n % b
<1>1. q \in Nat /\ s \in Nat /\ s < b /\ n = q * b + s
    BY Division
<1> HIDE DEF q, s
<1>2. ASSUME NEW x \in Nat, NEW y \in Nat, x < y
      PROVE  x * b + b <= y * b
    <2>1. (x + 1) * b = x * b + b /\ x + 1 \in Nat /\ x + 1 <= y
        BY <1>2
    <2> QED
        BY <2>1, ProductGrows
<1>3. q * b \in Nat /\ k * b \in Nat
    BY <1>1
<1>4. ~(q < k) /\ ~(k < q)
    BY <1>1, <1>2, <1>3
<1>5. q = k
    BY <1>1, <1>4
<1>6. s = r
    BY <1>1, <1>3, <1>5
<1> QED
    BY <1>5, <1>6 DEF q, s

-----------------------------------------------------------------------------
(* Counting up: Drained is defined by recursion over the groups. *)

\* A set of numbers has a least one: how a claim about a count is proved.
LEMMA LeastNumber ==
    ASSUME NEW S \in SUBSET Nat, S # {}
    PROVE  \E m \in S : \A k \in S : m <= k
<1> DEFINE Less == {ss \in Nat \X Nat : ss[1] < ss[2]}
<1>1. IsWellFoundedOn(Less, Nat)
    BY NatLessThanWellFounded DEF OpToRel
<1> HIDE DEF Less
<1>2. PICK m \in S : \A k \in S : ~ (<<k, m>> \in Less)
    BY <1>1, WFMin
<1>3. \A k \in S : ~ (k < m)
    BY <1>2 DEF Less
<1> QED
    BY <1>3

\* f[h] is the cache after h groups.
IsDrain(f, c, g) == f = [h \in 0 .. g |-> IF h = 0 THEN c ELSE DrainGroup(f[h - 1])]

\* The function that Drained names exists, for any number of groups.
LEMMA DrainExists ==
    ASSUME NEW c, NEW g \in Nat
    PROVE  \E f : IsDrain(f, c, g)
<1> DEFINE Bad == {n \in Nat : ~ \E f : IsDrain(f, c, n)}
<1>1. SUFFICES ASSUME Bad # {} PROVE FALSE
    OBVIOUS
<1>2. PICK m \in Bad : \A k \in Bad : m <= k
    BY <1>1, LeastNumber
<1>3. CASE m = 0
    <2> DEFINE f == [h \in 0 .. 0 |-> c]
    <2>1. IsDrain(f, c, 0)
        BY DEF IsDrain
    <2> QED
        BY <1>2, <1>3, <2>1
<1>4. CASE m # 0
    <2>1. m - 1 \in Nat /\ m - 1 \notin Bad
        BY <1>2, <1>4
    <2>2. PICK e : IsDrain(e, c, m - 1)
        BY <2>1
    <2> DEFINE f == [h \in 0 .. m |-> IF h = 0 THEN c ELSE DrainGroup(e[h - 1])]
    <2>3. \A h \in 0 .. m - 1 : e[h] = IF h = 0 THEN c ELSE DrainGroup(e[h - 1])
        BY <2>2 DEF IsDrain
    <2>4. \A h \in 0 .. m - 1 : f[h] = e[h]
        BY <2>3
    <2>5. \A h \in 0 .. m : h # 0 => h - 1 \in 0 .. m - 1
        BY <2>1
    <2>6. f = [h \in 0 .. m |-> IF h = 0 THEN c ELSE DrainGroup(f[h - 1])]
        BY <2>4, <2>5
    <2>7. IsDrain(f, c, m)
        BY <2>6 DEF IsDrain
    <2> QED
        BY <1>2, <2>7
<1> QED
    BY <1>3, <1>4

\* It is unique: two such functions agree where both are defined.
LEMMA DrainUnique ==
    ASSUME NEW c, NEW g \in Nat, NEW G \in Nat, g <= G, NEW f, IsDrain(f, c, g), NEW F, IsDrain(F, c, G)
    PROVE  \A h \in 0 .. g : f[h] = F[h]
<1> DEFINE Bad == {h \in 0 .. g : f[h] # F[h]}
<1>1. SUFFICES ASSUME Bad # {} PROVE FALSE
    OBVIOUS
<1>2. PICK m \in Bad : \A k \in Bad : m <= k
    <2>1. Bad \in SUBSET Nat
        OBVIOUS
    <2> QED
        BY <1>1, <2>1, LeastNumber
<1>3. /\ \A h \in 0 .. g : f[h] = IF h = 0 THEN c ELSE DrainGroup(f[h - 1])
      /\ \A h \in 0 .. G : F[h] = IF h = 0 THEN c ELSE DrainGroup(F[h - 1])
    BY DEF IsDrain
<1>4. m # 0
    BY <1>2, <1>3
<1>5. m - 1 \in 0 .. g /\ m - 1 \notin Bad
    BY <1>2, <1>4
<1> QED
    BY <1>2, <1>3, <1>4, <1>5

\* So Drained(c, g) is its last value.
LEMMA DrainedIs ==
    ASSUME NEW c, NEW g \in Nat, NEW f, IsDrain(f, c, g)
    PROVE  Drained(c, g) = f[g]
<1> DEFINE F == CHOOSE e : IsDrain(e, c, g)
<1>1. Drained(c, g) = F[g]
    BY DEF Drained, IsDrain
<1>2. IsDrain(F, c, g)
    BY DrainExists
<1> HIDE DEF F
<1> QED
    BY <1>1, <1>2, DrainUnique

\* One more group is one more DrainGroup: the loop of kivi_drain_one_layer.
LEMMA DrainedStep ==
    ASSUME NEW c, NEW g \in Nat
    PROVE  Drained(c, 0) = c /\ Drained(c, g + 1) = DrainGroup(Drained(c, g))
<1>1. PICK f : IsDrain(f, c, g + 1)
    BY DrainExists
<1>2. \A h \in 0 .. g + 1 : f[h] = IF h = 0 THEN c ELSE DrainGroup(f[h - 1])
    BY <1>1 DEF IsDrain
<1>3. ASSUME NEW n \in 0 .. g + 1
      PROVE  Drained(c, n) = f[n]
    <2>1. PICK e : IsDrain(e, c, n)
        BY DrainExists
    <2>2. e[n] = f[n]
        BY <1>1, <2>1, DrainUnique
    <2> QED
        BY <2>1, <2>2, DrainedIs
<1>4. f[0] = c /\ f[g + 1] = DrainGroup(f[g])
    BY <1>2
<1> QED
    BY <1>3, <1>4

-----------------------------------------------------------------------------
(* The invariant. *)

Rows == Tokens \cup {NoRow}
Caches == [text : Seq(Tokens), drained : Nat, residual : Nat,
           ring : [Layers -> [RingIndex -> Rows]], packed : [Layers -> [RingIndex -> Rows]]]

\* The counters agree: whole groups are packed, the rest is in the ring.
Shape(c) == /\ c \in Caches
            /\ Len(c.text) <= maxLen
            /\ c.drained + c.residual = Len(c.text)
            /\ \E k \in Nat : c.drained = k * R

\* Every position's row is where attention reads it.
Right(c) == \A l \in Layers, p \in 0 .. Len(c.text) - 1 :
                c.text[p + 1] = IF p < c.drained THEN c.packed[l][p] ELSE c.ring[l][p - c.drained]

Base(n) == (n \div R) * R
CacheTypes == /\ maxLen \in Contexts
         /\ Shape(Cache)
         /\ prefix \in 0 .. Len(text)
         /\ tail \in [Layers -> Seq(Rows)]
         /\ ready \in BOOLEAN
         /\ todo \in [ids : Seq(Tokens), pin : BOOLEAN]
         /\ Len(text) + Len(todo.ids) <= maxLen
         /\ faults \in Nat
         /\ failed \in BOOLEAN

\* A pinning prefill began in an empty session and has not failed.
PinClean == todo.pin => todo.ids # <<>> /\ ~failed

CacheInv == CacheTypes /\ PinClean /\ (~failed => Right(Cache)) /\ PrefixKept /\ UndrainedOnlyCut

-----------------------------------------------------------------------------
(* Sequences. *)

\* Two texts that agree up to m have the same parts up to m.
LEMMA PartsAgree ==
    ASSUME NEW S, NEW s \in Seq(S), NEW t \in Seq(S), NEW a \in Nat \ {0}, NEW m \in Nat,
           m <= Len(s), m <= Len(t), \A i \in 1 .. m : s[i] = t[i]
    PROVE  SubSeq(s, a, m) = SubSeq(t, a, m)
<1>1. (\A i \in a .. m : s[i] \in S) /\ (\A i \in a .. m : t[i] \in S)
    BY ElementOfSeq
<1>2. /\ SubSeq(s, a, m) \in Seq(S) /\ SubSeq(t, a, m) \in Seq(S)
      /\ Len(SubSeq(s, a, m)) = (IF a <= m THEN m - a + 1 ELSE 0)
      /\ Len(SubSeq(t, a, m)) = (IF a <= m THEN m - a + 1 ELSE 0)
      /\ \A i \in 1 .. m - a + 1 : SubSeq(s, a, m)[i] = s[a + i - 1] /\ SubSeq(t, a, m)[i] = t[a + i - 1]
    BY <1>1, SubSeqProperties
<1>3. \A i \in 1 .. Len(SubSeq(s, a, m)) : SubSeq(s, a, m)[i] = SubSeq(t, a, m)[i]
    <2>1. TAKE i \in 1 .. Len(SubSeq(s, a, m))
    <2>2. i \in 1 .. m - a + 1 /\ a + i - 1 \in 1 .. m
        BY <1>2
    <2> QED
        BY <1>2, <2>2
<1> QED
    BY <1>2, <1>3, SeqEqual

\* A prefix of a text.
LEMMA CutText ==
    ASSUME NEW s \in Seq(Tokens), NEW n \in 0 .. Len(s)
    PROVE  /\ SubSeq(s, 1, n) \in Seq(Tokens) /\ Len(SubSeq(s, 1, n)) = n
           /\ \A i \in 1 .. n : SubSeq(s, 1, n)[i] = s[i]
<1>1. \A i \in 1 .. n : s[i] \in Tokens
    BY ElementOfSeq
<1> QED
    BY <1>1, SubSeqProperties

-----------------------------------------------------------------------------
(* What the parts of a call do to a cache. *)

\* New rows go behind the old ones (the K/V writes of a layer), which stay right.
LEMMA AppendedKeeps ==
    ASSUME maxLen \in Nat, NEW c, Shape(c), NEW ids \in Seq(Tokens), Len(c.text) + Len(ids) <= maxLen
    PROVE  /\ Shape(Appended(c, ids))
           /\ Appended(c, ids).text = c.text \o ids
           /\ Appended(c, ids).drained = c.drained
           /\ Right(c) => Right(Appended(c, ids))
<1>1. PICK L \in Nat, n \in Nat, D \in Nat, Q \in Nat :
          L = Len(c.text) /\ n = Len(ids) /\ D = c.drained /\ Q = c.residual
    BY DEF Shape, Caches
<1>2. D + Q = L /\ L + n <= maxLen
    BY <1>1 DEF Shape
<1> DEFINE a == Appended(c, ids)
           first == L - D
           row(old, i) == IF i \in first .. first + n - 1 THEN ids[i - first + 1] ELSE old
           G == [l \in Layers |-> [i \in RingIndex |-> row(c.ring[l][i], i)]]
           T == c.text \o ids
<1>3. /\ c.ring \in [Layers -> [RingIndex -> Rows]] /\ c.text \in Seq(Tokens) /\ c \in Caches
    BY DEF Shape, Caches
<1>4. a = [c EXCEPT !.ring = G, !.text = T, !.residual = @ + n]
    BY <1>1 DEF Appended
<1>5. /\ T \in Seq(Tokens) /\ Len(T) = L + n
      /\ \A i \in 1 .. L + n : T[i] = IF i <= L THEN c.text[i] ELSE ids[i - L]
    BY <1>1, <1>3, ConcatProperties
<1>6. G \in [Layers -> [RingIndex -> Rows]]
    <2>1. \A i : i \in first .. first + n - 1 => i - first + 1 \in 1 .. n
        BY <1>2
    <2>2. \A i : i \in first .. first + n - 1 => ids[i - first + 1] \in Tokens
        BY <1>1, <2>1, ElementOfSeq
    <2> QED
        BY <1>3, <2>2 DEF Rows
<1>7. \A l \in Layers, i \in RingIndex : G[l][i] = row(c.ring[l][i], i)
    OBVIOUS
<1> HIDE DEF a, G, T
<1>8. /\ a.text = T /\ a.drained = D /\ a.residual = Q + n
      /\ a.packed = c.packed /\ a.ring = G
    BY <1>1, <1>3, <1>4 DEF Caches
<1>9. Shape(a)
    <2>1. a \in Caches
        <3>1. a = [c EXCEPT !.ring = G, !.text = T, !.residual = Q + n] /\ Q + n \in Nat
            BY <1>1, <1>4
        <3> QED
            BY <1>3, <1>5, <1>6, <3>1 DEF Caches
    <2>2. a.drained + a.residual = Len(a.text) /\ Len(a.text) <= maxLen
        BY <1>2, <1>5, <1>8
    <2>3. \E k \in Nat : a.drained = k * R
        BY <1>1, <1>8 DEF Shape
    <2> QED
        BY <2>1, <2>2, <2>3 DEF Shape
<1>10. ASSUME Right(c), NEW l \in Layers, NEW p \in 0 .. L + n - 1
       PROVE  T[p + 1] = IF p < D THEN c.packed[l][p] ELSE G[l][p - D]
    <2>1. p \in Nat /\ p + 1 \in 1 .. L + n
        OBVIOUS
    <2>2. CASE p < L
        <3>1. T[p + 1] = c.text[p + 1] /\ p \in 0 .. L - 1
            BY <1>5, <2>1, <2>2
        <3>2. c.text[p + 1] = IF p < D THEN c.packed[l][p] ELSE c.ring[l][p - D]
            BY <1>1, <1>10, <3>1 DEF Right
        <3>3. p >= D => p - D \in RingIndex /\ ~(p - D \in first .. first + n - 1)
            BY <1>2, <2>2, <3>1 DEF RingIndex
        <3> QED
            BY <1>7, <3>1, <3>2, <3>3
    <2>3. CASE p >= L
        <3>1. T[p + 1] = ids[p + 1 - L]
            <4>1. PICK i \in Nat : i = p + 1
                BY <2>1
            <4>2. i \in 1 .. L + n /\ ~(i <= L)
                BY <2>1, <2>3, <4>1
            <4>3. T[i] = ids[i - L]
                BY <1>5, <4>2
            <4> QED
                BY <4>1, <4>3
        <3>2. /\ ~(p < D) /\ p - D \in RingIndex /\ p - D \in first .. first + n - 1
              /\ (p - D) - first + 1 = p + 1 - L
            BY <1>2, <2>1, <2>3 DEF RingIndex
        <3>3. G[l][p - D] = row(c.ring[l][p - D], p - D)
            BY <1>7, <3>2
        <3>4. row(c.ring[l][p - D], p - D) = ids[(p - D) - first + 1]
            BY <3>2
        <3> QED
            BY <3>1, <3>2, <3>3, <3>4
    <2> QED
        BY <2>1, <2>2, <2>3
<1>11. Right(c) => Right(a)
    <2>1. SUFFICES ASSUME Right(c), NEW l \in Layers, NEW p \in 0 .. Len(a.text) - 1
                   PROVE  a.text[p + 1] = IF p < a.drained THEN a.packed[l][p] ELSE a.ring[l][p - a.drained]
        BY DEF Right
    <2>2. p \in 0 .. L + n - 1
        BY <1>5, <1>8
    <2>3. T[p + 1] = IF p < D THEN c.packed[l][p] ELSE G[l][p - D]
        BY <1>10, <2>1, <2>2
    <2> QED
        BY <1>8, <2>3
<1> QED
    BY <1>1, <1>8, <1>9, <1>11 DEF a, T

\* What kivi_drain_one_layer writes in the layers ls: nothing outside the buffers.
LEMMA MovedKeeps ==
    ASSUME maxLen \in Nat, NEW c, Shape(c), c.residual >= R, NEW ls
    PROVE  /\ Shape(Moved(c, ls))
           /\ Moved(c, ls).text = c.text /\ Moved(c, ls).drained = c.drained
           /\ Moved(c, ls).residual = c.residual
           /\ \A l \in Layers, i \in RingIndex :
                /\ Moved(c, ls).packed[l][i] = IF l \in ls /\ i \in c.drained .. c.drained + R - 1
                                               THEN c.ring[l][i - c.drained] ELSE c.packed[l][i]
                /\ Moved(c, ls).ring[l][i] = IF l \in ls /\ i < c.residual - R
                                             THEN c.ring[l][i + R] ELSE c.ring[l][i]
<1> DEFINE m == Moved(c, ls)
           group == c.drained .. c.drained + R - 1
           P == [l \in Layers |-> [p \in DOMAIN c.packed[l] |->
                    IF l \in ls /\ p \in group THEN c.ring[l][p - c.drained] ELSE c.packed[l][p]]]
           G == [l \in Layers |-> [i \in RingIndex |->
                    IF l \in ls /\ i < c.residual - R THEN c.ring[l][i + R] ELSE c.ring[l][i]]]
<1>1. /\ c \in Caches /\ c.drained \in Nat /\ c.residual \in Nat /\ c.text \in Seq(Tokens)
      /\ c.ring \in [Layers -> [RingIndex -> Rows]] /\ c.packed \in [Layers -> [RingIndex -> Rows]]
      /\ c.drained + c.residual = Len(c.text) /\ Len(c.text) <= maxLen
    BY DEF Shape, Caches
<1>2. m = [c EXCEPT !.packed = P, !.ring = G]
    BY <1>1 DEF Moved, Caches
<1>3. G \in [Layers -> [RingIndex -> Rows]]
    <2>1. \A i \in RingIndex : i < c.residual - R => i + R \in RingIndex
        BY <1>1, KiviConstants DEF RingIndex
    <2> QED
        BY <1>1, <2>1
<1>4. \A l \in Layers : DOMAIN c.packed[l] = RingIndex
    BY <1>1
<1>5. P \in [Layers -> [RingIndex -> Rows]]
    <2>1. \A p : p \in group => p - c.drained \in RingIndex
        BY SMTT(30), <1>1, KiviConstants DEF RingIndex
    <2> QED
        BY <1>1, <1>4, <2>1
<1>6. \A l \in Layers, i \in RingIndex :
          /\ P[l][i] = IF l \in ls /\ i \in group THEN c.ring[l][i - c.drained] ELSE c.packed[l][i]
          /\ G[l][i] = IF l \in ls /\ i < c.residual - R THEN c.ring[l][i + R] ELSE c.ring[l][i]
    BY <1>4
<1> HIDE DEF m, P, G
<1>7. /\ m.text = c.text /\ m.drained = c.drained /\ m.residual = c.residual
      /\ m.packed = P /\ m.ring = G /\ m \in Caches
    BY <1>1, <1>2, <1>3, <1>5 DEF Caches
<1>8. Shape(m)
    BY <1>1, <1>7 DEF Shape
<1> QED
    BY <1>6, <1>7, <1>8 DEF m

\* A whole group drained in every layer: the counters agree and the rows are right.
LEMMA DrainGroupKeeps ==
    ASSUME maxLen \in Nat, NEW c, Shape(c), c.residual >= R
    PROVE  /\ Shape(DrainGroup(c))
           /\ DrainGroup(c).text = c.text
           /\ DrainGroup(c).drained = c.drained + R
           /\ DrainGroup(c).residual = c.residual - R
           /\ Right(c) => Right(DrainGroup(c))
<1> DEFINE m == Moved(c, Layers)
           d == DrainGroup(c)
           group == c.drained .. c.drained + R - 1
<1>1. /\ Shape(m) /\ m.text = c.text /\ m.drained = c.drained /\ m.residual = c.residual
      /\ \A l \in Layers, i \in RingIndex :
           /\ m.packed[l][i] = IF i \in group THEN c.ring[l][i - c.drained] ELSE c.packed[l][i]
           /\ m.ring[l][i] = IF i < c.residual - R THEN c.ring[l][i + R] ELSE c.ring[l][i]
    BY MovedKeeps
<1>2. /\ c.drained \in Nat /\ c.residual \in Nat /\ c.text \in Seq(Tokens) /\ Len(c.text) \in Nat
      /\ c.drained + c.residual = Len(c.text) /\ Len(c.text) <= maxLen /\ R \in Nat \ {0}
    BY KiviConstants DEF Shape, Caches
<1>3. d = [m EXCEPT !.drained = @ + R, !.residual = @ - R]
    BY DEF DrainGroup
<1> HIDE DEF m, d
<1>4. m \in Caches /\ c.residual - R \in Nat /\ c.drained + R \in Nat
    BY <1>1, <1>2 DEF Shape
<1>5. /\ d.text = c.text /\ d.drained = c.drained + R /\ d.residual = c.residual - R
      /\ d.ring = m.ring /\ d.packed = m.packed
    BY <1>1, <1>3, <1>4 DEF Caches
<1>6. Shape(d)
    <2>1. d \in Caches
        <3>1. d = [m EXCEPT !.drained = c.drained + R, !.residual = c.residual - R]
            BY <1>1, <1>3
        <3> QED
            BY <1>4, <3>1 DEF Caches
    <2>2. \E k \in Nat : d.drained = k * R
        <3>1. PICK k \in Nat : c.drained = k * R
            BY DEF Shape
        <3>2. (k + 1) * R = k * R + R
            BY <1>2, <3>1
        <3> QED
            BY <1>5, <3>1, <3>2
    <2>3. d.drained + d.residual = Len(d.text)
        BY <1>2, <1>5
    <2> QED
        BY <1>2, <1>5, <2>1, <2>2, <2>3 DEF Shape
<1>7. ASSUME Right(c), NEW l \in Layers, NEW p \in 0 .. Len(d.text) - 1
      PROVE  d.text[p + 1] = IF p < d.drained THEN d.packed[l][p] ELSE d.ring[l][p - d.drained]
    <2>1. p \in Nat /\ p \in RingIndex /\ p < Len(c.text)
        BY <1>2, <1>5 DEF RingIndex
    <2>2. c.text[p + 1] = IF p < c.drained THEN c.packed[l][p] ELSE c.ring[l][p - c.drained]
        BY <1>5, <1>7 DEF Right
    <2>3. CASE p < c.drained
        <3>1. p \notin group /\ p < d.drained
            BY <1>2, <1>5, <2>1, <2>3
        <3> QED
            BY <1>1, <1>5, <2>1, <2>2, <2>3, <3>1
    <2>4. CASE p \in group
        <3>1. ~(p < c.drained) /\ p < d.drained
            BY <1>2, <1>5, <2>1, <2>4
        <3> QED
            BY <1>1, <1>5, <2>1, <2>2, <2>4, <3>1
    <2>5. CASE p >= c.drained + R
        <3> DEFINE i == p - (c.drained + R)
        <3>1. ~(p < c.drained) /\ ~(p < d.drained) /\ i \in RingIndex
            BY SMTT(30), <1>2, <1>5, <2>1, <2>5 DEF RingIndex
        <3>2. i < c.residual - R /\ i + R = p - c.drained
            BY <1>2, <2>1, <2>5
        <3>3. d.ring[l][i] = c.ring[l][p - c.drained]
            BY <1>1, <1>5, <3>1, <3>2
        <3> QED
            BY <1>5, <2>2, <3>1, <3>3
    <2> QED
        BY <1>2, <2>1, <2>3, <2>4, <2>5
<1>8. Right(c) => Right(d)
    BY <1>7 DEF Right
<1> QED
    BY <1>5, <1>6, <1>8 DEF d

\* So are they after any number of groups that are there.
LEMMA DrainedKeeps ==
    ASSUME maxLen \in Nat, NEW c, Shape(c), NEW g \in Nat, g * R <= c.residual
    PROVE  /\ Shape(Drained(c, g))
           /\ Drained(c, g).text = c.text
           /\ Drained(c, g).drained = c.drained + g * R
           /\ Drained(c, g).residual = c.residual - g * R
           /\ Right(c) => Right(Drained(c, g))
<1> DEFINE Good(h) == LET e == Drained(c, h) IN
               /\ Shape(e) /\ e.text = c.text /\ e.drained = c.drained + h * R
               /\ e.residual = c.residual - h * R /\ (Right(c) => Right(e))
           Bad == {h \in 0 .. g : ~Good(h)}
<1>1. R \in Nat /\ c.drained \in Nat /\ c.residual \in Nat
    BY KiviConstants DEF Shape, Caches
<1>2. SUFFICES ASSUME Bad # {} PROVE FALSE
    OBVIOUS
<1>3. PICK m \in Bad : \A k \in Bad : m <= k
    <2>1. Bad \in SUBSET Nat
        OBVIOUS
    <2> QED
        BY <1>2, <2>1, LeastNumber
<1>4. Good(0)
    <2>1. Drained(c, 0) = c
        BY DrainedStep
    <2>2. 0 * R = 0
        BY <1>1
    <2> QED
        BY <1>1, <2>1, <2>2
<1>5. m # 0 /\ m \in 0 .. g
    BY <1>3, <1>4
<1>6. PICK h \in Nat : m = h + 1
    <2>1. m - 1 \in Nat /\ m = (m - 1) + 1
        BY <1>5
    <2> QED
        BY <2>1
<1>7. Good(h)
    <2>1. h \in 0 .. g /\ ~(m <= h)
        BY <1>5, <1>6
    <2> QED
        BY <1>3, <2>1
<1> DEFINE e == Drained(c, h)
<1>8. Drained(c, m) = DrainGroup(e)
    BY <1>6, DrainedStep
<1>9. h * R \in Nat /\ (h + 1) * R = h * R + R /\ (h + 1) * R <= g * R
    <2>1. h + 1 \in Nat /\ h + 1 <= g
        BY <1>5, <1>6
    <2> QED
        BY <1>1, <2>1, ProductGrows
<1>10. g * R \in Nat
    BY <1>1
<1>11. e.residual >= R
    BY <1>1, <1>7, <1>9, <1>10
<1> HIDE DEF e
<1>12. Shape(e) /\ e.text = c.text /\ e.drained = c.drained + h * R /\ e.residual = c.residual - h * R /\ (Right(c) => Right(e))
    BY <1>7 DEF e
<1>13. /\ Shape(DrainGroup(e)) /\ DrainGroup(e).text = e.text /\ DrainGroup(e).drained = e.drained + R
       /\ DrainGroup(e).residual = e.residual - R /\ (Right(e) => Right(DrainGroup(e)))
    BY <1>11, <1>12, DrainGroupKeeps
<1>14. c.drained + h * R + R = c.drained + m * R /\ c.residual - h * R - R = c.residual - m * R
    BY <1>1, <1>6, <1>9
<1>15. Good(m)
    BY <1>8, <1>12, <1>13, <1>14
<1> QED
    BY <1>3, <1>15

\* transformer_kivi_drain_full: less than a group is left, or a layer failed.
LEMMA DrainFullKeeps ==
    ASSUME maxLen \in Nat, NEW c, Shape(c), NEW o \in DrainFull(c)
    PROVE  /\ Shape(o.c) /\ o.ok \in BOOLEAN
           /\ o.c.text = c.text /\ o.c.drained >= c.drained
           /\ o.ok => o.c.residual < R /\ (Right(c) => Right(o.c))
           /\ ~o.ok => c.text # <<>>
<1>1. PICK D \in Nat, Q \in Nat : D = c.drained /\ Q = c.residual
    BY DEF Shape, Caches
<1>2. PICK q \in Nat, r \in Nat : q = Q \div R /\ r = Q % R /\ r < R /\ Q = q * R + r
    <2>1. R \in Nat \ {0}
        BY KiviConstants
    <2>2. Q \div R \in Nat /\ Q % R \in Nat /\ (Q % R) < R /\ Q = (Q \div R) * R + (Q % R)
        BY <2>1, Division
    <2> QED
        BY <2>2
<1>3. R \in Nat \ {0} /\ q * R \in Nat
    BY <1>2, KiviConstants
<1>4. CASE o = Ok(Drained(c, q))
    <2>1. q * R <= c.residual
        BY <1>1, <1>2, <1>3
    <2>2. /\ Shape(Drained(c, q)) /\ Drained(c, q).text = c.text
          /\ Drained(c, q).drained = c.drained + q * R /\ Drained(c, q).residual = c.residual - q * R
          /\ (Right(c) => Right(Drained(c, q)))
        BY <1>2, <2>1, DrainedKeeps
    <2>3. Drained(c, q).residual < R /\ Drained(c, q).drained >= c.drained
        <3>1. PICK x \in Nat : x = q * R
            BY <1>3
        <3>2. Q = x + r
            BY <1>2, <3>1
        <3>3. Q - x = r /\ D + x >= D
            BY <3>2
        <3>4. Drained(c, q).drained = D + x /\ Drained(c, q).residual = Q - x
            BY <1>1, <2>2, <3>1
        <3> QED
            BY <1>1, <1>2, <3>3, <3>4
    <2>4. o.c = Drained(c, q) /\ o.ok = TRUE
        BY <1>4 DEF Ok
    <2> QED
        BY <2>2, <2>3, <2>4
<1>5. ASSUME NEW g \in 0 .. q - 1, NEW l, o = Failed(Moved(Drained(c, g), 1 .. l))
      PROVE  /\ Shape(o.c) /\ o.ok = FALSE
             /\ o.c.text = c.text /\ o.c.drained >= c.drained
             /\ c.text # <<>>
    <2>1. g \in Nat /\ g * R \in Nat /\ g * R + R <= Q
        <3>1. g \in Nat /\ g + 1 \in Nat /\ g + 1 <= q
            BY <1>2
        <3>2. (g + 1) * R <= q * R /\ (g + 1) * R = g * R + R
            BY <1>2, <1>3, <3>1, ProductGrows
        <3>3. g * R \in Nat
            BY <1>3, <3>1
        <3> QED
            BY <1>2, <1>3, <3>1, <3>2, <3>3
    <2> DEFINE e == Drained(c, g)
    <2>2. g * R <= c.residual
        BY <1>1, <1>3, <2>1
    <2>3. /\ Shape(e) /\ e.text = c.text /\ e.drained = c.drained + g * R /\ e.residual = c.residual - g * R
        BY <2>1, <2>2, DrainedKeeps
    <2>4. e.residual >= R /\ e.drained >= c.drained
        BY <1>1, <1>3, <2>1, <2>3
    <2> HIDE DEF e
    <2>5. /\ Shape(Moved(e, 1 .. l)) /\ Moved(e, 1 .. l).text = e.text /\ Moved(e, 1 .. l).drained = e.drained
        BY <2>3, <2>4, MovedKeeps
    <2>6. o.c = Moved(e, 1 .. l) /\ o.ok = FALSE
        BY <1>5 DEF Failed, e
    <2>7. c.text # <<>>
        <3>1. Len(c.text) = D + Q /\ Q > 0 /\ Len(c.text) > 0
            BY <1>1, <1>3, <2>1 DEF Shape
        <3> QED
            BY <3>1
    <2> QED
        BY <2>3, <2>4, <2>5, <2>6, <2>7
<1>6. \/ o = Ok(Drained(c, q))
      \/ \E g \in 0 .. q - 1, l \in 0 .. NLayers - 1 : o = Failed(Moved(Drained(c, g), 1 .. l))
    BY <1>1, <1>2 DEF DrainFull
<1> QED
    BY <1>4, <1>5, <1>6

\* A cut at or past the packed rows.
LEMMA CutKeeps ==
    ASSUME maxLen \in Nat, NEW c, Shape(c), NEW n \in Nat, c.drained <= n, n <= Len(c.text)
    PROVE  LET e == [c EXCEPT !.text = SubSeq(@, 1, n), !.residual = n - c.drained] IN
           /\ Shape(e) /\ e.text = SubSeq(c.text, 1, n) /\ e.drained = c.drained
           /\ Right(c) => Right(e)
<1> DEFINE T == SubSeq(c.text, 1, n)
           Q == n - c.drained
           e == [c EXCEPT !.text = T, !.residual = Q]
<1>1. /\ c \in Caches /\ c.text \in Seq(Tokens) /\ c.drained \in Nat /\ Len(c.text) \in Nat /\ Len(c.text) <= maxLen
    BY DEF Shape, Caches
<1>2. T \in Seq(Tokens) /\ Len(T) = n /\ \A i \in 1 .. n : T[i] = c.text[i]
    BY <1>1, CutText
<1>3. Q \in Nat /\ c.drained + Q = n
    BY <1>1
<1> HIDE DEF T, Q
<1>4. e.text = T /\ e.drained = c.drained /\ e.residual = Q /\ e.ring = c.ring /\ e.packed = c.packed /\ e \in Caches
    BY <1>1, <1>2, <1>3 DEF Caches
<1> HIDE DEF e
<1>5. Shape(e)
    BY <1>1, <1>2, <1>3, <1>4 DEF Shape
<1>6. Right(c) => Right(e)
    <2>1. SUFFICES ASSUME Right(c), NEW l \in Layers, NEW p \in 0 .. Len(e.text) - 1
                   PROVE  e.text[p + 1] = IF p < e.drained THEN e.packed[l][p] ELSE e.ring[l][p - e.drained]
        BY DEF Right
    <2>2. p + 1 \in 1 .. n /\ p \in 0 .. Len(c.text) - 1
        BY <1>1, <1>2, <1>4
    <2>3. T[p + 1] = c.text[p + 1]
        BY <1>2, <2>2
    <2>4. c.text[p + 1] = IF p < c.drained THEN c.packed[l][p] ELSE c.ring[l][p - c.drained]
        BY <2>1, <2>2 DEF Right
    <2> QED
        BY <1>4, <2>3, <2>4
<1> QED
    BY <1>4, <1>5, <1>6 DEF e, T, Q

\* transformer_kv_truncate of a burst, at or past the packed rows.
LEMMA KvTruncateKeeps ==
    ASSUME maxLen \in Nat, NEW c, Shape(c), NEW n \in Nat, c.drained <= n, n <= Len(c.text),
           NEW o \in KvTruncate(c, n)
    PROVE  /\ Shape(o.c) /\ o.ok \in BOOLEAN
           /\ o.c.text = SubSeq(c.text, 1, n) /\ o.c.drained >= c.drained
           /\ o.ok => o.c.residual < R /\ (Right(c) => Right(o.c))
           /\ ~o.ok => o.c.text # <<>>
<1> DEFINE e == [c EXCEPT !.text = SubSeq(@, 1, n), !.residual = n - c.drained]
<1>1. o \in DrainFull(e)
    <2>1. ~(n < c.drained)
        BY DEF Shape, Caches
    <2> QED
        BY <2>1 DEF KvTruncate
<1>2. /\ Shape(e) /\ e.text = SubSeq(c.text, 1, n) /\ e.drained = c.drained /\ (Right(c) => Right(e))
    BY CutKeeps
<1> HIDE DEF e
<1> QED
    BY <1>1, <1>2, DrainFullKeeps

\* Base(n) rows are whole groups; less than a group is left.
LEMMA BaseFacts ==
    ASSUME NEW n \in Nat
    PROVE  /\ Base(n) \in Nat /\ n % R \in Nat /\ n % R < R /\ n = Base(n) + (n % R)
           /\ \E k \in Nat : Base(n) = k * R
<1>1. PICK q \in Nat, r \in Nat : q = n \div R /\ r = n % R /\ r < R /\ n = q * R + r
    <2>1. R \in Nat \ {0}
        BY KiviConstants
    <2>2. n \div R \in Nat /\ n % R \in Nat /\ (n % R) < R /\ n = (n \div R) * R + (n % R)
        BY <2>1, Division
    <2> QED
        BY <2>2
<1>2. q * R \in Nat
    BY <1>1, KiviConstants
<1> QED
    BY <1>1, <1>2 DEF Base

\* transformer_session_reset to n rows whose rest is in the copy.
LEMMA ResetToKeeps ==
    ASSUME maxLen \in Nat, NEW c, Shape(c), NEW n \in Nat, n <= Len(c.text),
           tail \in [Layers -> Seq(Rows)],
           n > 0 => /\ \A l \in Layers : tail[l] = SubSeq(c.text, Base(n) + 1, n)
                    /\ Base(n) <= c.drained,
           NEW o \in ResetTo(c, n)
    PROVE  /\ Shape(o.c) /\ o.ok \in BOOLEAN
           /\ o.c.text = SubSeq(c.text, 1, n) /\ o.c.drained = Base(n) /\ o.c.residual < R
           /\ o.ok => (Right(c) => Right(o.c))
           /\ ~o.ok => n > 0
<1> DEFINE left == n - Base(n)
           moved == c.drained # Base(n) /\ left # 0 /\ Len(tail[1]) = left
           T == SubSeq(c.text, 1, n)
           G(ls) == [l \in Layers |-> [i \in RingIndex |->
                        IF l \in ls /\ i < left THEN tail[l][i + 1] ELSE c.ring[l][i]]]
           to(ls) == [c EXCEPT !.text = T, !.drained = Base(n), !.residual = left, !.ring = G(ls)]
<1>1. PICK b \in Nat, r \in Nat : b = Base(n) /\ r < R /\ n = b + r /\ r = left
    <2>1. PICK b \in Nat, r \in Nat : b = Base(n) /\ r = n % R /\ r < R /\ n = b + r
        BY BaseFacts
    <2>2. r = n - b
        BY <2>1
    <2> QED
        BY <2>1, <2>2
<1>n. n = b + r /\ n \in Nat /\ b \in Nat /\ r \in Nat
    BY <1>1
<1>2. /\ c \in Caches /\ c.text \in Seq(Tokens) /\ c.drained \in Nat /\ Len(c.text) \in Nat
      /\ Len(c.text) <= maxLen /\ c.ring \in [Layers -> [RingIndex -> Rows]]
    BY DEF Shape, Caches
<1>3. T \in Seq(Tokens) /\ Len(T) = n /\ \A i \in 1 .. n : T[i] = c.text[i]
    BY <1>2, CutText
<1>4. 1 \in Layers
    BY KiviConstants DEF Layers
\* The copy holds the rows past the groups.
<1>5. ASSUME n > 0, NEW l \in Layers
      PROVE  Len(tail[l]) = r /\ \A i \in 1 .. r : tail[l][i] = c.text[b + i] /\ c.text[b + i] \in Tokens
    <2>1. \A i \in b + 1 .. n : c.text[i] \in Tokens
        BY SMTT(30), <1>1, <1>2, ElementOfSeq
    <2>2. tail[l] = SubSeq(c.text, b + 1, n)
        BY <1>1, <1>5
    <2>3. /\ Len(SubSeq(c.text, b + 1, n)) = (IF b + 1 <= n THEN n - (b + 1) + 1 ELSE 0)
          /\ \A i \in 1 .. n - (b + 1) + 1 : SubSeq(c.text, b + 1, n)[i] = c.text[(b + 1) + i - 1]
        <3>1. b + 1 \in Nat \ {0}
            OBVIOUS
        <3>2. b + 1 \in Int /\ n \in Int
            OBVIOUS
        <3> QED
            BY SMTT(30), <1>2, <2>1, <3>1, <3>2, SubSeqProperties
    <2>4. (IF b + 1 <= n THEN n - (b + 1) + 1 ELSE 0) = r /\ n - (b + 1) + 1 = r
        BY <1>n
    <2>5. \A i \in 1 .. r : (b + 1) + i - 1 = b + i /\ b + i \in b + 1 .. n
        BY <1>n
    <2> QED
        BY <2>1, <2>2, <2>3, <2>4, <2>5
<1>6. ASSUME moved PROVE n > 0
    BY <1>1, <1>6
<1> HIDE DEF T, left
<1>7. ASSUME NEW ls, ls = {} \/ n > 0
      PROVE  /\ Shape(to(ls)) /\ to(ls).text = T /\ to(ls).drained = b /\ to(ls).residual = r
             /\ to(ls).packed = c.packed
             /\ \A l \in Layers, i \in RingIndex :
                    to(ls).ring[l][i] = IF l \in ls /\ i < r THEN tail[l][i + 1] ELSE c.ring[l][i]
    <2> DEFINE F == G(ls)
               e == [c EXCEPT !.text = T, !.drained = b, !.residual = r, !.ring = F]
    <2>1. to(ls) = e
        BY <1>1
    <2>2. F \in [Layers -> [RingIndex -> Rows]]
        <3>1. ASSUME NEW l \in Layers, NEW i \in RingIndex, l \in ls, i < r
              PROVE  tail[l][i + 1] \in Rows
            <4>1. n > 0 /\ i + 1 \in 1 .. r
                BY <1>1, <1>7, <3>1 DEF RingIndex
            <4> QED
                BY <1>5, <4>1 DEF Rows
        <3> QED
            BY <1>1, <1>2, <3>1
    <2>3. \A l \in Layers, i \in RingIndex : F[l][i] = IF l \in ls /\ i < r THEN tail[l][i + 1] ELSE c.ring[l][i]
        BY <1>1
    <2> HIDE DEF F
    <2>4. /\ e \in Caches /\ e.text = T /\ e.drained = b /\ e.residual = r
          /\ e.packed = c.packed /\ e.ring = F
        BY <1>2, <1>3, <2>2 DEF Caches
    <2> HIDE DEF e
    <2>5. Shape(e)
        <3>1. b + r = n /\ n <= maxLen
            BY <1>1, <1>2
        <3>2. \E k \in Nat : b = k * R
            BY <1>1, BaseFacts
        <3> QED
            BY <1>3, <2>4, <3>1, <3>2 DEF Shape
    <2> QED
        BY <2>1, <2>3, <2>4, <2>5
<1>8. ASSUME NEW ls, ls = {} \/ n > 0, Right(c), n > 0 => (ls = Layers \/ c.drained = b \/ r = 0)
      PROVE  Right(to(ls))
    <2> HIDE DEF to, G, moved
    <2> DEFINE e == to(ls)
    <2>1. /\ e.text = T /\ e.drained = b /\ e.packed = c.packed
          /\ \A l \in Layers, i \in RingIndex :
                    e.ring[l][i] = IF l \in ls /\ i < r THEN tail[l][i + 1] ELSE c.ring[l][i]
        BY <1>7, <1>8
    <2> HIDE DEF e
    <2>2. SUFFICES ASSUME NEW l \in Layers, NEW p \in 0 .. n - 1
                   PROVE  T[p + 1] = IF p < b THEN c.packed[l][p] ELSE e.ring[l][p - b]
        <3>1. Len(e.text) = n
            BY <1>3, <2>1
        <3>2. ASSUME NEW l \in Layers, NEW p \in 0 .. Len(e.text) - 1
              PROVE  e.text[p + 1] = IF p < e.drained THEN e.packed[l][p] ELSE e.ring[l][p - e.drained]
            <4>1. p \in 0 .. n - 1
                BY <3>1
            <4>2. T[p + 1] = IF p < b THEN c.packed[l][p] ELSE e.ring[l][p - b]
                BY <2>2, <4>1
            <4> QED
                BY <2>1, <4>2
        <3>3. Right(e)
            BY <3>2 DEF Right
        <3> QED
            BY <3>3 DEF e
    <2>3. /\ p + 1 \in 1 .. n /\ p \in 0 .. Len(c.text) - 1 /\ n > 0
          /\ (p < b \/ (p - b \in RingIndex /\ p - b < r /\ p - b + 1 \in 1 .. r /\ b + (p - b + 1) = p + 1))
        <3>1. p \in Nat /\ p < n /\ p < maxLen
            BY <1>n, <1>2
        <3> QED
            BY <1>n, <1>2, <3>1 DEF RingIndex
    <2>4. T[p + 1] = c.text[p + 1]
        BY <1>3, <2>3
    <2>5. c.text[p + 1] = IF p < c.drained THEN c.packed[l][p] ELSE c.ring[l][p - c.drained]
        <3>1. Right(c)
            BY <1>8
        <3> QED
            BY <2>3, <3>1 DEF Right
    <2>6. CASE p < b
        <3>1. p < c.drained
            <4>1. b <= c.drained
                BY <1>1, <2>3
            <4>2. PICK x \in Nat : x = c.drained
                BY <1>2
            <4>3. b <= x /\ p \in Nat
                BY <4>1, <4>2
            <4> QED
                BY <2>6, <4>2, <4>3
        <3> QED
            BY <2>4, <2>5, <2>6, <3>1
    <2>7. CASE ~(p < b) /\ l \in ls
        <3>1. e.ring[l][p - b] = tail[l][p - b + 1]
            BY <2>1, <2>3, <2>7
        <3>2. tail[l][p - b + 1] = c.text[b + (p - b + 1)]
            BY <1>5, <2>3, <2>7
        <3> QED
            BY <2>3, <2>4, <2>7, <3>1, <3>2
    <2>8. CASE ~(p < b) /\ l \notin ls
        <3>1. e.ring[l][p - b] = c.ring[l][p - b]
            BY <2>1, <2>3, <2>8
        <3>2. c.drained = b
            <4>1. l \notin Layers \/ ls # Layers
                BY <2>8
            <4>2. ls = Layers \/ c.drained = b \/ r = 0
                BY <1>8, <2>3
            <4>3. r # 0
                BY <1>n, <2>3, <2>8
            <4> QED
                BY <4>1, <4>2, <4>3
        <3> QED
            BY <2>4, <2>5, <2>8, <3>1, <3>2
    <2> QED
        BY <2>6, <2>7, <2>8
<1>9. \/ moved /\ o = Ok(to(Layers))
      \/ moved /\ \E l \in 0 .. NLayers - 1 : o = Failed(to(1 .. l))
      \/ ~moved /\ o = Ok(to({}))
    BY DEF ResetTo, Base, T, left
<1>10. CASE moved /\ o = Ok(to(Layers))
    <2>1. o.c = to(Layers) /\ o.ok = TRUE
        BY <1>10 DEF Ok
    <2> HIDE DEF to
    <2> QED
        BY <1>1, <1>6, <1>7, <1>8, <1>10, <2>1 DEF T
<1>11. ASSUME moved, NEW l \in 0 .. NLayers - 1, o = Failed(to(1 .. l))
       PROVE  /\ Shape(o.c) /\ o.ok = FALSE /\ o.c.text = T /\ o.c.drained = b /\ o.c.residual = r /\ n > 0
    <2>1. o.c = to(1 .. l) /\ o.ok = FALSE
        BY <1>11 DEF Failed
    <2> HIDE DEF to
    <2> QED
        BY <1>1, <1>6, <1>7, <1>11, <2>1
<1>12. CASE ~moved /\ o = Ok(to({}))
    <2>1. o.c = to({}) /\ o.ok = TRUE
        BY <1>12 DEF Ok
    <2>2. n > 0 => c.drained = b \/ r = 0
        BY <1>1, <1>4, <1>5, <1>12
    <2> HIDE DEF to
    <2> QED
        BY <1>1, <1>7, <1>8, <2>1, <2>2 DEF T
<1> HIDE DEF to, moved
<1> QED
    BY <1>1, <1>9, <1>10, <1>11, <1>12 DEF T

-----------------------------------------------------------------------------
(* Calls. *)

\* d has what c has: its text, and its packed groups.
Continues(c, d) == /\ Len(c.text) <= Len(d.text)
                   /\ \A i \in 1 .. Len(c.text) : d.text[i] = c.text[i]
                   /\ c.drained <= d.drained

\* Rows appended, and the full groups drained: one forward pass.
LEMMA ForwardKeeps ==
    ASSUME maxLen \in Nat, NEW c, Shape(c), NEW ids \in Seq(Tokens), Len(c.text) + Len(ids) <= maxLen,
           NEW o \in DrainFull(Appended(c, ids))
    PROVE  /\ Shape(o.c) /\ o.ok \in BOOLEAN
           /\ Continues(c, o.c) /\ Len(o.c.text) = Len(c.text) + Len(ids)
           /\ o.ok => o.c.residual < R /\ (Right(c) => Right(o.c))
           /\ ~o.ok => o.c.text # <<>>
<1> DEFINE a == Appended(c, ids)
<1>1. Shape(a) /\ a.text = c.text \o ids /\ a.drained = c.drained /\ (Right(c) => Right(a))
    BY AppendedKeeps
<1> HIDE DEF a
<1>2. o \in DrainFull(a)
    BY DEF a
<1>3. /\ Shape(o.c) /\ o.ok \in BOOLEAN /\ o.c.text = a.text /\ o.c.drained >= a.drained
      /\ o.ok => o.c.residual < R /\ (Right(a) => Right(o.c))
      /\ ~o.ok => a.text # <<>>
    BY <1>1, <1>2, DrainFullKeeps
<1>4. /\ Len(c.text \o ids) = Len(c.text) + Len(ids)
      /\ \A i \in 1 .. Len(c.text) : (c.text \o ids)[i] = c.text[i]
      /\ Len(c.text) \in Nat /\ Len(ids) \in Nat
    <2>1. c.text \in Seq(Tokens)
        BY DEF Shape, Caches
    <2>2. Len(c.text) \in Nat /\ Len(ids) \in Nat
        BY <2>1
    <2>3. /\ Len(c.text \o ids) = Len(c.text) + Len(ids)
          /\ \A i \in 1 .. Len(c.text) + Len(ids) :
                (c.text \o ids)[i] = IF i <= Len(c.text) THEN c.text[i] ELSE ids[i - Len(c.text)]
        BY <2>1, ConcatProperties
    <2>4. \A i \in 1 .. Len(c.text) : i \in 1 .. Len(c.text) + Len(ids) /\ i <= Len(c.text)
        BY <2>2
    <2> QED
        BY <2>2, <2>3, <2>4
<1>5. c.drained \in Nat /\ o.c.drained \in Nat
    BY <1>3 DEF Shape, Caches
<1>6. Continues(c, o.c)
    <2>1. Len(c.text) <= Len(o.c.text)
        BY <1>1, <1>3, <1>4
    <2> QED
        BY <1>1, <1>3, <1>4, <1>5, <2>1 DEF Continues
<1> QED
    BY <1>1, <1>3, <1>4, <1>6

\* Two forwards, one after the other.
LEMMA ContinuesOn ==
    ASSUME NEW c, Shape(c), NEW d, Shape(d), NEW e, Shape(e), Continues(c, d), Continues(d, e)
    PROVE  Continues(c, e)
<1>1. PICK a \in Nat, b \in Nat, g \in Nat, x \in Nat, y \in Nat, z \in Nat :
          /\ a = Len(c.text) /\ b = Len(d.text) /\ g = Len(e.text)
          /\ x = c.drained /\ y = d.drained /\ z = e.drained
    <2>1. /\ c.text \in Seq(Tokens) /\ d.text \in Seq(Tokens) /\ e.text \in Seq(Tokens)
          /\ c.drained \in Nat /\ d.drained \in Nat /\ e.drained \in Nat
        BY DEF Shape, Caches
    <2>2. Len(c.text) \in Nat /\ Len(d.text) \in Nat /\ Len(e.text) \in Nat
        BY <2>1
    <2> QED
        BY <2>1, <2>2
<1>2. a <= b /\ b <= g /\ x <= y /\ y <= z
    BY <1>1 DEF Continues
<1>3. ASSUME NEW i \in 1 .. a
      PROVE  e.text[i] = c.text[i]
    <2>1. i \in 1 .. b
        BY <1>2
    <2> QED
        BY <1>1, <2>1 DEF Continues
<1>4. a <= g /\ x <= z
    BY <1>2
<1> QED
    BY <1>1, <1>3, <1>4 DEF Continues

\* The cache of the next state.
LEMMA NextCache ==
    ASSUME maxLen' = maxLen, NEW o, Shape(o.c), Becomes(o)
    PROVE  /\ Shape(Cache)' /\ (Right(o.c) => Right(Cache)')
           /\ text' \in Seq(Tokens) /\ Len(text') \in Nat /\ Len(text') <= maxLen
           /\ drained' \in Nat /\ residual' \in Nat
           /\ text' = o.c.text /\ drained' = o.c.drained /\ residual' = o.c.residual
<1>1. /\ text' = o.c.text /\ drained' = o.c.drained /\ residual' = o.c.residual
      /\ ring' = o.c.ring /\ packed' = o.c.packed
    BY DEF Becomes
<1>2. RingIndex' = RingIndex
    BY DEF RingIndex
<1>3. /\ o.c.text \in Seq(Tokens) /\ o.c.drained \in Nat /\ o.c.residual \in Nat
      /\ o.c.ring \in [Layers -> [RingIndex -> Rows]] /\ o.c.packed \in [Layers -> [RingIndex -> Rows]]
    BY DEF Shape, Caches
<1>4. Cache' \in Caches'
    BY <1>1, <1>2, <1>3 DEF Cache, Caches
<1>5. /\ Cache'.text = o.c.text /\ Cache'.drained = o.c.drained /\ Cache'.residual = o.c.residual
      /\ Cache'.ring = o.c.ring /\ Cache'.packed = o.c.packed
    BY <1>1 DEF Cache
<1>6. Shape(Cache)'
    BY <1>4, <1>5 DEF Shape
<1>7. Right(o.c) => Right(Cache)'
    BY <1>5 DEF Right
<1>8. Len(o.c.text) \in Nat /\ Len(o.c.text) <= maxLen
    BY <1>3 DEF Shape
<1> QED
    BY <1>1, <1>3, <1>6, <1>7, <1>8

\* What is pinned stays pinned while its text and its groups are kept.
KeepsPrefix(c) == /\ prefix <= Len(c.text)
                  /\ \A i \in 1 .. prefix : c.text[i] = text[i]
                  /\ prefix > 0 => Base(prefix) <= c.drained

\* A cache that only grew still has the pinned prefix and its groups.
LEMMA ContinuedKeepsPrefix ==
    ASSUME CacheTypes, PrefixKept, NEW c, Shape(c), Continues(Cache, c)
    PROVE  KeepsPrefix(c)
<1>1. /\ text \in Seq(Tokens) /\ Len(text) \in Nat /\ prefix \in 0 .. Len(text) /\ drained \in Nat
      /\ c.drained \in Nat /\ Len(c.text) \in Nat
    <2>1. prefix \in 0 .. Len(text) /\ Shape(Cache)
        BY DEF CacheTypes
    <2>2. Cache.text = text /\ Cache.drained = drained
        BY DEF Cache
    <2>3. \A x : Shape(x) => x.text \in Seq(Tokens) /\ x.drained \in Nat
        BY DEF Shape, Caches
    <2>4. text \in Seq(Tokens) /\ drained \in Nat /\ c.text \in Seq(Tokens) /\ c.drained \in Nat
        BY <2>1, <2>2, <2>3
    <2> QED
        BY <2>1, <2>4
<1>2. /\ Len(text) <= Len(c.text) /\ drained <= c.drained
      /\ \A i \in 1 .. Len(text) : c.text[i] = text[i]
    BY DEF Continues, Cache
<1>3. Base(prefix) \in Nat
    BY <1>1, BaseFacts
<1>4. prefix > 0 => Base(prefix) <= drained
    BY DEF PrefixKept, Base
<1> QED
    BY <1>1, <1>2, <1>3, <1>4 DEF KeepsPrefix

\* What a call that leaves the pin alone keeps.
LEMMA CallKeeps ==
    ASSUME CacheTypes, PrefixKept, ~failed => Right(Cache),
           maxLen' = maxLen, prefix' = prefix, tail' = tail,
           NEW o, Becomes(o), Shape(o.c), o.ok \in BOOLEAN, KeepsPrefix(o.c),
           o.ok /\ Right(Cache) => Right(o.c)
    PROVE  /\ Shape(Cache)' /\ (~failed' => Right(Cache)')
           /\ prefix' \in 0 .. Len(text') /\ tail' \in [Layers -> Seq(Rows)]
           /\ faults' \in Nat /\ failed' \in BOOLEAN
           /\ PrefixKept'
<1>1. /\ Shape(Cache)' /\ (Right(o.c) => Right(Cache)')
      /\ text' \in Seq(Tokens) /\ Len(text') \in Nat /\ drained' \in Nat
      /\ text' = o.c.text /\ drained' = o.c.drained
    BY NextCache
<1>2. /\ text \in Seq(Tokens) /\ Len(text) \in Nat /\ prefix \in 0 .. Len(text)
      /\ tail \in [Layers -> Seq(Rows)] /\ faults \in Nat /\ failed \in BOOLEAN
    BY DEF CacheTypes, Shape, Caches, Cache
<1>3. faults' \in Nat /\ failed' \in BOOLEAN
    BY <1>2 DEF Becomes
<1>4. ~failed' => Right(Cache)'
    <2>1. CASE o.c.text = <<>>
        <3>1. Len(text') = 0
            BY <1>1, <2>1
        <3>2. Cache'.text = text'
            BY DEF Cache
        <3>3. \A p \in 0 .. Len(Cache'.text) - 1 : FALSE
            BY <3>1, <3>2
        <3> QED
            BY <3>3 DEF Right
    <2>2. CASE o.c.text # <<>>
        <3>1. ~failed' => ~failed /\ o.ok
            BY <2>2 DEF Becomes
        <3> QED
            BY <1>1, <3>1
    <2> QED
        BY <2>1, <2>2
<1>5. prefix <= Len(text') /\ \A i \in 1 .. prefix : text'[i] = text[i]
    BY <1>1 DEF KeepsPrefix
<1>6. ASSUME prefix > 0
      PROVE  /\ \A l \in Layers : tail[l] = SubSeq(text', Base(prefix) + 1, prefix)
             /\ Base(prefix) <= drained'
    <2>1. Base(prefix) \in Nat
        BY <1>2, BaseFacts
    <2>2. \A l \in Layers : tail[l] = SubSeq(text, Base(prefix) + 1, prefix)
        BY <1>6 DEF PrefixKept, Base
    <2>3. SubSeq(text, Base(prefix) + 1, prefix) = SubSeq(text', Base(prefix) + 1, prefix)
        <3>1. PICK a \in Nat \ {0}, m \in Nat : a = Base(prefix) + 1 /\ m = prefix
            BY <1>2, <2>1
        <3>2. PICK s \in Seq(Tokens), t \in Seq(Tokens) : s = text /\ t = text'
            BY <1>1, <1>2
        <3>3. m <= Len(s) /\ m <= Len(t) /\ \A i \in 1 .. m : s[i] = t[i]
            BY <1>2, <1>5, <3>1, <3>2
        <3>4. SubSeq(s, a, m) = SubSeq(t, a, m)
            BY <3>3, PartsAgree
        <3> QED
            BY <3>1, <3>2, <3>4
    <2> QED
        BY <1>1, <1>6, <2>2, <2>3 DEF KeepsPrefix
<1>7. PrefixKept'
    BY <1>6 DEF PrefixKept, Base
<1> QED
    BY <1>1, <1>2, <1>3, <1>4, <1>5, <1>7

-----------------------------------------------------------------------------
(* The actions. *)

\* The invariant as the actions need it.
LEMMA Known ==
    ASSUME CacheInv
    PROVE  /\ maxLen \in Nat /\ CacheTypes /\ PrefixKept /\ (~failed => Right(Cache)) /\ PinClean
           /\ Shape(Cache) /\ Cache.text = text /\ Cache.drained = drained /\ Cache.residual = residual
           /\ text \in Seq(Tokens) /\ Len(text) \in Nat /\ Len(text) <= maxLen
           /\ drained \in Nat /\ residual \in Nat /\ prefix \in 0 .. Len(text)
           /\ todo.ids \in Seq(Tokens) /\ todo.pin \in BOOLEAN
<1>1. CacheTypes /\ PrefixKept /\ (~failed => Right(Cache)) /\ PinClean
    BY DEF CacheInv
<1>2. /\ maxLen \in Contexts /\ Shape(Cache) /\ prefix \in 0 .. Len(text)
      /\ todo \in [ids : Seq(Tokens), pin : BOOLEAN]
    BY <1>1 DEF CacheTypes
<1>3. maxLen \in Nat
    BY <1>2, KiviConstants
<1>4. Cache.text = text /\ Cache.drained = drained /\ Cache.residual = residual
    BY DEF Cache
<1>5. text \in Seq(Tokens) /\ drained \in Nat /\ residual \in Nat /\ Len(text) <= maxLen
    BY <1>2, <1>4 DEF Shape, Caches
<1> QED
    BY <1>1, <1>2, <1>3, <1>4, <1>5

\* Calls other than a prefill: no job runs before or after.
LEMMA IdleCall ==
    ASSUME CacheInv, Idle, maxLen' = maxLen, prefix' = prefix, tail' = tail, todo' = todo, ready' \in BOOLEAN,
           NEW o, Becomes(o), Shape(o.c), o.ok \in BOOLEAN, KeepsPrefix(o.c),
           o.ok /\ Right(Cache) => Right(o.c),
           o.c.residual >= R => ~ready' \/ Len(o.c.text) = maxLen \/ (~o.ok /\ o.c.text # <<>>)
    PROVE  CacheInv'
<1>1. CacheTypes /\ PrefixKept /\ (~failed => Right(Cache)) /\ PinClean
    BY Known
<1>2. /\ Shape(Cache)' /\ (~failed' => Right(Cache)')
      /\ prefix' \in 0 .. Len(text') /\ tail' \in [Layers -> Seq(Rows)]
      /\ faults' \in Nat /\ failed' \in BOOLEAN
      /\ PrefixKept'
    BY <1>1, CallKeeps
<1>3. /\ text' = o.c.text /\ residual' = o.c.residual /\ Len(text') \in Nat /\ Len(text') <= maxLen
    BY NextCache
<1>4. todo.ids = <<>> /\ Len(todo.ids) = 0 /\ ~todo.pin
    BY <1>1 DEF Idle, PinClean
<1>5. CacheTypes'
    <2>1. Len(text') + Len(todo'.ids) <= maxLen'
        BY <1>3, <1>4
    <2> QED
        BY <1>1, <1>2, <2>1 DEF CacheTypes
<1>6. PinClean'
    BY <1>4 DEF PinClean
<1>7. UndrainedOnlyCut'
    <2>1. ~o.ok /\ o.c.text # <<>> => failed'
        BY DEF Becomes
    <2> QED
        BY <1>3, <2>1 DEF UndrainedOnlyCut
<1> QED
    BY <1>2, <1>5, <1>6, <1>7 DEF CacheInv

\* transformer_decode_step.
LEMMA DecodeKeeps == ASSUME CacheInv, Decode PROVE CacheInv'
<1>1. PICK tok \in Tokens : \E o \in DrainFull(Appended(Cache, <<tok>>)) : Becomes(o)
    BY DEF Decode
<1>2. PICK o \in DrainFull(Appended(Cache, <<tok>>)) : Becomes(o)
    BY <1>1
<1>3. /\ Idle /\ Len(text) + 1 <= maxLen
      /\ maxLen' = maxLen /\ prefix' = prefix /\ tail' = tail /\ todo' = todo /\ ready' = ready
    BY DEF Decode
<1>4. /\ maxLen \in Nat /\ CacheTypes /\ PrefixKept /\ Shape(Cache) /\ Cache.text = text
    BY Known
<1>5. <<tok>> \in Seq(Tokens) /\ Len(<<tok>>) = 1
    OBVIOUS
<1>6. /\ Shape(o.c) /\ o.ok \in BOOLEAN /\ Continues(Cache, o.c)
      /\ o.ok => o.c.residual < R /\ (Right(Cache) => Right(o.c))
      /\ ~o.ok => o.c.text # <<>>
    BY <1>3, <1>4, <1>5, ForwardKeeps
<1>7. KeepsPrefix(o.c)
    BY <1>4, <1>6, ContinuedKeepsPrefix
<1>8. o.c.residual >= R => ~o.ok
    BY <1>6, KiviConstants DEF Shape, Caches
<1>9. ready' \in BOOLEAN
    BY <1>3, <1>4 DEF CacheTypes
<1> QED
    BY <1>2, <1>3, <1>6, <1>7, <1>8, <1>9, IdleCall

\* The start of geist_session_prefill_tokens.
LEMMA PrefillKeeps == ASSUME CacheInv, Prefill PROVE CacheInv'
<1>1. PICK ids \in Prompts(MaxPrompt) : Len(text) + Len(ids) <= maxLen /\ todo' = [ids |-> ids, pin |-> FALSE]
    BY DEF Prefill
<1>2. UNCHANGED <<maxLen, text, prefix, drained, residual, ring, packed, tail, ready, faults, failed>>
    BY DEF Prefill
<1>3. ids \in Seq(Tokens)
    BY DEF Prompts
<1>4. Cache' = Cache /\ RingIndex' = RingIndex
    BY <1>2 DEF Cache, RingIndex
<1>5. Shape(Cache)' /\ (~failed' => Right(Cache)')
    BY <1>2, <1>4 DEF CacheInv, CacheTypes, Shape, Caches, Right
<1>6. todo'.ids = ids /\ todo' \in [ids : Seq(Tokens), pin : BOOLEAN] /\ ~todo'.pin
    BY <1>1, <1>3
<1>7. CacheTypes'
    BY <1>1, <1>2, <1>5, <1>6 DEF CacheInv, CacheTypes
<1>8. PinClean'
    BY <1>6 DEF PinClean
<1>9. PrefixKept' /\ UndrainedOnlyCut'
    BY <1>2 DEF CacheInv, PrefixKept, UndrainedOnlyCut
<1> QED
    BY <1>5, <1>7, <1>8, <1>9 DEF CacheInv

\* A prefill that sees a cancel.
LEMMA CancelKeeps == ASSUME CacheInv, CancelPrefill PROVE CacheInv'
<1>1. /\ todo' = NoPrefill /\ ready' = FALSE
      /\ UNCHANGED <<maxLen, text, prefix, drained, residual, ring, packed, tail, faults, failed>>
    BY DEF CancelPrefill
<1>2. Cache' = Cache /\ RingIndex' = RingIndex
    BY <1>1 DEF Cache, RingIndex
<1>3. Shape(Cache)' /\ (~failed' => Right(Cache)')
    BY <1>1, <1>2 DEF CacheInv, CacheTypes, Shape, Caches, Right
<1>4. todo'.ids = <<>> /\ Len(todo'.ids) = 0 /\ todo' \in [ids : Seq(Tokens), pin : BOOLEAN] /\ ~todo'.pin
    BY <1>1 DEF NoPrefill
<1>5. CacheTypes'
    <2>1. Len(text') + Len(todo'.ids) <= maxLen'
        BY <1>1, <1>4, Known
    <2> QED
        BY <1>1, <1>3, <1>4, <2>1 DEF CacheInv, CacheTypes
<1>6. PinClean'
    BY <1>4 DEF PinClean
<1>7. PrefixKept' /\ UndrainedOnlyCut'
    BY <1>1 DEF CacheInv, PrefixKept, UndrainedOnlyCut
<1> QED
    BY <1>3, <1>5, <1>6, <1>7 DEF CacheInv

\* A step of another part.
LEMMA StutterKeeps == ASSUME CacheInv, UNCHANGED cacheVars PROVE CacheInv'
<1>1. UNCHANGED <<maxLen, text, prefix, drained, residual, ring, packed, tail, ready, todo, faults, failed>>
    BY DEF cacheVars
<1>2. Cache' = Cache /\ RingIndex' = RingIndex
    BY <1>1 DEF Cache, RingIndex
<1>3. Shape(Cache)' /\ (~failed' => Right(Cache)')
    BY <1>1, <1>2 DEF CacheInv, CacheTypes, Shape, Caches, Right
<1> QED
    BY <1>1, <1>3 DEF CacheInv, CacheTypes, PinClean, PrefixKept, UndrainedOnlyCut

\* A return to the pinned prefix, or to nothing.
LEMMA ResetCall ==
    ASSUME CacheInv, NEW n \in Nat, n = 0 \/ n = prefix, NEW o \in ResetTo(Cache, n)
    PROVE  /\ Shape(o.c) /\ o.ok \in BOOLEAN
           /\ o.c.text = SubSeq(text, 1, n) /\ Len(o.c.text) = n /\ ~(o.c.residual >= R)
           /\ o.ok /\ Right(Cache) => Right(o.c)
           /\ n = prefix => KeepsPrefix(o.c)
<1>1. /\ maxLen \in Nat /\ CacheTypes /\ PrefixKept /\ Shape(Cache) /\ Cache.text = text /\ Cache.drained = drained
      /\ text \in Seq(Tokens) /\ Len(text) \in Nat /\ prefix \in 0 .. Len(text)
    BY Known
<1>2. n <= Len(Cache.text) /\ n \in 0 .. Len(text)
    BY <1>1
<1>3. tail \in [Layers -> Seq(Rows)]
    BY <1>1 DEF CacheTypes
<1>4. n > 0 => /\ \A l \in Layers : tail[l] = SubSeq(Cache.text, Base(n) + 1, n)
               /\ Base(n) <= Cache.drained
    BY <1>1 DEF PrefixKept, Base
<1>5. /\ Shape(o.c) /\ o.ok \in BOOLEAN
      /\ o.c.text = SubSeq(text, 1, n) /\ o.c.drained = Base(n) /\ o.c.residual < R
      /\ o.ok => (Right(Cache) => Right(o.c))
    BY <1>1, <1>2, <1>3, <1>4, ResetToKeeps
<1>6. o.c.residual \in Nat /\ R \in Nat
    BY <1>5, KiviConstants DEF Shape, Caches
<1>7. Len(o.c.text) = n /\ \A i \in 1 .. n : o.c.text[i] = text[i]
    BY <1>1, <1>2, <1>5, CutText
<1>8. Base(n) \in Nat
    BY BaseFacts
<1>9. n = prefix => KeepsPrefix(o.c)
    BY <1>5, <1>7, <1>8 DEF KeepsPrefix
<1> QED
    BY <1>5, <1>6, <1>7, <1>9

\* transformer_session_reset.
LEMMA ResetKeeps == ASSUME CacheInv, Reset PROVE CacheInv'
<1>1. PICK o \in ResetTo(Cache, prefix) : Becomes(o)
    BY DEF Reset
<1>2. /\ Idle /\ maxLen' = maxLen /\ prefix' = prefix /\ tail' = tail /\ todo' = todo /\ ready' = FALSE
    BY DEF Reset
<1>3. prefix \in Nat
    BY Known
<1>4. /\ Shape(o.c) /\ o.ok \in BOOLEAN /\ ~(o.c.residual >= R) /\ KeepsPrefix(o.c)
      /\ o.ok /\ Right(Cache) => Right(o.c)
    BY <1>3, ResetCall
<1> QED
    BY <1>1, <1>2, <1>4, IdleCall

\* transformer_session_truncate.
LEMMA TruncateToKeeps == ASSUME CacheInv, TruncateTo PROVE CacheInv'
<1>1. /\ Idle /\ maxLen' = maxLen /\ prefix' = prefix /\ tail' = tail /\ todo' = todo /\ ready' = FALSE
    BY DEF TruncateTo
<1>2. PICK n \in prefix .. Len(text) - 1 :
         \/ /\ n = 0
            /\ \E o \in ResetTo(Cache, 0) : Becomes(o)
         \/ /\ n > 0 /\ n >= drained
            /\ Becomes(Ok([Cache EXCEPT !.text = SubSeq(@, 1, n), !.residual = n - drained]))
    BY DEF TruncateTo
<1>3. /\ maxLen \in Nat /\ CacheTypes /\ PrefixKept /\ Shape(Cache) /\ Cache.text = text /\ Cache.drained = drained
      /\ text \in Seq(Tokens) /\ Len(text) \in Nat /\ prefix \in 0 .. Len(text) /\ drained \in Nat
    BY Known
<1>4. n \in Nat /\ prefix <= n /\ n <= Len(text) /\ n \in 0 .. Len(text)
    BY <1>3
<1>5. ASSUME n = 0, NEW o \in ResetTo(Cache, 0), Becomes(o)
      PROVE  CacheInv'
    <2>1. prefix = 0
        BY <1>3, <1>4, <1>5
    <2>2. /\ Shape(o.c) /\ o.ok \in BOOLEAN /\ ~(o.c.residual >= R) /\ KeepsPrefix(o.c)
          /\ o.ok /\ Right(Cache) => Right(o.c)
        BY <1>5, <2>1, ResetCall
    <2> QED
        BY <1>1, <1>5, <2>2, IdleCall
<1>6. ASSUME n > 0, n >= drained,
             Becomes(Ok([Cache EXCEPT !.text = SubSeq(@, 1, n), !.residual = n - drained]))
      PROVE  CacheInv'
    <2> DEFINE e == [Cache EXCEPT !.text = SubSeq(@, 1, n), !.residual = n - Cache.drained]
    <2>1. /\ Shape(e) /\ e.text = SubSeq(text, 1, n) /\ e.drained = drained
          /\ Right(Cache) => Right(e)
        <3>1. Cache.drained <= n /\ n <= Len(Cache.text)
            BY <1>3, <1>4, <1>6
        <3> QED
            BY <1>3, <1>4, <3>1, CutKeeps
    <2>2. Ok(e).c = e /\ Ok(e).ok = TRUE
        BY DEF Ok
    <2>3. Becomes(Ok(e))
        BY <1>3, <1>6
    <2> HIDE DEF e
    <2>4. Len(e.text) = n /\ \A i \in 1 .. n : e.text[i] = text[i]
        BY <1>3, <1>4, <2>1, CutText
    <2>5. KeepsPrefix(e)
        <3>1. prefix > 0 => Base(prefix) <= drained
            BY <1>3 DEF PrefixKept, Base
        <3>2. prefix \in Nat /\ \A i \in 1 .. prefix : i \in 1 .. n
            BY <1>3, <1>4
        <3> QED
            BY <1>4, <2>1, <2>4, <3>1, <3>2 DEF KeepsPrefix
    <2>6. PICK o : o = Ok(e)
        OBVIOUS
    <2>7. /\ Becomes(o) /\ Shape(o.c) /\ o.ok \in BOOLEAN /\ KeepsPrefix(o.c)
          /\ o.ok /\ Right(Cache) => Right(o.c)
        BY <2>1, <2>2, <2>3, <2>5, <2>6
    <2> QED
        BY <1>1, <2>7, IdleCall
<1> QED
    BY <1>2, <1>5, <1>6

\* The start of transformer_pin_prefix.
LEMMA PinPrefixKeeps == ASSUME CacheInv, PinPrefix PROVE CacheInv'
<1>1. PICK ids \in {s \in Prompts(MaxPrompt) : Len(s) <= maxLen} \cup {<<>>} :
         todo' = [ids |-> ids, pin |-> ids # <<>>]
    BY DEF PinPrefix
<1>2. PICK o \in ResetTo(Cache, 0) : Becomes(o)
    BY DEF PinPrefix
<1>3. prefix' = 0 /\ ready' = FALSE /\ maxLen' = maxLen /\ tail' = tail
    BY DEF PinPrefix
<1>4. /\ Shape(o.c) /\ o.ok \in BOOLEAN /\ Len(o.c.text) = 0 /\ ~(o.c.residual >= R)
    BY ResetCall
<1>5. Shape(Cache)' /\ text' = o.c.text /\ text' \in Seq(Tokens) /\ residual' = o.c.residual
    BY <1>2, <1>3, <1>4, NextCache
<1>6. text' = <<>> /\ Len(text') = 0
    BY <1>4, <1>5
<1>7. ~failed' /\ failed' \in BOOLEAN
    BY <1>2, <1>5, <1>6 DEF Becomes
<1>8. Right(Cache)'
    <2>1. Cache'.text = text'
        BY DEF Cache
    <2>2. \A p \in 0 .. Len(Cache'.text) - 1 : FALSE
        BY <1>6, <2>1
    <2> QED
        BY <2>2 DEF Right
<1>9. /\ maxLen \in Nat /\ maxLen \in Contexts /\ tail \in [Layers -> Seq(Rows)] /\ faults \in Nat
    BY Known DEF CacheTypes
<1>10. faults' \in Nat
    BY <1>2, <1>9 DEF Becomes
<1>11. ids \in Seq(Tokens) /\ Len(ids) \in Nat /\ Len(ids) <= maxLen
    <2>1. CASE ids = <<>>
        BY <1>9, <2>1
    <2>2. CASE ids \in Prompts(MaxPrompt) /\ Len(ids) <= maxLen
        BY <2>2 DEF Prompts
    <2> QED
        BY <1>1, <2>1, <2>2
<1>12. todo'.ids = ids /\ todo' \in [ids : Seq(Tokens), pin : BOOLEAN] /\ (todo'.pin => ids # <<>>)
    BY <1>1, <1>11
<1>13. CacheTypes'
    <2>1. prefix' \in 0 .. Len(text') /\ ready' \in BOOLEAN /\ tail' \in [Layers -> Seq(Rows)] /\ maxLen' \in Contexts
        <3>1. prefix' \in 0 .. Len(text')
            BY <1>3, <1>6
        <3>2. ready' \in BOOLEAN /\ tail' \in [Layers -> Seq(Rows)] /\ maxLen' \in Contexts
            BY <1>3, <1>9
        <3> QED
            BY <3>1, <3>2
    <2>2. Len(text') + Len(todo'.ids) <= maxLen'
        BY <1>3, <1>6, <1>11, <1>12
    <2> QED
        BY <1>5, <1>7, <1>10, <1>12, <2>1, <2>2 DEF CacheTypes
<1>14. PinClean' /\ PrefixKept' /\ UndrainedOnlyCut'
    BY <1>3, <1>4, <1>5, <1>7, <1>12 DEF PinClean, PrefixKept, UndrainedOnlyCut
<1> QED
    BY <1>8, <1>13, <1>14 DEF CacheInv

\* What a verify keeps of its drafts.
LEMMA VerifyKept ==
    ASSUME CacheInv, NEW drafts \in Seq(Tokens), drafts # <<>>, Len(text) + Len(drafts) <= maxLen,
           NEW accepted \in 1 .. Len(drafts),
           NEW kept \in (IF accepted = Len(drafts) THEN {Ok(Appended(Cache, drafts))}
                         ELSE KvTruncate(Appended(Cache, drafts), Len(text) + accepted))
    PROVE  /\ Shape(kept.c) /\ kept.ok \in BOOLEAN /\ Continues(Cache, kept.c) /\ kept.c.text # <<>>
           /\ kept.ok => (Right(Cache) => Right(kept.c))
<1> DEFINE burst == Appended(Cache, drafts)
<1>1. /\ maxLen \in Nat /\ Shape(Cache) /\ Cache.text = text /\ Cache.drained = drained
      /\ text \in Seq(Tokens) /\ Len(text) \in Nat /\ drained \in Nat
    BY Known
<1>2. /\ Shape(burst) /\ burst.text = text \o drafts /\ burst.drained = drained
      /\ Right(Cache) => Right(burst)
    BY <1>1, AppendedKeeps
<1> HIDE DEF burst
<1>3. PICK L \in Nat, m \in Nat : L = Len(text) /\ m = Len(drafts)
    BY <1>1
<1>4. /\ Len(burst.text) = L + m /\ burst.text \in Seq(Tokens)
      /\ \A i \in 1 .. L : burst.text[i] = text[i]
    <2>1. /\ Len(text \o drafts) = L + m
          /\ \A i \in 1 .. L + m : (text \o drafts)[i] = IF i <= L THEN text[i] ELSE drafts[i - L]
          /\ text \o drafts \in Seq(Tokens)
        BY <1>1, <1>3, ConcatProperties
    <2>2. \A i \in 1 .. L : i \in 1 .. L + m /\ i <= L
        OBVIOUS
    <2> QED
        BY <1>2, <2>1, <2>2
<1>5. Len(drafts) >= 1
    BY EmptySeq
<1>6. CASE accepted = Len(drafts)
    <2>1. kept.c = burst /\ kept.ok = TRUE
        BY <1>6 DEF Ok, burst
    <2>2. burst.text # <<>>
        BY <1>3, <1>4, <1>5
    <2>3. Continues(Cache, burst)
        BY <1>1, <1>2, <1>3, <1>4 DEF Continues
    <2> QED
        BY <1>2, <2>1, <2>2, <2>3
<1>7. CASE accepted # Len(drafts)
    <2>1. PICK n \in Nat : n = L + accepted
        OBVIOUS
    <2>2. kept \in KvTruncate(burst, n)
        BY <1>3, <1>7, <2>1 DEF burst
    <2>3. L <= n /\ n <= L + m /\ n > 0
        BY <1>3, <2>1
    <2>4. drained <= L
        <3>1. Cache.residual \in Nat /\ Cache.drained + Cache.residual = Len(Cache.text)
            BY <1>1 DEF Shape, Caches
        <3> QED
            BY <1>1, <1>3, <3>1
    <2>5. burst.drained <= n /\ n <= Len(burst.text)
        BY <1>1, <1>2, <1>4, <2>3, <2>4
    <2>6. /\ Shape(kept.c) /\ kept.ok \in BOOLEAN
          /\ kept.c.text = SubSeq(burst.text, 1, n) /\ kept.c.drained >= burst.drained
          /\ kept.ok => (Right(burst) => Right(kept.c))
        BY <1>1, <1>2, <2>2, <2>5, KvTruncateKeeps
    <2>7. n \in 0 .. Len(burst.text)
        BY <2>5, <1>4
    <2>8. Len(kept.c.text) = n /\ \A i \in 1 .. n : kept.c.text[i] = burst.text[i]
        BY <1>4, <2>6, <2>7, CutText
    <2>9. Continues(Cache, kept.c)
        <3>1. ASSUME NEW i \in 1 .. L PROVE kept.c.text[i] = text[i]
            <4>1. i \in 1 .. n
                BY <2>3
            <4> QED
                BY <1>4, <2>8, <4>1
        <3>2. kept.c.drained \in Nat
            BY <2>6 DEF Shape, Caches
        <3>3. drained <= kept.c.drained
            BY <1>1, <1>2, <2>6, <3>2
        <3> QED
            BY <1>1, <1>3, <2>3, <2>8, <3>1, <3>3 DEF Continues
    <2>10. kept.c.text # <<>>
        BY <2>3, <2>8
    <2> QED
        BY <1>2, <2>6, <2>9, <2>10
<1> QED
    BY <1>6, <1>7

\* spec_verify: the burst, its rollback and the correction.
LEMMA VerifyKeeps == ASSUME CacheInv, Verify PROVE CacheInv'
<1>1. Idle /\ maxLen' = maxLen /\ prefix' = prefix /\ tail' = tail /\ todo' = todo
    BY DEF Verify
<1>2. PICK drafts \in Prompts(IF MMax < SpecMax THEN MMax ELSE SpecMax) :
         /\ Len(text) + Len(drafts) <= maxLen
         /\ \E accepted \in 1 .. Len(drafts), correction \in Tokens :
              \E kept \in IF accepted = Len(drafts) THEN {Ok(Appended(Cache, drafts))}
                          ELSE KvTruncate(Appended(Cache, drafts), Len(text) + accepted) :
                    \/ /\ ~kept.ok \/ ~(Len(kept.c.text) + 1 <= maxLen)
                       /\ Becomes(kept)
                       /\ ready' = TRUE
                    \/ /\ kept.ok /\ Len(kept.c.text) + 1 <= maxLen
                       /\ \E o \in DrainFull(Appended(kept.c, <<correction>>)) :
                            Becomes(o) /\ ready' = (o.ok \/ accepted = Len(drafts))
                    \/ /\ MayCancel /\ kept.ok /\ Len(kept.c.text) + 1 <= maxLen
                       /\ Becomes(kept)
                       /\ ready' = FALSE
    BY DEF Verify
<1>3. PICK accepted \in 1 .. Len(drafts), correction \in Tokens :
              \E kept \in IF accepted = Len(drafts) THEN {Ok(Appended(Cache, drafts))}
                          ELSE KvTruncate(Appended(Cache, drafts), Len(text) + accepted) :
                    \/ /\ ~kept.ok \/ ~(Len(kept.c.text) + 1 <= maxLen)
                       /\ Becomes(kept)
                       /\ ready' = TRUE
                    \/ /\ kept.ok /\ Len(kept.c.text) + 1 <= maxLen
                       /\ \E o \in DrainFull(Appended(kept.c, <<correction>>)) :
                            Becomes(o) /\ ready' = (o.ok \/ accepted = Len(drafts))
                    \/ /\ MayCancel /\ kept.ok /\ Len(kept.c.text) + 1 <= maxLen
                       /\ Becomes(kept)
                       /\ ready' = FALSE
    BY <1>2
<1>4. PICK kept \in IF accepted = Len(drafts) THEN {Ok(Appended(Cache, drafts))}
                    ELSE KvTruncate(Appended(Cache, drafts), Len(text) + accepted) :
                    \/ /\ ~kept.ok \/ ~(Len(kept.c.text) + 1 <= maxLen)
                       /\ Becomes(kept)
                       /\ ready' = TRUE
                    \/ /\ kept.ok /\ Len(kept.c.text) + 1 <= maxLen
                       /\ \E o \in DrainFull(Appended(kept.c, <<correction>>)) :
                            Becomes(o) /\ ready' = (o.ok \/ accepted = Len(drafts))
                    \/ /\ MayCancel /\ kept.ok /\ Len(kept.c.text) + 1 <= maxLen
                       /\ Becomes(kept)
                       /\ ready' = FALSE
    BY <1>3
<1>5. drafts \in Seq(Tokens) /\ drafts # <<>>
    BY <1>2 DEF Prompts
<1>6. maxLen \in Nat /\ CacheTypes /\ PrefixKept /\ Shape(Cache)
    BY Known
<1>7. /\ Shape(kept.c) /\ kept.ok \in BOOLEAN /\ Continues(Cache, kept.c) /\ kept.c.text # <<>>
      /\ kept.ok /\ Right(Cache) => Right(kept.c)
    BY <1>2, <1>4, <1>5, VerifyKept
<1>8. KeepsPrefix(kept.c)
    BY <1>6, <1>7, ContinuedKeepsPrefix
<1>9. ~(Len(kept.c.text) + 1 <= maxLen) => Len(kept.c.text) = maxLen
    <2>1. kept.c.text \in Seq(Tokens) /\ Len(kept.c.text) <= maxLen
        BY <1>7 DEF Shape, Caches
    <2>2. Len(kept.c.text) \in Nat
        BY <2>1
    <2> QED
        BY <1>6, <2>1, <2>2
<1>10. CASE (~kept.ok \/ ~(Len(kept.c.text) + 1 <= maxLen)) /\ Becomes(kept) /\ ready' = TRUE
    <2>1. ~kept.ok \/ Len(kept.c.text) = maxLen
        BY <1>9, <1>10
    <2> QED
        BY <1>1, <1>7, <1>8, <1>10, <2>1, IdleCall
<1>11. CASE Becomes(kept) /\ ready' = FALSE
    BY <1>1, <1>7, <1>8, <1>11, IdleCall
<1>12. ASSUME kept.ok, Len(kept.c.text) + 1 <= maxLen, NEW o \in DrainFull(Appended(kept.c, <<correction>>)),
              Becomes(o), ready' = (o.ok \/ accepted = Len(drafts))
       PROVE  CacheInv'
    <2>1. <<correction>> \in Seq(Tokens) /\ Len(<<correction>>) = 1
        OBVIOUS
    <2>2. /\ Shape(o.c) /\ o.ok \in BOOLEAN /\ Continues(kept.c, o.c)
          /\ o.ok => o.c.residual < R /\ (Right(kept.c) => Right(o.c))
          /\ ~o.ok => o.c.text # <<>>
        BY <1>6, <1>7, <1>12, <2>1, ForwardKeeps
    <2>3. Continues(Cache, o.c)
        BY <1>6, <1>7, <2>2, ContinuesOn
    <2>4. KeepsPrefix(o.c)
        BY <1>6, <2>2, <2>3, ContinuedKeepsPrefix
    <2>5. o.c.residual >= R => ~o.ok
        BY <2>2, KiviConstants DEF Shape, Caches
    <2>6. o.ok /\ Right(Cache) => Right(o.c)
        BY <1>7, <1>12, <2>2
    <2>7. ready' \in BOOLEAN
        BY <1>12, <2>2
    <2> QED
        BY <1>1, <1>12, <2>2, <2>4, <2>5, <2>6, <2>7, IdleCall
<1> QED
    BY <1>4, <1>10, <1>11, <1>12

\* The copy of the rows in the ring.
LEMMA PinSavedTyped ==
    ASSUME maxLen \in Nat, NEW c, Shape(c), NEW ls
    PROVE  PinSaved(c, ls) \in [Layers -> Seq(Rows)]
<1>1. PICK Q \in Nat : Q = c.residual
    BY DEF Shape, Caches
<1>2. ASSUME NEW l \in Layers
      PROVE  Residual(c, l) \in Seq(Rows)
    <2>1. \A i \in 1 .. Q : i - 1 \in RingIndex
        <3>1. c.drained \in Nat /\ Len(c.text) <= maxLen /\ c.drained + Q = Len(c.text)
            BY <1>1 DEF Shape, Caches
        <3> QED
            BY <3>1 DEF RingIndex
    <2>2. c.ring \in [Layers -> [RingIndex -> Rows]]
        BY DEF Shape, Caches
    <2>3. Residual(c, l) \in [1 .. Q -> Rows]
        BY <1>1, <2>1, <2>2 DEF Residual
    <2> QED
        BY <2>3, SeqDef
<1>3. [i \in 1 .. c.residual |-> NoRow] \in Seq(Rows)
    <2>1. [i \in 1 .. Q |-> NoRow] \in [1 .. Q -> Rows]
        BY DEF Rows
    <2> QED
        BY <1>1, <2>1, SeqDef
<1> QED
    BY <1>2, <1>3 DEF PinSaved

\* After a drain, the rows in the ring are the text past its whole groups.
LEMMA RingIsRest ==
    ASSUME maxLen \in Nat, NEW c, Shape(c), Right(c), c.residual < R
    PROVE  /\ Base(Len(c.text)) = c.drained
           /\ \A l \in Layers : Residual(c, l) = SubSeq(c.text, c.drained + 1, Len(c.text))
<1>1. PICK L \in Nat, D \in Nat, Q \in Nat : L = Len(c.text) /\ D = c.drained /\ Q = c.residual
    <2>1. c.text \in Seq(Tokens) /\ c.drained \in Nat /\ c.residual \in Nat
        BY DEF Shape, Caches
    <2> QED
        BY <2>1
<1>2. L = D + Q /\ Q < R /\ c.text \in Seq(Tokens)
    BY <1>1 DEF Shape, Caches
<1>3. Base(L) = D
    <2>1. PICK k \in Nat : D = k * R
        BY <1>1 DEF Shape
    <2>2. R \in Nat \ {0}
        BY KiviConstants
    <2>3. L \div R = k
        <3>1. L = k * R + Q
            BY <1>2, <2>1
        <3> QED
            BY <1>2, <2>2, <3>1, DivisionUnique
    <2> QED
        BY <2>1, <2>3 DEF Base
<1>4. ASSUME NEW l \in Layers
      PROVE  Residual(c, l) = SubSeq(c.text, D + 1, L)
    <2>1. \A i \in D + 1 .. L : c.text[i] \in Tokens
        <3>1. \A i \in D + 1 .. L : i \in 1 .. Len(c.text)
            BY <1>1
        <3> QED
            BY <1>2, <3>1, ElementOfSeq
    <2>2. D + 1 \in Int /\ L \in Int
        OBVIOUS
    <2>3. /\ SubSeq(c.text, D + 1, L) \in Seq(Tokens)
          /\ Len(SubSeq(c.text, D + 1, L)) = (IF D + 1 <= L THEN L - (D + 1) + 1 ELSE 0)
          /\ \A i \in 1 .. L - (D + 1) + 1 : SubSeq(c.text, D + 1, L)[i] = c.text[(D + 1) + i - 1]
        BY <2>1, <2>2, SubSeqProperties
    <2>4. Len(SubSeq(c.text, D + 1, L)) = Q /\ L - (D + 1) + 1 = Q
        BY <1>2, <2>3
    <2>5. \A i \in 1 .. Q : (D + 1) + i - 1 = D + i
        OBVIOUS
    <2>6. \A i \in 1 .. Q : SubSeq(c.text, D + 1, L)[i] = c.text[D + i]
        BY <2>3, <2>4, <2>5
    <2>7. \A i \in 1 .. Q : c.ring[l][i - 1] = c.text[D + i]
        <3>1. TAKE i \in 1 .. Q
        <3>2. PICK p \in 0 .. L - 1 : p = D + i - 1
            BY <1>2
        <3>3. ~(p < D) /\ p - D = i - 1 /\ p + 1 = D + i
            BY <3>2
        <3>4. c.text[p + 1] = IF p < D THEN c.packed[l][p] ELSE c.ring[l][p - D]
            BY <1>1 DEF Right
        <3> QED
            BY <3>3, <3>4
    <2>8. Residual(c, l) = [i \in 1 .. Q |-> c.ring[l][i - 1]]
        BY <1>1 DEF Residual
    <2> DEFINE f == SubSeq(c.text, D + 1, L)
    <2>9. f = [i \in 1 .. Q |-> f[i]]
        <3>1. DOMAIN f = 1 .. Q /\ f \in [1 .. Len(f) -> Tokens]
            BY <2>3, <2>4, LenProperties
        <3> HIDE DEF f
        <3> QED
            BY <3>1
    <2> QED
        BY <2>6, <2>7, <2>8, <2>9
<1> QED
    BY <1>1, <1>3, <1>4

\* One sub-batch of a prefill, and the pin after the last one.
LEMMA SubBatchKeeps == ASSUME CacheInv, SubBatch PROVE CacheInv'
<1> DEFINE N == Len(todo.ids)
           n == IF Len(todo.ids) < MMax THEN Len(todo.ids) ELSE MMax
           part == SubSeq(todo.ids, 1, n)
           last == n = Len(todo.ids)
<1>1. /\ maxLen \in Nat /\ CacheTypes /\ PrefixKept /\ (~failed => Right(Cache)) /\ PinClean
      /\ Shape(Cache) /\ Cache.text = text
      /\ text \in Seq(Tokens) /\ Len(text) \in Nat
      /\ todo.ids \in Seq(Tokens) /\ todo.pin \in BOOLEAN
    BY Known
<1>2. ~Idle /\ maxLen' = maxLen
    BY DEF SubBatch
<1>3. PICK o \in DrainFull(Appended(Cache, part)) :
         /\ ready' = ((o.ok /\ last) \/ ready)
         /\ todo' = IF last \/ ~o.ok THEN NoPrefill ELSE [todo EXCEPT !.ids = SubSeq(@, n + 1, Len(@))]
         /\ \/ /\ ~(o.ok /\ last /\ todo.pin)
               /\ Becomes(o)
               /\ UNCHANGED <<prefix, tail>>
            \/ /\ o.ok /\ last /\ todo.pin
               /\ Becomes(o)
               /\ prefix' = Len(o.c.text)
               /\ tail' = PinSaved(o.c, Layers)
            \/ /\ o.ok /\ last /\ todo.pin /\ CanFail /\ o.c.residual > 0
               /\ Becomes(Failed(o.c))
               /\ prefix' = 0
               /\ \E l \in 0 .. NLayers - 1 : tail' = PinSaved(o.c, 1 .. l)
    BY DEF SubBatch
<1>4. N \in Nat /\ N > 0 /\ n \in 1 .. N
    <2>1. N \in Nat /\ N # 0
        BY <1>1, <1>2, EmptySeq DEF Idle
    <2> QED
        BY <2>1, KiviConstants
<1>5. part \in Seq(Tokens) /\ Len(part) = n
    BY <1>1, <1>4, CutText
<1>6. Len(text) + N <= maxLen
    BY <1>1 DEF CacheTypes
<1> HIDE DEF n, part
<1>7. /\ Shape(o.c) /\ o.ok \in BOOLEAN
      /\ Continues(Cache, o.c) /\ Len(o.c.text) = Len(text) + n
      /\ o.ok => o.c.residual < R /\ (Right(Cache) => Right(o.c))
      /\ ~o.ok => o.c.text # <<>>
    <2>1. Len(Cache.text) + Len(part) <= maxLen
        BY <1>1, <1>4, <1>5, <1>6
    <2> QED
        BY <1>1, <1>5, <2>1, ForwardKeeps
<1>8. o.c.text # <<>> /\ (o.c.residual >= R => ~o.ok)
    <2>1. Len(o.c.text) > 0
        BY <1>1, <1>4, <1>7
    <2>2. o.c.residual \in Nat /\ R \in Nat
        BY <1>7, KiviConstants DEF Shape, Caches
    <2> QED
        BY <1>7, <2>1, <2>2
\* The rest of the job.
<1>9. /\ todo' \in [ids : Seq(Tokens), pin : BOOLEAN]
      /\ Len(o.c.text) + Len(todo'.ids) <= maxLen
      /\ todo'.pin => todo.pin /\ todo'.ids # <<>> /\ o.ok /\ ~last
    <2>1. CASE last \/ ~o.ok
        <3>1. todo'.ids = <<>> /\ todo'.pin = FALSE /\ todo' \in [ids : Seq(Tokens), pin : BOOLEAN]
            BY <1>3, <2>1 DEF NoPrefill
        <3> QED
            BY <1>1, <1>4, <1>6, <1>7, <3>1
    <2>2. CASE ~last /\ o.ok
        <3> DEFINE rest == SubSeq(todo.ids, n + 1, N)
        <3>1. n < N
            BY <1>4, <2>2
        <3>2. \A i \in n + 1 .. N : todo.ids[i] \in Tokens
            <4>1. \A i \in n + 1 .. N : i \in 1 .. Len(todo.ids)
                BY <1>4
            <4> QED
                BY <1>1, <4>1, ElementOfSeq
        <3>3. rest \in Seq(Tokens) /\ Len(rest) = N - (n + 1) + 1
            <4>1. n + 1 \in Int /\ N \in Int /\ n + 1 <= N
                BY <1>4, <3>1
            <4> QED
                BY <3>2, <4>1, SubSeqProperties
        <3>4. todo' = [todo EXCEPT !.ids = rest]
            BY <1>3, <2>2
        <3> HIDE DEF rest
        <3>5. todo \in [ids : Seq(Tokens), pin : BOOLEAN]
            BY <1>1 DEF CacheTypes
        <3>6. todo' \in [ids : Seq(Tokens), pin : BOOLEAN] /\ todo'.ids = rest /\ todo'.pin = todo.pin
            BY <3>3, <3>4, <3>5
        <3>7. PICK x \in Nat, y \in Nat : x = N /\ y = n
            BY <1>4
        <3>8. Len(rest) = x - y /\ x - y > 0
            BY <3>1, <3>3, <3>7
        <3>9. rest # <<>>
            BY <3>8
        <3>10. Len(text) + y + (x - y) <= maxLen
            <4>1. PICK z \in Nat : z = Len(text)
                BY <1>1
            <4>2. z + y + (x - y) = z + x
                OBVIOUS
            <4> QED
                BY <1>6, <3>7, <4>1, <4>2
        <3> QED
            BY <1>7, <2>2, <3>6, <3>7, <3>8, <3>9, <3>10
    <2> QED
        BY <1>7, <2>1, <2>2
<1> HIDE DEF last, N
<1>10. ready' \in BOOLEAN /\ faults \in Nat /\ failed \in BOOLEAN /\ maxLen \in Contexts
    BY <1>1, <1>3 DEF CacheTypes
\* The parts of the invariant the three outcomes share.
<1>11. ASSUME Shape(Cache)', ~failed' => Right(Cache)', text' = o.c.text, residual' = o.c.residual,
              prefix' \in 0 .. Len(text'), tail' \in [Layers -> Seq(Rows)], faults' \in Nat, failed' \in BOOLEAN,
              PrefixKept', o.ok /\ ~last => (failed' = failed), ~o.ok => failed'
       PROVE  CacheInv'
    <2>1. CacheTypes'
        <3>1. Len(text') + Len(todo'.ids) <= maxLen' /\ maxLen' \in Contexts
            BY <1>2, <1>9, <1>10, <1>11
        <3> QED
            BY <1>9, <1>10, <1>11, <3>1 DEF CacheTypes
    <2>2. PinClean'
        BY <1>1, <1>9, <1>11 DEF PinClean
    <2>3. UndrainedOnlyCut'
        BY <1>8, <1>11 DEF UndrainedOnlyCut
    <2> QED
        BY <1>11, <2>1, <2>2, <2>3 DEF CacheInv
<1>12. CASE /\ ~(o.ok /\ last /\ todo.pin)
            /\ Becomes(o)
            /\ UNCHANGED <<prefix, tail>>
    <2>1. KeepsPrefix(o.c)
        BY <1>1, <1>7, ContinuedKeepsPrefix
    <2>2. /\ Shape(Cache)' /\ (~failed' => Right(Cache)')
          /\ prefix' \in 0 .. Len(text') /\ tail' \in [Layers -> Seq(Rows)]
          /\ faults' \in Nat /\ failed' \in BOOLEAN
          /\ PrefixKept'
        BY <1>1, <1>2, <1>7, <1>12, <2>1, CallKeeps
    <2>3. text' = o.c.text /\ residual' = o.c.residual
        BY <1>12 DEF Becomes
    <2>4. failed' = (failed \/ ~o.ok)
        BY <1>8, <1>12 DEF Becomes
    <2> QED
        BY <1>7, <1>10, <1>11, <2>2, <2>3, <2>4
<1>13. CASE /\ o.ok /\ last /\ todo.pin
            /\ Becomes(o)
            /\ prefix' = Len(o.c.text)
            /\ tail' = PinSaved(o.c, Layers)
    <2>1. ~failed /\ Right(o.c) /\ o.c.residual < R
        BY <1>1, <1>7, <1>13 DEF PinClean
    <2>2. /\ Shape(Cache)' /\ Right(Cache)' /\ Len(text') \in Nat
          /\ text' = o.c.text /\ residual' = o.c.residual /\ drained' = o.c.drained /\ drained' \in Nat
        BY <1>2, <1>7, <1>13, <2>1, NextCache
    <2>3. faults' \in Nat /\ failed' \in BOOLEAN
        BY <1>10, <1>13 DEF Becomes
    <2>4. tail' \in [Layers -> Seq(Rows)]
        BY <1>1, <1>7, <1>13, PinSavedTyped
    <2>5. PrefixKept'
        <3>1. /\ Base(Len(o.c.text)) = o.c.drained
              /\ \A l \in Layers : Residual(o.c, l) = SubSeq(o.c.text, o.c.drained + 1, Len(o.c.text))
            BY <1>1, <1>7, <2>1, RingIsRest
        <3>2. \A l \in Layers : tail'[l] = Residual(o.c, l)
            BY <1>13 DEF PinSaved
        <3> QED
            BY SMTT(30), <1>13, <2>2, <3>1, <3>2 DEF PrefixKept, Base
    <2>6. prefix' \in 0 .. Len(text')
        BY <1>13, <2>2
    <2> QED
        BY <1>11, <1>13, <2>2, <2>3, <2>4, <2>5, <2>6
<1>14. ASSUME o.ok, last, Becomes(Failed(o.c)), prefix' = 0, NEW l \in 0 .. NLayers - 1, tail' = PinSaved(o.c, 1 .. l)
       PROVE  CacheInv'
    <2>1. PICK x : x = Failed(o.c)
        OBVIOUS
    <2>2. x.c = o.c /\ x.ok = FALSE /\ Becomes(x)
        BY <1>14, <2>1 DEF Failed
    <2>3. /\ Shape(Cache)' /\ Len(text') \in Nat
          /\ text' = o.c.text /\ residual' = o.c.residual
        BY <1>2, <1>7, <2>2, NextCache
    <2>4. failed' = TRUE /\ faults' \in Nat
        <3>1. /\ failed' = (x.c.text # <<>> /\ (failed \/ ~x.ok))
              /\ faults' = IF x.ok THEN faults ELSE faults + 1
            BY <2>2 DEF Becomes
        <3>2. faults' \in Nat
            BY <1>10, <3>1
        <3>3. x.c.text # <<>> /\ ~x.ok
            BY <1>8, <2>2
        <3> QED
            BY <3>1, <3>2, <3>3
    <2>5. tail' \in [Layers -> Seq(Rows)]
        BY <1>1, <1>7, <1>14, PinSavedTyped
    <2>6. PrefixKept' /\ prefix' \in 0 .. Len(text')
        BY <1>14, <2>3 DEF PrefixKept
    <2> QED
        BY <1>11, <1>14, <2>3, <2>4, <2>5, <2>6
<1> QED
    BY <1>3, <1>12, <1>13, <1>14

-----------------------------------------------------------------------------
(* The theorems. *)

\* The invariant holds in a new session,
LEMMA CacheInitInv == ASSUME CacheInit PROVE CacheInv
<1>1. /\ maxLen \in Contexts /\ maxLen \in Nat
      /\ text = <<>> /\ prefix = 0 /\ drained = 0 /\ residual = 0
      /\ ready = FALSE /\ todo = NoPrefill /\ faults = 0 /\ failed = FALSE
    BY KiviConstants DEF CacheInit
<1>2. /\ ring \in [Layers -> [RingIndex -> Rows]] /\ packed \in [Layers -> [RingIndex -> Rows]]
    BY DEF CacheInit, RingIndex, Rows
<1>3. tail \in [Layers -> Seq(Rows)]
    BY DEF CacheInit
<1>4. Shape(Cache)
    <2>1. 0 = 0 * R
        BY KiviConstants
    <2>2. Cache \in Caches
        BY <1>1, <1>2 DEF Cache, Caches
    <2>3. Cache.text = <<>> /\ Cache.drained = 0 /\ Cache.residual = 0 /\ Len(<<>>) = 0
        BY <1>1 DEF Cache
    <2> QED
        BY <1>1, <2>1, <2>2, <2>3 DEF Shape
<1>5. Right(Cache)
    <2>1. Len(Cache.text) = 0
        BY <1>1 DEF Cache
    <2>2. \A p \in 0 .. Len(Cache.text) - 1 : FALSE
        BY <2>1
    <2> QED
        BY <2>2 DEF Right
<1>6. todo.ids = <<>> /\ todo.pin = FALSE /\ todo \in [ids : Seq(Tokens), pin : BOOLEAN] /\ Len(todo.ids) = 0
    BY <1>1 DEF NoPrefill
<1>7. CacheTypes
    <2>1. Len(text) = 0
        BY <1>1
    <2>2. prefix \in 0 .. Len(text) /\ Len(text) + Len(todo.ids) <= maxLen
        BY <1>1, <1>6, <2>1
    <2>3. ready \in BOOLEAN /\ faults \in Nat /\ failed \in BOOLEAN
        BY <1>1
    <2> QED
        BY <1>1, <1>3, <1>4, <1>6, <2>2, <2>3 DEF CacheTypes
<1>8. PinClean /\ PrefixKept /\ UndrainedOnlyCut
    BY <1>1, <1>6 DEF PinClean, PrefixKept, UndrainedOnlyCut
<1> QED
    BY <1>5, <1>7, <1>8 DEF CacheInv

\* and every call keeps it.
LEMMA CacheStep == ASSUME CacheInv, [CacheNext]_cacheVars PROVE CacheInv'
    BY PrefillKeeps, PinPrefixKeeps, SubBatchKeeps, CancelKeeps, DecodeKeeps, VerifyKeeps,
       TruncateToKeeps, ResetKeeps, StutterKeeps DEF CacheNext

\* The counters, the texts, the copies and the rows agree in every reachable state
\* of forward/step.c, forward/attention.c and the calls of arch_ops.c.
THEOREM CacheInvariant == CacheSpec => []CacheInv
    BY CacheInitInv, CacheStep, PTL DEF CacheSpec

\* Every row attention reads is the row of its position, in every layer, until a
\* buffer could not be mapped: for any group size, context, layers and prompts.
THEOREM CacheAlwaysText == CacheSpec => []CacheIsText
<1>1. CacheInv => CacheIsText
    BY DEF CacheInv, Right, Cache, CacheIsText
<1> QED
    BY <1>1, CacheInvariant, PTL

\* transformer_session_reset can always return to the prefix that
\* transformer_pin_prefix pinned: its groups are packed and its rest is in the copy.
THEOREM PrefixAlwaysKept == CacheSpec => []PrefixKept
<1>1. CacheInv => PrefixKept
    BY DEF CacheInv
<1> QED
    BY <1>1, CacheInvariant, PTL

\* transformer_kivi_drain_full runs often enough: a whole group is left in the ring
\* only after a cut-off verify or a failed drain.
THEOREM UndrainedAlwaysCut == CacheSpec => []UndrainedOnlyCut
<1>1. CacheInv => UndrainedOnlyCut
    BY DEF CacheInv
<1> QED
    BY <1>1, CacheInvariant, PTL
=============================================================================
