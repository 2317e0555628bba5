------------------------------- MODULE ParPool -------------------------------
(***************************************************************************)
(* The fork-join pool of src/base/par.c, pthread build: one global pool, any *)
(* number of calling threads, workers that are created on demand and never   *)
(* destroyed.  A call publishes a word (generation, team size T); workers    *)
(* 1..T-1 run their ranges and store the word in `done`; an idle worker      *)
(* spins on the word and then sleeps on its condition variable.              *)
(*                                                                           *)
(* Shared accesses are separate steps, in the order of the code; memory is   *)
(* sequentially consistent, which the seq_cst pair word/sleeping and the     *)
(* release/acquire pair done provide for the accesses the protocol uses.     *)
(* Left out: time (a spinning worker may go to sleep at any moment) and the  *)
(* bodies, which are reduced to the items they take.                         *)
(***************************************************************************)
EXTENDS Integers, FiniteSets

CONSTANTS Callers,    \* threads that call geist_par_for from outside a body
          Sizes,      \* item counts n of the calls (n = 0 returns at once)
          Forms,      \* forms of a call: pull (dyn) or static, its body calling
                      \* geist_par_for itself (nest) or not
          MaxThreads, \* largest value of geist_par_max_threads()
          PoolMax,    \* POOL_MAX
          MaxCalls    \* bound: calls each thread makes

ASSUME ConstantsAssumption ==
    /\ Sizes \subseteq Nat \ {0}
    /\ Forms \subseteq [dyn : BOOLEAN, nest : BOOLEAN]
    /\ MaxThreads \in Nat \ {0}
    /\ PoolMax \in Nat \ {0}
    /\ MaxCalls \in Nat

Nobody == "nobody"
ASSUME NobodyAssumption == Nobody \notin Callers

Workers == 1 .. PoolMax - 1
Jobs    == Callers \X (1 .. MaxCalls)
Words   == [gen : Nat, T : Nat]
NoWord  == [gen |-> 0, T |-> 0]
NoJob   == <<Nobody, 0>>
NoTask  == [n |-> 0, job |-> NoJob]

CallerPCs == {"idle", "serial", "served", "lock", "grow", "write", "publish", "wake",
              "signal", "begin", "body", "join"}
WorkerPCs == {"none", "spin", "flag", "check", "wait", "woken", "leave",
              "test", "read", "body", "finish"}

VARIABLES
    lock,      \* g_pool.lock: the caller that holds it, or Nobody
    nWorkers,  \* g_pool.n_workers
    word,      \* g_pool.word, with g_pool.gen as its first half
    task,      \* g_pool.n and g_pool.fn/ctx (which call they belong to)
    done,      \* workers[w].done
    sleeping,  \* workers[w].sleeping
    mu,        \* workers[w].mu: is it held (by its worker; callers hold it in one step)
    wpc,       \* where worker w is
    seen,      \* the word worker w last took
    hand,      \* the items worker w took from the task, and of which call
    cpc,       \* where caller c is
    calls,     \* calls caller c has made: <<c, calls[c]>> names the current one
    req,       \* the current call: n, T, dyn (pull form), nest (body calls par_for)
    idx,       \* the index i of the caller's loops over its team
    inside,    \* tl_inside of caller c (a worker's is always true)
    next,      \* the pull counter on caller c's stack
    ran        \* ran[job][i]: how often fn got item i of that call

poolVars == <<lock, nWorkers, word, task>>
workerVars == <<done, sleeping, mu, wpc, seen, hand>>
callerVars == <<cpc, calls, req, idx, inside>>
vars == <<poolVars, workerVars, callerVars, next, ran>>

-----------------------------------------------------------------------------
Least(a, b) == IF a < b THEN a ELSE b
Items(n) == 0 .. n - 1

\* Mutant: the longer first ranges do not move the later ones.
OverlappingRange(n, t, T) == t * (n \div T) .. t * (n \div T) + n \div T - (IF t < n % T THEN 0 ELSE 1)

\* Range t of T over [0, n): n \div T items, one more for t < n % T.
ParRange(n, t, T) ==
    LET q == n \div T
        r == n % T
        begin == t * q + Least(t, r)
    IN  begin .. begin + q + (IF t < r THEN 1 ELSE 0) - 1

Job(c) == <<c, calls[c]>>
MaxItems == UNION {Items(n) : n \in Sizes}
Took(job, S) == ran' = [ran EXCEPT ![job] = [i \in MaxItems |-> @[i] + (IF i \in S THEN 1 ELSE 0)]]
NoRequest == [n |-> 0, T |-> 0, dyn |-> FALSE, nest |-> FALSE]
EmptyHand == [items |-> {}, job |-> NoJob]

Init ==
    /\ lock = Nobody /\ nWorkers = 0 /\ word = NoWord /\ task = NoTask
    /\ done = [w \in Workers |-> NoWord]
    /\ sleeping = [w \in Workers |-> FALSE]
    /\ mu = [w \in Workers |-> FALSE]
    /\ wpc = [w \in Workers |-> "none"]
    /\ seen = [w \in Workers |-> NoWord]
    /\ hand = [w \in Workers |-> EmptyHand]
    /\ cpc = [c \in Callers |-> "idle"]
    /\ calls = [c \in Callers |-> 0]
    /\ req = [c \in Callers |-> NoRequest]
    /\ idx = [c \in Callers |-> 0]
    /\ inside = [c \in Callers |-> FALSE]
    /\ next = [c \in Callers |-> 0]
    /\ ran = [j \in Jobs |-> [i \in MaxItems |-> 0]]

Goto(c, pc) == cpc' = [cpc EXCEPT ![c] = pc]
-----------------------------------------------------------------------------
(* The calling thread: geist_par_for *)

\* Mutant: the pool's limit is forgotten.
TeamUnlimited(n, threads) == Least(threads, n)

\* T = min(max_threads, n, POOL_MAX); a team of one runs fn(ctx, 0, n) itself.
Team(n, threads) == Least(Least(threads, n), PoolMax)

Call(c) ==
    /\ cpc[c] = "idle"
    /\ calls[c] < MaxCalls
    /\ \E n \in Sizes, threads \in 1 .. MaxThreads, f \in Forms :
         LET T == Team(n, threads) IN
         /\ req' = [req EXCEPT ![c] = [n |-> n, T |-> T, dyn |-> f.dyn, nest |-> f.nest]]
         /\ Goto(c, IF T <= 1 THEN "serial" ELSE "lock")
    /\ calls' = [calls EXCEPT ![c] = @ + 1]
    /\ next' = [next EXCEPT ![c] = 0]
    /\ UNCHANGED <<poolVars, workerVars, idx, inside, ran>>

Serial(c) ==
    /\ cpc[c] = "serial"
    /\ Took(Job(c), Items(req[c].n))
    /\ Goto(c, "served")
    /\ UNCHANGED <<poolVars, workerVars, calls, req, idx, inside, next>>

SerialReturn(c) ==
    /\ cpc[c] = "served"
    /\ Goto(c, "idle")
    /\ UNCHANGED <<poolVars, workerVars, calls, req, idx, inside, next, ran>>

Lock(c) ==
    /\ cpc[c] = "lock"
    /\ lock = Nobody
    /\ lock' = c
    /\ Goto(c, "grow")
    /\ UNCHANGED <<nWorkers, word, task, workerVars, calls, req, idx, inside, next, ran>>

\* ensure_workers: creates workers until T - 1 exist or pthread_create fails,
\* here when k exist.
GrowTo(c, k) ==
    LET new == nWorkers + 1 .. k
        T   == Least(req[c].T, k + 1)
    IN  /\ nWorkers' = k
        /\ wpc' = [w \in Workers |-> IF w \in new THEN "spin" ELSE wpc[w]]
        /\ seen' = [w \in Workers |-> IF w \in new THEN word ELSE seen[w]]
        /\ done' = [w \in Workers |-> IF w \in new THEN NoWord ELSE done[w]]
        /\ sleeping' = [w \in Workers |-> IF w \in new THEN FALSE ELSE sleeping[w]]
        /\ req' = [req EXCEPT ![c].T = T]
        /\ IF T <= 1 THEN Goto(c, "serial") /\ lock' = Nobody
                     ELSE Goto(c, "write") /\ lock' = lock

Grow(c) ==
    /\ cpc[c] = "grow"
    /\ \E k \in nWorkers .. (IF nWorkers + 1 < req[c].T THEN req[c].T - 1 ELSE nWorkers) :
         GrowTo(c, k)
    /\ UNCHANGED <<word, task, mu, hand, calls, idx, inside, next, ran>>

WriteTask(c) ==
    /\ cpc[c] = "write"
    /\ task' = [n |-> req[c].n, job |-> Job(c)]
    /\ Goto(c, "publish")
    /\ UNCHANGED <<lock, nWorkers, word, workerVars, calls, req, idx, inside, next, ran>>

Publish(c) ==
    /\ cpc[c] = "publish"
    /\ word' = [gen |-> word.gen + 1, T |-> req[c].T]
    /\ idx' = [idx EXCEPT ![c] = 1]
    /\ Goto(c, "wake")
    /\ UNCHANGED <<lock, nWorkers, task, workerVars, calls, req, inside, next, ran>>

\* for i in 1 .. T-1: if (sleeping) { lock mu; signal; unlock mu }
LookSleeping(c) ==
    /\ cpc[c] = "wake"
    /\ idx[c] < req[c].T
    /\ IF sleeping[idx[c]]
       THEN Goto(c, "signal") /\ UNCHANGED idx
       ELSE idx' = [idx EXCEPT ![c] = @ + 1] /\ UNCHANGED cpc
    /\ UNCHANGED <<poolVars, workerVars, calls, req, inside, next, ran>>

Signal(c) ==
    /\ cpc[c] = "signal"
    /\ ~mu[idx[c]]
    /\ wpc' = [wpc EXCEPT ![idx[c]] = IF @ = "wait" THEN "woken" ELSE @]
    /\ idx' = [idx EXCEPT ![c] = @ + 1]
    /\ Goto(c, "wake")
    /\ UNCHANGED <<poolVars, done, sleeping, mu, seen, hand, calls, req, inside, next, ran>>

\* Mutant: the caller runs its range with tl_inside as it was.
BeginOutside(c) ==
    /\ cpc[c] = "wake"
    /\ idx[c] = req[c].T
    /\ Goto(c, "body")
    /\ UNCHANGED <<poolVars, workerVars, calls, req, idx, inside, next, ran>>

\* Range 0 is the caller's own, run with tl_inside set.
BeginOwn(c) ==
    /\ cpc[c] = "wake"
    /\ idx[c] = req[c].T
    /\ inside' = [inside EXCEPT ![c] = TRUE]
    /\ Goto(c, "body")
    /\ UNCHANGED <<poolVars, workerVars, calls, req, idx, next, ran>>

\* fetch_add on the pull counter of caller c's call; a claim past the last
\* item ends the body that made it.
\* Mutant: the counter is advanced past an item.
ClaimTwo(c) == next' = [next EXCEPT ![c] = @ + 2]
Claim(c) == next' = [next EXCEPT ![c] = @ + 1]

OwnPull(c) ==
    /\ cpc[c] = "body"
    /\ req[c].dyn
    /\ next[c] < req[c].n
    /\ Took(Job(c), {next[c]})
    /\ Claim(c)
    /\ UNCHANGED <<poolVars, workerVars, callerVars>>

\* The rest of the body.  A geist_par_for called by it runs serially when
\* tl_inside is set; otherwise it would wait for the lock its own thread holds.
OwnBody(c) ==
    /\ cpc[c] = "body"
    /\ req[c].nest => inside[c]
    /\ IF req[c].dyn
       THEN next[c] >= req[c].n /\ Claim(c) /\ UNCHANGED ran
       ELSE Took(Job(c), ParRange(req[c].n, 0, req[c].T)) /\ UNCHANGED next
    /\ inside' = [inside EXCEPT ![c] = FALSE]
    /\ idx' = [idx EXCEPT ![c] = 1]
    /\ Goto(c, "join")
    /\ UNCHANGED <<poolVars, workerVars, calls, req>>

\* Mutant: the join does not look at `done`.
JoinUnseen(c) ==
    /\ cpc[c] = "join"
    /\ idx[c] < req[c].T
    /\ idx' = [idx EXCEPT ![c] = @ + 1]
    /\ UNCHANGED <<poolVars, workerVars, cpc, calls, req, inside, next, ran>>

Join(c) ==
    /\ cpc[c] = "join"
    /\ idx[c] < req[c].T
    /\ done[idx[c]] = word
    /\ idx' = [idx EXCEPT ![c] = @ + 1]
    /\ UNCHANGED <<poolVars, workerVars, cpc, calls, req, inside, next, ran>>

Return(c) ==
    /\ cpc[c] = "join"
    /\ idx[c] = req[c].T
    /\ lock' = Nobody
    /\ Goto(c, "idle")
    /\ UNCHANGED <<nWorkers, word, task, workerVars, calls, req, idx, inside, next, ran>>

-----------------------------------------------------------------------------
(* A worker: wait_word and worker_main *)

Step(w, pc) == wpc' = [wpc EXCEPT ![w] = pc]

SpinSee(w) ==
    /\ wpc[w] = "spin"
    /\ word # seen[w]
    /\ seen' = [seen EXCEPT ![w] = word]
    /\ Step(w, "test")
    /\ UNCHANGED <<poolVars, done, sleeping, mu, hand, callerVars, next, ran>>

\* The spin has lasted spin_ns; the word may change before the mutex is taken.
LockMu(w) ==
    /\ wpc[w] = "spin"
    /\ ~mu[w]
    /\ mu' = [mu EXCEPT ![w] = TRUE]
    /\ Step(w, "flag")
    /\ UNCHANGED <<poolVars, done, sleeping, seen, hand, callerVars, next, ran>>

SetSleeping(w) ==
    /\ wpc[w] = "flag"
    /\ sleeping' = [sleeping EXCEPT ![w] = TRUE]
    /\ Step(w, "check")
    /\ UNCHANGED <<poolVars, done, mu, seen, hand, callerVars, next, ran>>

\* Mutant: the word is not looked at again once the flag is up.
CheckNothing(w) ==
    /\ wpc[w] = "check"
    /\ Step(w, "wait") /\ mu' = [mu EXCEPT ![w] = FALSE]
    /\ UNCHANGED <<poolVars, done, sleeping, seen, hand, callerVars, next, ran>>

\* The loop condition, and pthread_cond_wait, which releases mu as it waits.
Check(w) ==
    /\ wpc[w] = "check"
    /\ IF word = seen[w]
       THEN Step(w, "wait") /\ mu' = [mu EXCEPT ![w] = FALSE] /\ UNCHANGED seen
       ELSE Step(w, "leave") /\ seen' = [seen EXCEPT ![w] = word] /\ UNCHANGED mu
    /\ UNCHANGED <<poolVars, done, sleeping, hand, callerVars, next, ran>>

\* POSIX lets pthread_cond_wait return without a signal.
SpuriousWakeup(w) ==
    /\ wpc[w] = "wait"
    /\ Step(w, "woken")
    /\ UNCHANGED <<poolVars, done, sleeping, mu, seen, hand, callerVars, next, ran>>

Relock(w) ==
    /\ wpc[w] = "woken"
    /\ ~mu[w]
    /\ mu' = [mu EXCEPT ![w] = TRUE]
    /\ Step(w, "check")
    /\ UNCHANGED <<poolVars, done, sleeping, seen, hand, callerVars, next, ran>>

LeaveSleep(w) ==
    /\ wpc[w] = "leave"
    /\ sleeping' = [sleeping EXCEPT ![w] = FALSE]
    /\ mu' = [mu EXCEPT ![w] = FALSE]
    /\ Step(w, "test")
    /\ UNCHANGED <<poolVars, done, seen, hand, callerVars, next, ran>>

\* Mutant: if (id <= T)
TestTeamWide(w) ==
    /\ wpc[w] = "test"
    /\ Step(w, IF w <= seen[w].T THEN "read" ELSE "spin")
    /\ UNCHANGED <<poolVars, done, sleeping, mu, seen, hand, callerVars, next, ran>>

\* if (id < T)
TestTeam(w) ==
    /\ wpc[w] = "test"
    /\ Step(w, IF w < seen[w].T THEN "read" ELSE "spin")
    /\ UNCHANGED <<poolVars, done, sleeping, mu, seen, hand, callerVars, next, ran>>

\* par_range(g_pool.n, id, T) and the loads of g_pool.fn and g_pool.ctx
ReadTask(w) ==
    /\ wpc[w] = "read"
    /\ hand' = [hand EXCEPT ![w] = [items |-> ParRange(task.n, w, seen[w].T), job |-> task.job]]
    /\ Step(w, "body")
    /\ UNCHANGED <<poolVars, done, sleeping, mu, seen, callerVars, next, ran>>

Pull(w) ==
    LET c == hand[w].job[1] IN
    /\ wpc[w] = "body"
    /\ req[c].dyn
    /\ next[c] < req[c].n
    /\ Took(hand[w].job, {next[c]})
    /\ Claim(c)
    /\ UNCHANGED <<poolVars, workerVars, callerVars>>

\* A worker's tl_inside is set for good, so a nested call never blocks it.
Body(w) ==
    LET c == hand[w].job[1] IN
    /\ wpc[w] = "body"
    /\ IF req[c].dyn
       THEN next[c] >= req[c].n /\ Claim(c) /\ UNCHANGED ran
       ELSE Took(hand[w].job, hand[w].items) /\ UNCHANGED next
    /\ hand' = [hand EXCEPT ![w] = EmptyHand]
    /\ Step(w, "finish")
    /\ UNCHANGED <<poolVars, done, sleeping, mu, seen, callerVars>>

Finish(w) ==
    /\ wpc[w] = "finish"
    /\ done' = [done EXCEPT ![w] = seen[w]]
    /\ Step(w, "spin")
    /\ UNCHANGED <<poolVars, sleeping, mu, seen, hand, callerVars, next, ran>>

-----------------------------------------------------------------------------
CallerStep(c) ==
    \/ Serial(c) \/ SerialReturn(c) \/ Lock(c) \/ Grow(c) \/ WriteTask(c) \/ Publish(c)
    \/ LookSleeping(c) \/ Signal(c) \/ BeginOwn(c) \/ OwnPull(c) \/ OwnBody(c)
    \/ Join(c) \/ Return(c)

WorkerStep(w) ==
    \/ SpinSee(w) \/ LockMu(w) \/ SetSleeping(w) \/ Check(w) \/ Relock(w)
    \/ LeaveSleep(w) \/ TestTeam(w) \/ ReadTask(w) \/ Pull(w) \/ Body(w) \/ Finish(w)

Next == \/ \E c \in Callers : Call(c) \/ CallerStep(c)
        \/ \E w \in Workers : WorkerStep(w) \/ SpuriousWakeup(w)

Spec == Init /\ [][Next]_vars

\* The scheduler runs every thread that can run; a thread that keeps finding
\* the pool lock or its worker's mutex taken gets it in the end.
Fairness == /\ \A c \in Callers : /\ WF_vars(CallerStep(c))
                                  /\ SF_vars(Lock(c))
                                  /\ SF_vars(Signal(c))
            /\ \A w \in Workers : WF_vars(WorkerStep(w))

FairSpec == Spec /\ Fairness
-----------------------------------------------------------------------------
(* Properties *)

PoolTypes ==
    /\ lock \in Callers \cup {Nobody}
    /\ nWorkers \in 0 .. PoolMax - 1
    /\ word \in Words
    /\ task \in [n : Nat, job : Jobs \cup {NoJob}]
WorkerTypes ==
    /\ done \in [Workers -> Words]
    /\ sleeping \in [Workers -> BOOLEAN]
    /\ mu \in [Workers -> BOOLEAN]
    /\ wpc \in [Workers -> WorkerPCs]
    /\ seen \in [Workers -> Words]
    /\ hand \in [Workers -> [items : SUBSET Int, job : Jobs \cup {NoJob}]]
CallerTypes ==
    /\ cpc \in [Callers -> CallerPCs]
    /\ calls \in [Callers -> 0 .. MaxCalls]
    /\ req \in [Callers -> [n : Nat, T : 0 .. PoolMax, dyn : BOOLEAN, nest : BOOLEAN]]
    /\ idx \in [Callers -> Nat]
    /\ inside \in [Callers -> BOOLEAN]
CountTypes ==
    /\ next \in [Callers -> Nat]
    /\ ran \in [Jobs -> [MaxItems -> Nat]]
TypeOK == PoolTypes /\ WorkerTypes /\ CallerTypes /\ CountTypes

\* Every item of a finished call was handed to fn exactly once, whatever the
\* team size, the pull or the static form, and the workers that could be made;
\* no item of a call in progress was handed out twice.
EachItemOnce ==
    \A c \in Callers : \A k \in 1 .. calls[c] :
        \A i \in MaxItems :
            /\ ran[<<c, k>>][i] <= 1
            /\ (k = calls[c] /\ cpc[c] = "idle" /\ i < req[c].n) => ran[<<c, k>>][i] = 1
            /\ (k = calls[c] /\ i >= req[c].n) => ran[<<c, k>>][i] = 0

\* A worker between taking a word that counts it in and storing that word in
\* `done` works for the call that holds the pool lock, on that call's task: the
\* plain fields n, fn, ctx never change under it, nor are read before they are
\* written (par.c: written under `lock` before `word` publishes it, read by
\* workers 1..T-1 until each releases `done`).
Working(w) == \/ wpc[w] = "test" /\ w < seen[w].T
              \/ wpc[w] \in {"read", "body", "finish"}
TaskStable ==
    \A w \in Workers : Working(w) =>
        /\ seen[w] = word
        /\ lock \in Callers
        /\ cpc[lock] \in {"wake", "signal", "body", "join"}
        /\ task.job = Job(lock)
        /\ task.n = req[lock].n
        /\ word.T = req[lock].T
        /\ wpc[w] = "body" => hand[w].job = Job(lock)

\* No lost wakeup: a worker of the published team that sleeps on the condition
\* variable is still ahead of the caller's wake loop, which will see its flag.
NoLostWakeup ==
    \A w \in Workers :
        (wpc[w] = "wait" /\ word # seen[w] /\ w < word.T) =>
            /\ lock \in Callers
            /\ cpc[lock] \in {"wake", "signal"}
            /\ idx[lock] <= w
            /\ sleeping[w]

\* A call past its join has the word of every member of its team in `done`;
\* `done` never runs ahead of a range still in progress.
JoinedMeansDone ==
    \A c \in Callers : cpc[c] = "join" =>
        \A w \in Workers : w < idx[c] => done[w] = word /\ ~Working(w)

\* Every call returns.
EveryCallReturns == \A c \in Callers : cpc[c] # "idle" ~> cpc[c] = "idle"

\* The pool implements geist_par_for's promise.
Promise == INSTANCE ParFor WITH
    active <- [c \in Callers |-> cpc[c] # "idle"],
    todo <- [c \in Callers |->
               {i \in Items(req[c].n) : cpc[c] # "idle" /\ ran[Job(c)][i] = 0}]
ImplementsParFor == Promise!Spec
=============================================================================
