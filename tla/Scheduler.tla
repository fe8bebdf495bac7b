------------------------------ MODULE Scheduler ------------------------------
(***************************************************************************)
(* pkg/schedx/scheduler.go: a pool of workers that pop jobs from a queue   *)
(* under the lock of a sync.Cond.  The nest that owns the workers is       *)
(* NestLifecycle, whose actions are used here; the queue and the counter   *)
(* have synchronisation of their own, so Push takes no lock of the pool.   *)
(*                                                                         *)
(* Each task is the argument of one Push call.  A step of a worker is what *)
(* it does between two reads that somebody else's step can change; a step  *)
(* that ends holding cond.L leaves pc in LockPcs.                          *)
(***************************************************************************)
EXTENDS Integers, Sequences, FiniteSets, Functions

CONSTANTS Tasks,        \* the values pushed
          Workers,      \* the parallel goroutines Run starts
          Runners,      \* goroutines that call Run
          Closers,      \* goroutines that call Close
          MaxPending,   \* WithMaxPending; negative is unlimited
          Mode,         \* "FIFO" or "LIFO"
          HasTimeout,   \* WithCloseTimeout is positive
          NoTask        \* a worker holds no task

ASSUME SetsAssumption ==
  /\ IsFiniteSet(Tasks) /\ NoTask \notin Tasks
  /\ IsFiniteSet(Workers)
ASSUME OptionsAssumption ==
  /\ MaxPending \in Int
  /\ Mode \in {"FIFO", "LIFO"}
  /\ HasTimeout \in BOOLEAN

VARIABLES running,      \* s.running
          created,      \* s.nest is assigned
          tasks,        \* s.tasks
          pending,      \* s.pending
          push,         \* where each Push call is, or what it returned
          pc,           \* where each worker is
          held,         \* the task each worker has popped
          ran,          \* how often each task was run and called back
          runner,       \* where each Run call is
          closer,       \* where each Close call is
          hook,         \* the before hook's goroutine broadcasts, or expired
          reported,     \* the jobs given to the exit callback
          phase, wg, dispatched, cause, timedOut   \* the nest

nest == INSTANCE NestLifecycle WITH Goroutines <- Workers,
                                    Causes <- {{"closed"}, {"parent"}}

nestVars == <<phase, wg, dispatched, cause, timedOut>>
pool == <<pc, held, ran>>
calls == <<running, created, runner, closer>>
exit == <<hook, reported>>
vars == <<tasks, pending, push, pool, calls, exit, nestVars>>

-----------------------------------------------------------------------------
Refusals == {"NOT_RUNNING", "CANCELED", "MAX_PENDING", "panic"}
PushPcs == {"idle", "admitted", "reserved", "appended", "ok"} \cup Refusals
LockPcs == {"towait", "popping"}
WorkerPcs == {"none", "idle", "asleep", "popped", "running", "exited"}
               \cup LockPcs
RunnerPcs == {"idle", "creating", "spawning", "ok", "failed", "rerun"}
CloserPcs == {"idle", "closing", "nil", "timeout", "early", "lost", "panic"}

Init ==
  /\ running = FALSE
  /\ created = FALSE
  /\ tasks = <<>>
  /\ pending = 0
  /\ push = [t \in Tasks |-> "idle"]
  /\ pc = [w \in Workers |-> "none"]
  /\ held = [w \in Workers |-> NoTask]
  /\ ran = [t \in Tasks |-> 0]
  /\ runner = [r \in Runners |-> "idle"]
  /\ closer = [c \in Closers |-> "idle"]
  /\ hook = "none"
  /\ reported = {}
  /\ nest!NestInit

-----------------------------------------------------------------------------
(* Push: the two guards, the reservation, the append and the broadcast.  The *)
(* pointer s.nest is read without synchronisation while Run assigns it: the  *)
(* read finds nil, the nest, or one word of each and panics.                 *)
Goes(t, at) == push' = [push EXCEPT ![t] = at]

PushRefused(t) ==
  /\ push[t] = "idle"
  /\ \/ ~running /\ Goes(t, "NOT_RUNNING")
     \/ created /\ nest!Canceled /\ Goes(t, "CANCELED")
     \/ running /\ ~created /\ Goes(t, "panic")
  /\ UNCHANGED <<tasks, pending, pool, calls, exit, nestVars>>

PushAdmitted(t) ==
  /\ push[t] = "idle"
  /\ running
  /\ ~(created /\ nest!Canceled)
  /\ Goes(t, "admitted")
  /\ UNCHANGED <<tasks, pending, pool, calls, exit, nestVars>>

ReserveOneMore(t) ==        \* mutant: current > maxPending
  /\ push[t] = "admitted"
  /\ MaxPending < 0 \/ pending <= MaxPending
  /\ pending' = pending + 1
  /\ Goes(t, "reserved")
  /\ UNCHANGED <<tasks, pool, calls, exit, nestVars>>

Reserve(t) ==
  /\ push[t] = "admitted"
  /\ MaxPending < 0 \/ pending < MaxPending
  /\ pending' = pending + 1
  /\ Goes(t, "reserved")
  /\ UNCHANGED <<tasks, pool, calls, exit, nestVars>>

ReserveFull(t) ==
  /\ push[t] = "admitted"
  /\ MaxPending >= 0 /\ pending >= MaxPending
  /\ Goes(t, "MAX_PENDING")
  /\ UNCHANGED <<tasks, pending, pool, calls, exit, nestVars>>

Enqueue(t) ==
  /\ push[t] = "reserved"
  /\ tasks' = Append(tasks, t)
  /\ Goes(t, "appended")
  /\ UNCHANGED <<pending, pool, calls, exit, nestVars>>

(* sync.Cond.Broadcast: every sleeping worker goes back to take cond.L.      *)
WakeAll == pc' = [w \in Workers |-> IF pc[w] = "asleep" THEN "idle" ELSE pc[w]]

PushBroadcast(t) ==
  /\ push[t] = "appended"
  /\ WakeAll
  /\ Goes(t, "ok")
  /\ UNCHANGED <<tasks, pending, held, ran, calls, exit, nestVars>>

-----------------------------------------------------------------------------
(* A worker takes cond.L and tests Len and Canceled ...                      *)
At(w, at) == pc' = [pc EXCEPT ![w] = at]
LockFree == \A w \in Workers : pc[w] \notin LockPcs

WorkerExit(w) ==
  /\ pc[w] = "idle" /\ LockFree
  /\ nest!Canceled
  /\ nest!Return(w)
  /\ At(w, "exited")
  /\ UNCHANGED <<tasks, pending, push, held, ran, calls, exit>>

WorkerTest(w) ==
  /\ pc[w] = "idle" /\ LockFree
  /\ ~nest!Canceled
  /\ At(w, IF tasks = <<>> THEN "towait" ELSE "popping")
  /\ UNCHANGED <<tasks, pending, push, held, ran, calls, exit,
                 nestVars>>

(* ... finds nothing, and joins the waiters while it releases cond.L ...     *)
WorkerWait(w) ==
  /\ pc[w] = "towait"
  /\ At(w, "asleep")
  /\ UNCHANGED <<tasks, pending, push, held, ran, calls, exit,
                 nestVars>>

(* ... or pops and releases cond.L, then counts down, then runs the job.     *)
Pick(s) == IF Mode = "FIFO" THEN Head(s) ELSE s[Len(s)]
Rest(s) == IF Mode = "FIFO" THEN Tail(s) ELSE SubSeq(s, 1, Len(s) - 1)

WorkerPop(w) ==
  /\ pc[w] = "popping"
  /\ tasks # <<>>
  /\ tasks' = Rest(tasks)
  /\ held' = [held EXCEPT ![w] = Pick(tasks)]
  /\ At(w, "popped")
  /\ UNCHANGED <<pending, push, ran, calls, exit, nestVars>>

JobStartUncounted(w) ==     \* mutant: no pending.Add(-1)
  /\ pc[w] = "popped"
  /\ At(w, "running")
  /\ UNCHANGED <<tasks, pending, push, held, ran, calls, exit, nestVars>>

JobStart(w) ==
  /\ pc[w] = "popped"
  /\ pending' = pending - 1
  /\ At(w, "running")
  /\ UNCHANGED <<tasks, push, held, ran, calls, exit, nestVars>>

(* fn.Do returns or panics; either way the deferred callback is called.      *)
JobEnd(w) ==
  /\ pc[w] = "running"
  /\ ran' = [ran EXCEPT ![held[w]] = @ + 1]
  /\ held' = [held EXCEPT ![w] = NoTask]
  /\ At(w, "idle")
  /\ UNCHANGED <<tasks, pending, push, calls, exit, nestVars>>

-----------------------------------------------------------------------------
(* Run: the first caller creates the nest, assigns s.nest and spawns.        *)
RunEnter(r) ==
  /\ runner[r] = "idle"
  /\ running' = TRUE
  /\ runner' = [runner EXCEPT ![r] = IF running THEN "rerun" ELSE "creating"]
  /\ UNCHANGED <<tasks, pending, push, pool, created, closer, exit,
                 nestVars>>

RunCreate(r) ==
  /\ runner[r] = "creating"
  /\ created' = TRUE
  /\ runner' = [runner EXCEPT ![r] = "spawning"]
  /\ UNCHANGED <<tasks, pending, push, pool, running, closer, exit,
                 nestVars>>

RunSpawn(r) ==
  /\ runner[r] = "spawning"
  /\ \E w \in Workers : pc[w] = "none" /\ nest!Spawn(w) /\ At(w, "idle")
  /\ UNCHANGED <<tasks, pending, push, held, ran, calls, exit>>

RunReturn(r) ==
  /\ runner[r] = "spawning"
  /\ \/ /\ \A w \in Workers : pc[w] # "none"
        /\ runner' = [runner EXCEPT ![r] = "ok"]
        /\ UNCHANGED nestVars
     \/ /\ \E w \in Workers : pc[w] = "none"
        /\ nest!SpawnRefused
        /\ runner' = [runner EXCEPT ![r] = "failed"]
  /\ UNCHANGED <<tasks, pending, push, pool, running, created, closer, exit>>

(* The parent context ends; the nest's watcher reacts.                       *)
ParentCancel ==
  /\ running /\ ~dispatched
  /\ nest!InheritedDone
  /\ UNCHANGED <<tasks, pending, push, pool, calls, exit>>

WatcherCancel ==
  /\ dispatched
  /\ nest!BeginCancel({"parent"})
  /\ UNCHANGED <<tasks, pending, push, pool, calls, exit>>

-----------------------------------------------------------------------------
(* Close: without a nest there is nothing to do, and it returns nil ("early" *)
(* before Run, "lost" while Run is creating the nest); the unsynchronised    *)
(* read of s.nest may also panic.  Otherwise it cancels, or finds the nest   *)
(* canceled, and waits for Done.                                             *)
Closing(c, at) == closer' = [closer EXCEPT ![c] = at]

CloseEnter(c) ==
  /\ closer[c] = "idle"
  /\ \/ ~running /\ Closing(c, "early")
     \/ running /\ ~created /\ \E at \in {"lost", "panic"} : Closing(c, at)
     \/ created /\ Closing(c, "closing")
  /\ UNCHANGED <<tasks, pending, push, pool, running, created, runner, exit,
                 nestVars>>

CloseCancel(c) ==
  /\ closer[c] = "closing"
  /\ nest!BeginCancel({"closed"})
  /\ UNCHANGED <<tasks, pending, push, pool, calls, exit>>

CloseReturnAtOnce(c) ==     \* mutant: Close does not wait for nest.Err
  /\ closer[c] = "closing"
  /\ nest!Canceled
  /\ Closing(c, IF timedOut THEN "timeout" ELSE "nil")
  /\ UNCHANGED <<tasks, pending, push, pool, running, created, runner, exit,
                 nestVars>>

CloseReturn(c) ==
  /\ closer[c] = "closing"
  /\ phase = "done"
  /\ Closing(c, IF timedOut THEN "timeout" ELSE "nil")
  /\ UNCHANGED <<tasks, pending, push, pool, running, created, runner, exit,
                 nestVars>>

-----------------------------------------------------------------------------
(* The nest's shutdown, with the hooks that Run gives it: the before hook    *)
(* starts a goroutine that broadcasts until the hook's context is done.      *)
BeforeHook ==
  /\ nest!CancelDispatched
  /\ hook' = "live"
  /\ UNCHANGED <<tasks, pending, push, pool, calls, reported>>

HookBroadcastOnce ==        \* mutant: one broadcast instead of a loop
  /\ hook = "live"
  /\ WakeAll
  /\ hook' = "none"
  /\ UNCHANGED <<tasks, pending, push, held, ran, calls, reported,
                 nestVars>>

HookBroadcast ==
  /\ hook = "live"
  /\ WakeAll
  /\ UNCHANGED <<tasks, pending, push, held, ran, calls, exit,
                 nestVars>>

HookTimeout ==
  /\ HasTimeout /\ hook = "live"
  /\ hook' = "expired"
  /\ UNCHANGED <<tasks, pending, push, pool, calls, reported, nestVars>>

WaitWorkers ==
  /\ nest!Drained
  /\ UNCHANGED <<tasks, pending, push, pool, calls, exit>>

WaitExpiresDrained ==       \* mutant: the timeout does not end the wait
  /\ nest!Expire
  /\ wg = {}
  /\ UNCHANGED <<tasks, pending, push, pool, calls, exit>>

WaitExpires ==
  /\ nest!Expire
  /\ UNCHANGED <<tasks, pending, push, pool, calls, exit>>

AfterHookEarly ==           \* mutant: it does not wait for the workers
  /\ phase \in {"draining", "after"}
  /\ phase' = "done"
  /\ hook' = "none"
  /\ reported' = Range(tasks)
  /\ UNCHANGED <<tasks, pending, push, pool, calls, wg, dispatched, cause,
                 timedOut>>

(* The after hook hands what is still queued to the exit callback.           *)
AfterHook ==
  /\ nest!CloseDone
  /\ hook' = "none"
  /\ reported' = Range(tasks)
  /\ UNCHANGED <<tasks, pending, push, pool, calls>>
-----------------------------------------------------------------------------
PushStep(t) == Reserve(t) \/ ReserveFull(t) \/ Enqueue(t) \/ PushBroadcast(t)

WorkerLocked(w) == WorkerExit(w) \/ WorkerTest(w)
WorkerStep(w) == WorkerWait(w) \/ WorkerPop(w) \/ JobStart(w)

RunStep(r) == RunCreate(r) \/ RunSpawn(r) \/ RunReturn(r)

CloseStep(c) == CloseCancel(c) \/ CloseReturn(c)

NestStep == WatcherCancel \/ BeforeHook \/ WaitWorkers \/ AfterHook

Next ==
  \/ \E t \in Tasks : PushRefused(t) \/ PushAdmitted(t) \/ PushStep(t)
  \/ \E w \in Workers : WorkerLocked(w) \/ WorkerStep(w) \/ JobEnd(w)
  \/ \E r \in Runners : RunEnter(r) \/ RunStep(r)
  \/ \E c \in Closers : CloseEnter(c) \/ CloseStep(c)
  \/ ParentCancel \/ NestStep \/ WaitExpires \/ HookBroadcast \/ HookTimeout

Spec == Init /\ [][Next]_vars

(* Goroutines that can run do run.  A worker competes with the others for    *)
(* cond.L, and sync.Mutex hands itself to a waiter that has starved, hence   *)
(* strong fairness.  Nobody has to call Push, Run or Close, the parent need  *)
(* not end, a job need not return and a timeout need not expire: what only   *)
(* holds if they do says so with JobsReturn or Expires.  But the two timers  *)
(* of a shutdown have one duration, and the hook's is armed first.           *)
Fairness ==
  /\ \A t \in Tasks : WF_vars(PushStep(t))
  /\ \A w \in Workers : SF_vars(WorkerLocked(w)) /\ WF_vars(WorkerStep(w))
  /\ \A r \in Runners : WF_vars(RunStep(r))
  /\ \A c \in Closers : WF_vars(CloseStep(c))
  /\ WF_vars(NestStep) /\ WF_vars(HookBroadcast)
  /\ WF_vars(hook = "expired" /\ WaitExpires)

FairSpec == Spec /\ Fairness

JobsReturn == \A w \in Workers : WF_vars(JobEnd(w))
Expires == WF_vars(WaitExpires)

-----------------------------------------------------------------------------
TypeOK ==
  /\ running \in BOOLEAN
  /\ created \in BOOLEAN
  /\ tasks \in Seq(Tasks)
  /\ pending \in Int
  /\ push \in [Tasks -> PushPcs]
  /\ pc \in [Workers -> WorkerPcs]
  /\ held \in [Workers -> Tasks \cup {NoTask}]
  /\ ran \in [Tasks -> Nat]
  /\ runner \in [Runners -> RunnerPcs]
  /\ closer \in [Closers -> CloserPcs]
  /\ hook \in {"none", "live", "expired"}
  /\ reported \subseteq Tasks
  /\ phase \in nest!Phases
  /\ wg \subseteq Workers
  /\ dispatched \in BOOLEAN
  /\ cause \in {{}, {"closed"}, {"parent"}}
  /\ timedOut \in BOOLEAN

(* Push counts up before it appends and a worker counts down after it pops,  *)
(* with no lock around the two: in between, the counter is ahead of the      *)
(* queue by exactly the calls that are in the middle.                        *)
Reserved == {t \in Tasks : push[t] = "reserved"}
Popped   == {w \in Workers : pc[w] = "popped"}

PendingExact ==
  pending = Len(tasks) + Cardinality(Reserved) + Cardinality(Popped)

(* So the limit holds for the queue, whatever the pushers' interleaving.     *)
QueueBound == MaxPending >= 0 => Len(tasks) + Cardinality(Reserved) <= MaxPending

(* Close returned nil from a scheduler with a nest: no worker is left, so no *)
(* job is running and none will run.                                         *)
CloseWaits == (\E c \in Closers : closer[c] = "nil") => \A w \in Workers :
                pc[w] \in {"none", "exited"} /\ held[w] = NoTask

(* Close returns if the jobs do, without any timeout; and it returns if its  *)
(* timeout expires, whatever the jobs do.                                    *)
CloseReturns ==
  JobsReturn \/ (HasTimeout /\ Expires) =>
    \A c \in Closers : (closer[c] = "closing") ~> (closer[c] # "closing")

(* The broadcasting goroutine of the before hook wakes every worker that was *)
(* between its test of Canceled and cond.Wait: after a cancel all workers    *)
(* leave, unless the hook's own timeout has stopped it.                      *)
WorkersLeave ==
  JobsReturn => (phase = "draining") ~> (wg = {} \/ hook = "expired" \/ timedOut)

(* The scheduler is a JobPool: a task is queued, run or left over, once each *)
(* and in that order, whoever pushes, pops, cancels and expires meanwhile;   *)
(* what the exit callback is given (reported) was not and is not run, unless *)
(* the wait timed out; and nothing runs in a closed scheduler.               *)
life == IF phase = "open" THEN "open" ELSE IF phase = "done" THEN "closed" ELSE "closing"
place == [t \in Tasks |->
            IF \E w \in Workers : held[w] = t THEN "run"
            ELSE IF ran[t] > 0 THEN "done"
            ELSE IF t \in reported THEN "left"
            ELSE IF t \in Range(tasks) THEN "in" ELSE "out"]
jobPool == INSTANCE JobPool WITH Slots <- Cardinality(Workers),
                                 Limit <- MaxPending, late <- timedOut
Contract == jobPool!PoolSpec

-----------------------------------------------------------------------------
(* What the documentation says and the code does not do.                     *)

(* doc.go:14-17 and its usage section (62-78): a task that was pushed is run *)
(* unless the scheduler is canceled.                                         *)
EveryPushRuns ==
  JobsReturn =>
    \A t \in Tasks : (push[t] = "ok") ~> (ran[t] = 1 \/ nest!Canceled)

(* WithExitCallback "receives remaining pending jobs" (option.go:73): once   *)
(* the scheduler is down every accepted job was run or reported.             *)
EveryPushSettled ==
  phase = "done" /\ ~timedOut =>
    \A t \in Tasks : push[t] = "ok" => ran[t] = 1 \/ t \in reported
=============================================================================
