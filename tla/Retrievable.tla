----------------------------- MODULE Retrievable -----------------------------
(***************************************************************************)
(* pkg/schedx/retrievable_scheduler.go: the pool of module Scheduler whose *)
(* Push returns a Result that callers wait on.  A Result is completed by   *)
(* the worker that ran its job, or by dismiss, which the nest's before     *)
(* hook runs in the goroutine that cancels, without cond.L; it can also be *)
(* answered, uncompleted, from the pool's closed channel.                  *)
(*                                                                         *)
(* Every cause a Result is failed with has the code SCHEDULER_CANCELED and *)
(* is written "CANCELED"; what a job returns is written "out".             *)
(***************************************************************************)
EXTENDS Integers, Sequences, FiniteSets

CONSTANTS Tasks,        \* the inputs pushed
          Workers,      \* the parallel goroutines Run starts
          Dismisser,    \* the goroutine in the before hook
          Runners,      \* goroutines that call Run
          Closers,      \* goroutines that call Close
          Waiters,      \* goroutines that call Result
          MaxPending,   \* WithRetrievableMaxPending; negative is unlimited
          Mode,         \* "FIFO" or "LIFO"
          HasTimeout,   \* WithRetrievableCloseTimeout is positive
          NoTask        \* no task

Poppers == Workers \cup {Dismisser}

ASSUME SetsAssumption ==
  /\ IsFiniteSet(Tasks) /\ NoTask \notin Tasks
  /\ IsFiniteSet(Workers) /\ Dismisser \notin Workers
ASSUME OptionsAssumption ==
  /\ MaxPending \in Int
  /\ Mode \in {"FIFO", "LIFO"}
  /\ HasTimeout \in BOOLEAN

VARIABLES running,      \* r.running
          created,      \* r.nest is assigned
          tasks,        \* r.tasks
          pending,      \* r.pending
          push,         \* where each Push call is, or what it returned
          pc,           \* where each worker, and the dismisser, is
          held,         \* the task each of them has popped
          chosen,       \* what finish is about to store
          ran,          \* the tasks whose job has returned
          closed,       \* r.closed is closed
          done,         \* the tasks whose Result is completed ...
          val,          \* ... and with what
          asked,        \* the task whose Result each waiter called
          got,          \* what that call returned
          runner,       \* where each Run call is
          closer,       \* where each Close call is
          hook,         \* the before hook's goroutine broadcasts, or expired
          phase, wg, dispatched, cause, timedOut   \* the nest

nest == INSTANCE NestLifecycle WITH Goroutines <- Workers,
                                    Causes <- {{"closed"}, {"parent"}}

nestVars == <<phase, wg, dispatched, cause, timedOut>>
queue == <<tasks, pending, push>>
pool == <<pc, held, chosen, ran>>
results == <<closed, done, val, asked, got>>
calls == <<running, created, runner, closer>>
vars == <<queue, pool, results, calls, hook, nestVars>>

-----------------------------------------------------------------------------
PushPcs == {"idle", "admitted", "reserved", "appended", "ok", "refused"}
LockPcs == {"towait", "popping"}
PopperPcs == {"none", "idle", "asleep", "popped", "running", "finish", "store",
              "exited"} \cup LockPcs
RunnerPcs == {"idle", "creating", "spawning", "ok", "failed", "rerun"}
CloserPcs == {"idle", "closing", "nil", "timeout", "early"}
Answers == {"out", "CANCELED"}

Init ==
  /\ running = FALSE
  /\ created = FALSE
  /\ tasks = <<>>
  /\ pending = 0
  /\ push = [t \in Tasks |-> "idle"]
  /\ pc = [p \in Poppers |-> "none"]
  /\ held = [p \in Poppers |-> NoTask]
  /\ chosen = [w \in Workers |-> "none"]
  /\ ran = {}
  /\ closed = FALSE
  /\ done = {}
  /\ val = [t \in Tasks |-> "none"]
  /\ asked = [x \in Waiters |-> NoTask]
  /\ got = [x \in Waiters |-> "none"]
  /\ runner = [r \in Runners |-> "idle"]
  /\ closer = [c \in Closers |-> "idle"]
  /\ hook = "none"
  /\ nest!NestInit

At(p, at) == pc' = [pc EXCEPT ![p] = at]

-----------------------------------------------------------------------------
(* Push, as in Scheduler: guards, reservation, append, broadcast.  Errors,   *)
(* and the panic on a nest that is being assigned, are not told apart here.  *)
Goes(t, at) == push' = [push EXCEPT ![t] = at]

PushRefused(t) ==
  /\ push[t] = "idle"
  /\ ~running \/ ~created \/ nest!Canceled
  /\ Goes(t, "refused")
  /\ UNCHANGED <<tasks, pending, pool, results, calls, hook, nestVars>>

PushAdmitted(t) ==
  /\ push[t] = "idle"
  /\ running
  /\ ~(created /\ nest!Canceled)
  /\ Goes(t, "admitted")
  /\ UNCHANGED <<tasks, pending, pool, results, calls, hook, nestVars>>

Reserve(t) ==
  /\ push[t] = "admitted"
  /\ MaxPending < 0 \/ pending < MaxPending
  /\ pending' = pending + 1
  /\ Goes(t, "reserved")
  /\ UNCHANGED <<tasks, pool, results, calls, hook, nestVars>>

ReserveFull(t) ==
  /\ push[t] = "admitted"
  /\ MaxPending >= 0 /\ pending >= MaxPending
  /\ Goes(t, "refused")
  /\ UNCHANGED <<tasks, pending, pool, results, calls, hook, nestVars>>

Enqueue(t) ==
  /\ push[t] = "reserved"
  /\ tasks' = Append(tasks, t)
  /\ Goes(t, "appended")
  /\ UNCHANGED <<pending, pool, results, calls, hook, nestVars>>

WakeAll == pc' = [p \in Poppers |-> IF pc[p] = "asleep" THEN "idle" ELSE pc[p]]

PushBroadcast(t) ==
  /\ push[t] = "appended"
  /\ WakeAll
  /\ Goes(t, "ok")
  /\ UNCHANGED <<tasks, pending, held, chosen, ran, results, calls, hook,
                 nestVars>>

-----------------------------------------------------------------------------
(* A worker takes cond.L and tests Len and Canceled; it leaves, goes to the  *)
(* waiters, or pops - where the dismisser may have been quicker.             *)
LockFree == \A w \in Workers : pc[w] \notin LockPcs

WorkerExit(w) ==
  /\ pc[w] = "idle" /\ LockFree
  /\ nest!Canceled
  /\ nest!Return(w)
  /\ At(w, "exited")
  /\ UNCHANGED <<queue, held, chosen, ran, results, calls, hook>>

WorkerTest(w) ==
  /\ pc[w] = "idle" /\ LockFree
  /\ ~nest!Canceled
  /\ At(w, IF tasks = <<>> THEN "towait" ELSE "popping")
  /\ UNCHANGED <<queue, held, chosen, ran, results, calls, hook, nestVars>>

WorkerWait(w) ==
  /\ pc[w] = "towait"
  /\ At(w, "asleep")
  /\ UNCHANGED <<queue, held, chosen, ran, results, calls, hook, nestVars>>

Pick(s) == IF Mode = "FIFO" THEN Head(s) ELSE s[Len(s)]
Rest(s) == IF Mode = "FIFO" THEN Tail(s) ELSE SubSeq(s, 1, Len(s) - 1)

Pop(p) ==
  /\ tasks # <<>>
  /\ tasks' = Rest(tasks)
  /\ held' = [held EXCEPT ![p] = Pick(tasks)]
  /\ At(p, "popped")
  /\ UNCHANGED <<pending, push, chosen, ran, results, calls, hook, nestVars>>

WorkerPop(w) == pc[w] = "popping" /\ Pop(w)

WorkerPopNone(w) ==
  /\ pc[w] = "popping"
  /\ tasks = <<>>
  /\ At(w, "idle")
  /\ UNCHANGED <<queue, held, chosen, ran, results, calls, hook, nestVars>>

CountDown(p, at) ==
  /\ pc[p] = "popped"
  /\ pending' = pending - 1
  /\ At(p, at)
  /\ UNCHANGED <<tasks, push, held, chosen, ran, results, calls, hook,
                 nestVars>>

JobStart(w) == CountDown(w, "running")

(* fn.Do returns or panics, and finish is called either way.                 *)
JobEnd(w) ==
  /\ pc[w] = "running"
  /\ ran' = ran \cup {held[w]}
  /\ At(w, "finish")
  /\ UNCHANGED <<queue, held, chosen, results, calls, hook, nestVars>>

(* finish: the choice between the job's output and the cancellation, and the *)
(* close(r.done) that publishes it, are two steps.                           *)
FinishSelect(w) ==
  /\ pc[w] = "finish"
  /\ chosen' = [chosen EXCEPT ![w] = IF closed THEN "CANCELED" ELSE "out"]
  /\ At(w, "store")
  /\ UNCHANGED <<queue, held, ran, results, calls, hook, nestVars>>

FinishClose(w) ==
  /\ pc[w] = "store"
  /\ done' = done \cup {held[w]}
  /\ val' = [val EXCEPT ![held[w]] = chosen[w]]
  /\ held' = [held EXCEPT ![w] = NoTask]
  /\ chosen' = [chosen EXCEPT ![w] = "none"]
  /\ At(w, "idle")
  /\ UNCHANGED <<queue, ran, closed, asked, got, calls, hook, nestVars>>

-----------------------------------------------------------------------------
(* Result(ctx): a completed Result is answered at once.  Otherwise the call  *)
(* blocks until it is completed, the pool is closed, or its ctx ends; then   *)
(* the caller may call again.                                                *)
Answer(x, a) == got' = [got EXCEPT ![x] = a]

Ask(x, t) ==
  /\ got[x] = "none"
  /\ push[t] = "ok"
  /\ asked' = [asked EXCEPT ![x] = t]
  /\ Answer(x, IF t \in done THEN val[t] ELSE "waiting")
  /\ UNCHANGED <<queue, pool, closed, done, val, calls, hook, nestVars>>

AnswerDone(x) ==
  /\ got[x] = "waiting"
  /\ asked[x] \in done
  /\ Answer(x, val[asked[x]])
  /\ UNCHANGED <<queue, pool, closed, done, val, asked, calls, hook,
                 nestVars>>

AnswerClosedAnyway(x) ==    \* mutant: no second look at r.done
  /\ got[x] = "waiting"
  /\ closed
  /\ Answer(x, "CANCELED")
  /\ UNCHANGED <<queue, pool, closed, done, val, asked, calls, hook,
                 nestVars>>

AnswerClosed(x) ==
  /\ got[x] = "waiting"
  /\ closed /\ asked[x] \notin done
  /\ Answer(x, "CANCELED")
  /\ UNCHANGED <<queue, pool, closed, done, val, asked, calls, hook,
                 nestVars>>

AnswerCtx(x) ==
  /\ got[x] = "waiting"
  /\ Answer(x, "none")
  /\ asked' = [asked EXCEPT ![x] = NoTask]
  /\ UNCHANGED <<queue, pool, closed, done, val, calls, hook, nestVars>>
-----------------------------------------------------------------------------
(* Run, as in Scheduler: the first caller creates the nest and spawns.       *)
RunEnter(r) ==
  /\ runner[r] = "idle"
  /\ running' = TRUE
  /\ runner' = [runner EXCEPT ![r] = IF running THEN "rerun" ELSE "creating"]
  /\ UNCHANGED <<queue, pool, results, created, closer, hook, nestVars>>

RunCreate(r) ==
  /\ runner[r] = "creating"
  /\ created' = TRUE
  /\ runner' = [runner EXCEPT ![r] = "spawning"]
  /\ UNCHANGED <<queue, pool, results, running, closer, hook, nestVars>>

RunSpawn(r) ==
  /\ runner[r] = "spawning"
  /\ \E w \in Workers : pc[w] = "none" /\ nest!Spawn(w) /\ At(w, "idle")
  /\ UNCHANGED <<queue, held, chosen, ran, results, calls, hook>>

RunReturn(r) ==
  /\ runner[r] = "spawning"
  /\ \/ /\ \A w \in Workers : pc[w] # "none"
        /\ runner' = [runner EXCEPT ![r] = "ok"]
        /\ UNCHANGED nestVars
     \/ /\ \E w \in Workers : pc[w] = "none"
        /\ nest!SpawnRefused
        /\ runner' = [runner EXCEPT ![r] = "failed"]
  /\ UNCHANGED <<queue, pool, results, running, created, closer, hook>>

ParentCancel ==
  /\ running /\ ~dispatched
  /\ nest!InheritedDone
  /\ UNCHANGED <<queue, pool, results, calls, hook>>

WatcherCancel ==
  /\ dispatched
  /\ nest!BeginCancel({"parent"})
  /\ UNCHANGED <<queue, pool, results, calls, hook>>

(* Close, as in Scheduler: "early" found no nest and returned nil, or found  *)
(* one that was being assigned and panicked.  It is also the end of a Close  *)
(* whose Store of its cause panics, because the dismissal has stored the     *)
(* parent's, which package codex may give another concrete type.             *)
Closing(c, at) == closer' = [closer EXCEPT ![c] = at]

CloseEnter(c) ==
  /\ closer[c] = "idle"
  /\ \/ created /\ Closing(c, "closing")
     \/ ~created /\ Closing(c, "early")
     \/ cause = {"parent"} /\ pc[Dismisser] # "none" /\ Closing(c, "early")
  /\ UNCHANGED <<queue, pool, results, running, created, runner, hook,
                 nestVars>>

CloseCancel(c) ==
  /\ closer[c] = "closing"
  /\ nest!BeginCancel({"closed"})
  /\ UNCHANGED <<queue, pool, results, calls, hook>>

CloseReturn(c) ==
  /\ closer[c] = "closing"
  /\ phase = "done"
  /\ Closing(c, IF timedOut THEN "timeout" ELSE "nil")
  /\ UNCHANGED <<queue, pool, results, running, created, runner, hook,
                 nestVars>>

-----------------------------------------------------------------------------
(* The before hook: dismiss closes r.closed and fails what it can pop, then  *)
(* the broadcasting goroutine is started and the nest goes on.  A Store of   *)
(* the cause that panics here, in the watcher's goroutine, ends the program  *)
(* and is not modelled.                                                      *)
DismissStartOpen ==         \* mutant: dismiss does not close r.closed
  /\ phase = "before" /\ pc[Dismisser] = "none"
  /\ At(Dismisser, "idle")
  /\ UNCHANGED <<queue, held, chosen, ran, results, calls, hook, nestVars>>

DismissStart ==
  /\ phase = "before" /\ pc[Dismisser] = "none"
  /\ closed' = TRUE
  /\ At(Dismisser, "idle")
  /\ UNCHANGED <<queue, held, chosen, ran, done, val, asked, got, calls,
                 hook, nestVars>>

DismissPop == pc[Dismisser] = "idle" /\ Pop(Dismisser)

DismissUncounted ==         \* mutant: dismiss forgets pending.Add(-1)
  /\ pc[Dismisser] = "popped"
  /\ At(Dismisser, "finish")
  /\ UNCHANGED <<queue, held, chosen, ran, results, calls, hook, nestVars>>

DismissCountDown == CountDown(Dismisser, "finish")

DismissFailLost ==          \* mutant: the popped Result is not completed
  /\ pc[Dismisser] = "finish"
  /\ held' = [held EXCEPT ![Dismisser] = NoTask]
  /\ At(Dismisser, "idle")
  /\ UNCHANGED <<queue, chosen, ran, results, calls, hook, nestVars>>

DismissFail ==
  /\ pc[Dismisser] = "finish"
  /\ done' = done \cup {held[Dismisser]}
  /\ val' = [val EXCEPT ![held[Dismisser]] = "CANCELED"]
  /\ held' = [held EXCEPT ![Dismisser] = NoTask]
  /\ At(Dismisser, "idle")
  /\ UNCHANGED <<queue, chosen, ran, closed, asked, got, calls, hook,
                 nestVars>>

DismissEnd ==
  /\ pc[Dismisser] = "idle"
  /\ tasks = <<>>
  /\ At(Dismisser, "exited")
  /\ hook' = "live"
  /\ nest!CancelDispatched
  /\ UNCHANGED <<queue, held, chosen, ran, results, calls>>

HookBroadcast ==
  /\ hook = "live"
  /\ WakeAll
  /\ UNCHANGED <<queue, held, chosen, ran, results, calls, hook, nestVars>>

HookTimeout ==
  /\ HasTimeout /\ hook = "live"
  /\ hook' = "expired"
  /\ UNCHANGED <<queue, pool, results, calls, nestVars>>

WaitWorkers ==
  /\ nest!Drained
  /\ UNCHANGED <<queue, pool, results, calls, hook>>

WaitExpires ==
  /\ nest!Expire
  /\ UNCHANGED <<queue, pool, results, calls, hook>>

NestDone ==
  /\ nest!CloseDone
  /\ hook' = "none"
  /\ UNCHANGED <<queue, pool, results, calls>>

-----------------------------------------------------------------------------
PushStep(t) == Reserve(t) \/ ReserveFull(t) \/ Enqueue(t) \/ PushBroadcast(t)

WorkerLocked(w) == WorkerExit(w) \/ WorkerTest(w)
WorkerStep(w) == \/ WorkerWait(w) \/ WorkerPop(w) \/ WorkerPopNone(w)
                 \/ JobStart(w) \/ FinishSelect(w) \/ FinishClose(w)

AnswerStep(x) == AnswerDone(x) \/ AnswerClosed(x)

RunStep(r) == RunCreate(r) \/ RunSpawn(r) \/ RunReturn(r)

CloseStep(c) == CloseCancel(c) \/ CloseReturn(c)

DismissStep == \/ DismissStart \/ DismissPop \/ DismissCountDown
               \/ DismissFail \/ DismissEnd

NestStep == WatcherCancel \/ DismissStep \/ WaitWorkers \/ NestDone

Next ==
  \/ \E t \in Tasks : PushRefused(t) \/ PushAdmitted(t) \/ PushStep(t)
  \/ \E w \in Workers : WorkerLocked(w) \/ WorkerStep(w) \/ JobEnd(w)
  \/ \E x \in Waiters : AnswerStep(x) \/ AnswerCtx(x) \/ \E t \in Tasks : Ask(x, t)
  \/ \E r \in Runners : RunEnter(r) \/ RunStep(r)
  \/ \E c \in Closers : CloseEnter(c) \/ CloseStep(c)
  \/ ParentCancel \/ NestStep \/ WaitExpires \/ HookBroadcast \/ HookTimeout

Spec == Init /\ [][Next]_vars

(* The callers of Result and the goroutine that cancels run when they can.   *)
(* Nothing else is needed: workers, jobs, Push and Run may stop for ever.    *)
Fairness == (\A x \in Waiters : WF_vars(AnswerStep(x))) /\ WF_vars(NestStep)

FairSpec == Spec /\ Fairness

-----------------------------------------------------------------------------
TypeOK ==
  /\ running \in BOOLEAN
  /\ created \in BOOLEAN
  /\ tasks \in Seq(Tasks)
  /\ pending \in Int
  /\ push \in [Tasks -> PushPcs]
  /\ pc \in [Poppers -> PopperPcs]
  /\ held \in [Poppers -> Tasks \cup {NoTask}]
  /\ chosen \in [Workers -> Answers \cup {"none"}]
  /\ ran \subseteq Tasks
  /\ closed \in BOOLEAN
  /\ done \subseteq Tasks
  /\ val \in [Tasks -> Answers \cup {"none"}]
  /\ asked \in [Waiters -> Tasks \cup {NoTask}]
  /\ got \in [Waiters -> Answers \cup {"none", "waiting"}]
  /\ runner \in [Runners -> RunnerPcs]
  /\ closer \in [Closers -> CloserPcs]
  /\ hook \in {"none", "live", "expired"}
  /\ phase \in nest!Phases
  /\ wg \subseteq Workers
  /\ dispatched \in BOOLEAN
  /\ cause \in {{}, {"closed"}, {"parent"}}
  /\ timedOut \in BOOLEAN

(* The counter is ahead of the queue by the calls in the middle, those of    *)
(* the dismisser, which takes no lock, included; it never goes below zero.   *)
Reserved == {t \in Tasks : push[t] = "reserved"}
Popped   == {p \in Poppers : pc[p] = "popped"}

PendingExact ==
  pending = Len(tasks) + Cardinality(Reserved) + Cardinality(Popped)

(* "Prefer an already-completed Result over a concurrent Close" (line 62):   *)
(* once a Result holds its job's output, no caller - not one that was        *)
(* waiting when the pool was closed either - is told that it was canceled.   *)
OutIsFinal ==
  [][\A x \in Waiters :
       got'[x] = "CANCELED" /\ got[x] # "CANCELED" => val[asked'[x]] # "out"]_vars

(* "On Close, all unfinished Results are failed immediately so waiters do    *)
(* not block" (doc.go:16-17): with jobs that never return, and no timeout.   *)
NobodyHangs ==
  \A x \in Waiters : (got[x] = "waiting" /\ nest!Canceled) ~> (got[x] # "waiting")

(* The scheduler is a JobPool: though workers and dismisser pop one queue,   *)
(* and the dismisser without cond.L, a task is run or dismissed, once, and   *)
(* one that is dismissed is not run.                                         *)
life == IF phase = "open" THEN "open" ELSE IF phase = "done" THEN "closed" ELSE "closing"
InHand == {held[w] : w \in {v \in Workers : pc[v] \in {"popped", "running"}}}
place == [t \in Tasks |->
            IF t \in InHand THEN "run"
            ELSE IF t \in ran THEN "done"
            ELSE IF t \in done \/ held[Dismisser] = t THEN "left"
            ELSE IF \E i \in DOMAIN tasks : tasks[i] = t THEN "in" ELSE "out"]
jobPool == INSTANCE JobPool WITH Slots <- Cardinality(Workers),
                                 Limit <- MaxPending, late <- timedOut
Contract == jobPool!PoolSpec
=============================================================================
