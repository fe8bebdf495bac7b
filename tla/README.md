# A TLA+ development of concx

concx is a Go library of concurrency building blocks. This directory holds
TLA+ specifications of its stateful parts, TLC instances that check them, and proofs
of their main properties that TLAPS checks. Source references are to `src/`.

| layer | package | what it is |
|---|---|---|
| 0 | `pkg/nest` | a context that owns goroutines and shuts them down once |
| 0 | `pkg/chanx` | a cancelable channel (observer) and its fan-out (subject) |
| 1 | `pkg/schedx` | a bounded worker pool, without and with a Result per Push; built on nest |
| 2 | `pkg/orch/pipe` | typed stages between admission and Result; built on nest, chanx and schedx |
| 2 | `pkg/orch/cron` | a timer loop that pushes into a scheduler; built on nest and schedx |
| 2 | `pkg/orch/piper` | function composition, no state |

## 1. Inventory

**nest** (`nest.go`). State: the mutex, `canceled`, the derived context, the
WaitGroup, `err`, `done`. Operations: `Spawn`, `Cancel`, `Canceled`, `Done`,
`Err`, and a watcher goroutine that cancels when the parent ends. `Cancel` holds
the mutex through both hooks and the wait. Hard: Spawn against Cancel, several
cancelers, the timeout, calls from the nest's own goroutines. Correct when: one
cause wins and stays; a drained nest has no goroutine left and takes none; every
`Cancel` returns; the watcher ends with the nest.

**schedx scheduler** (`scheduler.go`). State: the queue and the counter `pending`,
each atomic on its own; the condition variable; `running`; the nest. Operations:
`Push`, `Run`, `Close`, `Pending`, the worker loop, the before hook's
broadcaster, the after hook's exit callback. Hard: Push takes no lock of the
pool, `s.nest` is assigned after `running`, and workers sleep in `Wait`. Correct
when: the counter is exact, the limit holds, an accepted item is run once or
reported, Close waits.

**schedx retrievable scheduler** (`retrievable_scheduler.go`). The same pool with
a Result per item, completed by the worker or by `dismiss` in the canceling
goroutine. Hard: three poppers and completers, and waiters that may be answered
from `closed` before the Result is completed. Correct when: each item is settled
once, an output once there is what readers get, no reader hangs.

**chanx observer** (`observer.go`). State: the lazily made done channel, `err`, two
unbuffered channels, a pump goroutine. Operations: `Send`, `Value`, `Done`,
`CancelCause`. Correct when: there is one signal, closed with the cause; nothing
is lost but what the pump holds when it stops; cancellation frees everybody.

**chanx subject** (`subject.go`). State: the set of subscribers, `err`. Operations:
`Send` (over a snapshot), `Subscribe` (with a goroutine that forgets),
`CancelCause`. Correct when: no subscriber escapes cancellation, none sees a hole,
slow ones do not outlive the cancellation as blockers.

**orch/pipe pipeline** (`pipe.go`, `ticket.go`, `orch.go`). State: `lifetime`,
`stopping`, `p.closed`, `p.nest`, `p.sche`, the tickets, the stages. A worker of the
scheduler sends the item into the first link and waits on its ticket; a goroutine
per stage moves it on; the finale completes the ticket. `shutdown` runs once, in
Close or in the nest's before hook. Hard: two owners of shutdown, Run without
exclusion against it, dropped flights. Correct when: items go through the stages
once and in order, every accepted Result completes, Close waits.

**orch/pipe nodes** (`node.go`). A SimpleNode runs one job per item. A ParallelNode
runs all its jobs on the item in a nest made for it. State of an execution: `fail`,
`left`, `res`, the nest. Hard: the first failure cancels jobs that are running or
still being started, their own failures race with it, and `res` is shared without a
lock. Correct when: the summary sees all outputs, the error is the cause and
not an echo of the cancellation, the execution ends.

**orch/cron** (`cron.go`). State: the nest with the loop, the scheduler, the counter
`running`, `closed`, `done`. Operations: `newCron`, the loop (`Next`, timer,
`trigger`), the wrapped job, `Close`, `Done`. Hard: the context's end reaches
the loop, the two nests and the watcher that calls Close separately; a job may call
Close. Correct when: Done means that loop and jobs are over, the overlap policy
drops no tick without reason, Done does close.

**orch/piper**, options, error codes, generated code: see section 8.

Interaction: schedx, pipe and cron call `nest.Spawn/Cancel/Err` and run inside its
hooks; pipe calls `observer.Send/CancelCause`, reads `Value`, and calls
`RetrievableScheduler.Push/Close`; cron calls `Scheduler.Run/Push/Close`; the subject
calls its observers' `Send`, `CancelCause` and waits on their `Done`.

## 2. Modules

| module | models | uses |
|---|---|---|
| `NestLifecycle` | what a user of a nest relies on (abstract) | |
| `Nest` | nest.go; `Contract` is its refinement of NestLifecycle | NestLifecycle |
| `JobPool` | what a user of a scheduler relies on (abstract) | |
| `Scheduler` | scheduler.go; `Contract` is its refinement of JobPool | NestLifecycle, JobPool |
| `Retrievable` | retrievable_scheduler.go; `Contract` likewise | NestLifecycle, JobPool |
| `ObserverContract` | what a user of an observer relies on (abstract) | |
| `Observer` | observer.go; `Contract` is its refinement of ObserverContract | ObserverContract |
| `Subject` | subject.go over several observers | ObserverContract |
| `Pipeline` | pipe.go, ticket.go, SimpleNode | NestLifecycle |
| `ParallelNode` | ParallelNode.execute | NestLifecycle |
| `Cron` | cron.go | NestLifecycle, JobPool |
| `MC...` | the constants of the runs | the module they name |
| `...Proofs` | theorems about the module they name | that module |

The composition is by contract. Whoever owns a nest takes the actions of
`NestLifecycle` as the steps of it, and `Nest` is shown to implement that module.
`Cron` takes those of `JobPool` for its scheduler, and `Scheduler` and `Retrievable`
are shown to implement it. `Subject` shows that each of its steps is a step of every
observer's contract, and `Observer` implements that contract. TLC checks each of
these refinements on an instance, with the fairness a contract has; TLAPS proves
their safety part for all values of the constants. A whole run of `ParallelNode` is one `JobOk` or
`JobFail` of a stage in `Pipeline`.

JobPool promises less than the documentation does: a task that got in may be
overlooked for ever, or be appended behind the end and stay. That is what the code
keeps (section 4), and `Cron` is correct relative to it.

### From code to actions

Each variable that says where something is (`pc`, `push`, `runner`, `closer`, `run`,
`shut`, `drive`, `pump`, `node`, `job`, `loop`, `new`) is the program counter of one
call or goroutine. A step is what that goroutine does between two accesses that another
goroutine can interleave with; a critical section in which nothing blocks is one
step. So:

- `Nest`: the mutex is a variable only because the effective `Cancel` keeps it
  across steps. Errors are sets: nil is `{}` and `errors.Join` is union.
- `Scheduler`, `Retrievable`: the counter's compare-and-swap, the append and the
  broadcast of Push are three steps. A worker's test of the queue and its `Wait`
  are two steps, both under `cond.L`; `LockFree` says who may enter.
  `Pick` and `Rest` are FIFO or LIFO. `s.nest` is read unsynchronised while Run
  assigns it; a reader sees it, does not, or panics (`created`). `hook` is the
  broadcasting goroutine of the before hook, which ends with the shutdown or with
  its own timer. `place`, the place of a task in JobPool, is derived from the queue,
  the workers' hands and the counters of runs.
- `Retrievable`: `finish` is two steps, the choice and the `close(done)`; `Result`
  asks `done` first and then selects. All causes a Result can be failed with carry
  the code SCHEDULER_CANCELED and are one value; the errors of Push are one too.
  `r.cause` is an atomic.Value, whose `Store` panics on an error of another concrete
  type than the one it holds: a Close behind the parent's end may so end as `"early"`.
- `Observer`: the read of `o.done` without the lock and the locked creation are two
  steps. A done channel is named by the goroutine that made it. A rendezvous on an
  unbuffered channel is one step of the two.
- `Subject`: `s.mu` is held across `CancelCause`'s walk over the subscribers
  (`cascading`), which is therefore many steps; Send's walk is outside the lock.
- `Pipeline`: `built` tells how far Run's assignments have come, as Close and Push
  read `p.closed`, `p.sche` and `p.nest` without its mutex. Links with index below `cut`
  are canceled, in the builders' order. The scheduler is taken at its documented
  contract: an accepted item is run by a worker that is free, a cancellation fails the
  queued ones at once and overrides the outcome of the running ones. An item appended
  behind the dismissal reads as canceled (`PushLate`); it is driven all the same when the
  one worker that was past its `Canceled` test pops it (`straggler`, `TakeLate`). That a nil Close leaves no worker, and no
  Result open but of such items, is the theorem `CloseHasSettled` of `Retrievable`.
  `Scheduler` shows where the code falls short of the contract (`EveryPushRuns`);
  `NeverStuck` is relative to it. `res` is what
  `Result` returns. A panicking job is a failing one, as `execute` recovers.
  An aborting Run clears `p.nest`: under Close, which then ends as `"unjoined"` or
  `"panic"`, or between the two reads of it in Push (`"looking"`), which then panics.
- `ParallelNode`: the goroutines that call `Cancel` are the set `cancels`, named by
  the job that started them, by `"last"` (the count has reached zero) or by
  `"refused"` (a Spawn that failed). `fail` is the kind of error kept: a job's own, an
  echo of the cancellation, or the refusal's. Whether `CompareAndSwap` panics on
  errors of different concrete types depends on package codex and on the jobs; both
  are allowed, for the refused Spawn in the stage's goroutine, where it is recovered,
  and for a second failure in a job's, where it ends the program. Either is `"panicked"`; the jobs' steps behind
  it are harmless extra behaviour.
- `Cron`: what times the schedule has is left open but for their number. `trigger`
  reads the counter, tests the admission and pushes in three steps; the wrapped job
  raises and lowers the counter in steps of its own, inside the worker's. The
  caller's context and the dispatched one end together (`dispatched`). The
  admission limit counts, as the code does, popped jobs that are not yet started.

## 3. Runs

Every counter in the models is bounded by the sets of callers: each call is made
at most once per element, so no state constraint is used. `Rounds` bounds the
sends of `Subject`, `N` the ticks of `Cron`. `CHECK_DEADLOCK FALSE` is set
everywhere because callers need not call and goroutines end: the systems stop.

| run | instance | what it shows |
|---|---|---|
| `nest` | 2 callers (one cancels with nil), 2 workers of which one calls the nest, a timer | drain, first cause, stable error, the contract; shutdown ends, Cancels return, the watcher ends |
| `sched` | 2 tasks, room for 1, 2 workers, Run, Close, timers, FIFO | exact counter, limit, Close waits, the contract JobPool; Close returns, sleeping workers are woken |
| `retr` | 2 tasks, room for 1, 1 worker, the dismisser, 2 callers of Result, Close, timers, LIFO | exact counter, the contract JobPool, an output is never answered as canceled; no caller hangs after a cancel |
| `obs` | 3 Sends, the pump, 1 waiter, 2 causes | one signal, nothing vanishes, the contract; cancellation frees, values arrive |
| `subj` | 2 observers, 2 senders with 2 values together, 2 causes | no escape from the cancellation, no hole, contracts kept; senders freed, canceled forgotten, values delivered |
| `pipe_safety` | 2 items, room for 1, 2 workers, 2 stages, Close | once and in order, never stuck, Close waits |
| `pipe_live` | 1 item, 1 worker, 1 stage, Close, timers | accepted items are settled after a shutdown, Close returns |
| `fan` | 3 jobs | the summary is complete, the blame is original; fails fast, answers |
| `cron` | 3 ticks, 2 slots, room for 1, OverlapSkip, a user, the watcher and a job that call Close, timers | Done means quiet, skips are justified; Done closes |

Why these bounds: the races are between two or three parties. Two pushers make
the counter's compare-and-swap contend, a limit below the number of tasks makes
admission refuse, two workers make one sleep while the other runs, two cancelers
make one lose, two links in a row (three with the finale's) make a stage block on
the next. Three jobs let one fail, one echo and one succeed or not yet be started;
with three ticks over two slots all slots are busy when a tick comes. A further one
of a kind adds another party to the same race. In `retr` the second
party at the queue is the dismisser; two workers of one pool are in `sched`. `pipe_live`
has one stage, where the builders make at least two, because the property tableau
multiplies the states: the stage and the finale are the two pumps in a row that its
properties need, and what blocks a stage on the next stage is in `pipe_safety`.
Symmetry is used in `pipe_safety` only, on sets no definition tells apart, and never
with liveness. `TypeOK` of every module is proved (section 5), and so is
not checked in these runs.

### Fairness

A specification assumes only what the scheduling of goroutines gives:

- Weak fairness for every step of a goroutine that is runnable: the Go scheduler is
  preemptive and runs every runnable goroutine. (`Retrievable` needs it
  only for the callers of Result and the canceling goroutine; in `Pipeline` it is one
  condition for each stage's goroutine, `PumpStep`.)
- Strong fairness for a worker's acquisition of `cond.L`: sync.Mutex enters
  starvation mode after a millisecond and then hands over in FIFO order.
- Strong fairness for a Send that a pump accepts: waiters of a Go channel are served
  in FIFO order.
- Once the timer of a before hook has fired, the timer of the wait fires too: both
  have the duration `closeTimeout`, and the wait's is armed after the hook's.
- In `Cron`, the scheduler's stop goes on to its end once its jobs have returned or its
  timeout has fired, which is `CloseReturns` of `Scheduler`; of its starting
  a job nothing is assumed.

Nothing is assumed of the outside: nobody need push, close, cancel, read or end the
parent, no job need return and no timer fire. A property that needs one of these
says so as its hypothesis, so that one run covers all of them:

| hypothesis | in | means |
|---|---|---|
| `WaitEnds` | Nest | the timer fires; or the workers return and none is in a call of the nest |
| `JobsReturn` | Scheduler, Pipeline, ParallelNode, Cron | each job that runs returns some time |
| `JobsHeedTheirContext` | ParallelNode | each job returns once its context is done |
| `Expires` | Scheduler, Pipeline, Cron | the timer of the wait fires if the wait lasts |
| `IsRead`, `AllAreRead` | Observer, Subject | somebody reads each Value until it closes |

`CloseReturns`, for one, holds under `JobsReturn` with no help of a timer, and under
`Expires` with jobs that hang. `WaitEnds` excludes a worker inside `Spawn` or `Cancel`
because that worker blocks on the mutex whose holder waits for it: without a
timeout the nest is then stuck for ever. `DoneCloses` of `Cron` excludes, without a
timeout, a job that waits in the Close it has called, for the same reason.

## 4. Where the code and its texts differ

Each of these is one run that TLC ends with a counterexample.

| run | property | what happens |
|---|---|---|
| `sched_lost_wakeup` | `EveryPushRuns` | append and broadcast fall between a worker's test and its Wait: the item stays |
| `sched_exit_callback` | `EveryPushSettled` | an item accepted behind the callback's snapshot is neither run nor reported |
| `pipe_run_panics` | `RunAsserts` | a shutdown during Run makes Run's last assertion panic |

The models contain, and no run isolates, some others:

- the after hook and `Done` of a nest whose timer fired come while goroutines run,
  where `WithAfterCloseFunc` says "after all goroutines exited";
- a `Close` between the two assignments of a scheduler's `Run` finds no nest, closes
  nothing and returns nil (`"lost"`);
- the lost wakeup of the scheduler is in `Retrievable` too;
- of two callers of one Result (`retrievable_scheduler.go:36`) one can be told that it
  was canceled and a later one get the output: `finish` chose the output before the
  cancellation and stores it after. The other order is excluded (`OutIsFinal`);
- an item that is queued when a pipeline is closed gets SCHEDULER_CANCELED, where the
  guide of the package says PIPELINE_CANCELED;
- `Cron.Close` "waits for active jobs to exit" (`cron.go:21`), but one that finds
  another Close under way, the watcher's too, returns nil at once;
- OverlapSkip "drops the new tick if all parallel slots for the job are busy"
  (`option.go:17`), but a slot is busy before the wrapped job has counted itself in and
  after it has counted itself out: in between a tick is pushed. The converse,
  that no tick is dropped with a free slot, holds (`SkipIsJustified`);
- `WithCloseTimeout` says that its default is 0, no timeout; `SetDefault`, which runs
  before the options, makes it three seconds (`schedx/option.go:35`).

## 5. What is proved

For every value of the constants, from the named assumptions on them alone (sets
disjoint, `NoTask` outside `Tasks`, `MaxPending` an integer, finite sets where a
cardinality is taken). Each module has `TypeCorrect`, and beyond it:

- `NestProofs`: `Graceful`, `ErrFinal`, `ErrTells`, `Implements`.
  `GracefulDrain` is not inductive: that no goroutine is added after the wait
  follows from who holds the mutex. `LockInv` says the goroutine inside the effective
  Cancel, and nobody else, holds it, and that a free mutex means open or done;
  `DrainInv` says the group is empty past the wait unless that was given up. Their
  conjunction with the types is the inductive invariant. `ErrTells` adds `CauseInv`:
  the watcher wakes only for the parent or after a Cancel. `Implements` maps every
  step to a step of NestLifecycle or a stutter, under the invariant.
- `SchedulerProofs`: `PendingIsExact`, `QueueIsBounded`,
  `CloseHasWaited`. `CountInv` keeps the counter equal to the queue plus the calls in
  the middle and below the limit; the lemmas `ReserveCounts` ... `JobStartCounts`
  say how each step moves the two cardinalities. `CloseInv` relates the workers to the
  nest's group and a nil Close to a nest that is done and drained. `Implements` maps
  every step to a step of JobPool or a stutter. The place of a task is derived from
  the queue, the hands and the counters of runs; that a step moves one task and moves
  it as JobPool allows needs `PlaceInv`: the queue has no task twice and none that is
  in a hand or was run, a hand has its task to itself, and the exit callback has
  reported nothing before the nest is done. JobPool's limit on the tasks that wait
  needs the counting above.
- `RetrievableProofs`: `PendingIsExact`, by the same counting with the dismisser as one
  more popper, and `OutputStaysFinal`. Here the types need help: `HandInv` says
  that whoever is past its pop has a task in hand, `OutInv` that a Result with an
  output is completed, `WaitInv` that who waits waits on a task. `Implements` adds
  to the queue's part of `PlaceInv` who owns a Result (`OwnInv`): a popper that holds
  a task is the only one, and the task is not completed. `ResultsAreFinal` is the
  action property this gives: `close(r.done)` never runs twice and a stored value never
  changes. `CloseHasSettled` adds that no task gets lost on its way (`AccountInv`),
  that the dismisser comes before the wait (`HookInv`) and that nil needs the wait to
  have ended in time (`NilInv`). The last two state no property of a run.
- `ObserverProofs`: `OneChannel`, by `ChanInv`: at most one channel,
  everybody who has one has that one, closed from the step that records the cause;
  `NothingIsLost`, by `LineInv`, which allows one value to be missing once the pump has
  stopped and before that none but the one it holds, and for the order by `OrderStep`:
  a Send is taken only once everything taken before was received, and what was received
  grows at its end only; `KeepsContract`, the safety part of the
  refinement.
- `SubjectProofs`: `CancelReachesAll`, by `ReachInv`: who is subscribed is registered
  until the cancellation, then in its walk until it is canceled itself; `WalkInv` says
  that nobody registers meanwhile. `KeepsContracts` maps every step, for each
  observer, to a step of ObserverContract or a stutter; it needs `SentInv`, that a
  value in flight has been sent. `NoHoles` is far from inductive: whether a Send
  is still to reach an observer, or is blocked on it, decides what the observer may
  lack. `UpToInv` says that from any value it saw of a sender on an observer has all,
  but perhaps the last, which is then due, until it is canceled; `HoleInv` that what
  it has stays without a hole afterwards. `OrderInv` is the order, `BoundInv` that
  nothing is seen before it is sent nor while it is due, `CopyInv` that a snapshot has
  an observer once, `KnownInv` that only subscribers are in one.
- `ParallelNodeProofs`: `SummaryIsComplete`, by four facts: the nest's group holds every
  job that was started and has not left (`GroupInv`) and is empty past the wait
  (`DrainInv`); a node past its loop with no failure has started them all
  (`StartedInv`); a job past its return with no failure kept has stored its output
  (`StoredInv`). `BlameIsTheirs` needs more, as nobody else may have begun the
  cancellation: `LeftInv` says that `left` counts the jobs that have not been counted
  down, so that the last success means that every job succeeded, and
  `BlameInv` that a nest is canceled, but by the pipeline, only once a job's own error
  is kept or every job has succeeded.
- `CronProofs`: `DoneIsQuiet`, by `CloseInv` (how far each Close has come tells
  what has ended), `GroupInv` and `SlotInv`; `SkipsAreJustified`, by `CountInv`: the
  counter is the number of jobs that are in, each of which is on a slot.
- `PipelineProofs`: `CloseHasWaited`. `WaitInv` says that a nil Close is past the nest's
  wait for the stages; `ShutInv` and `RunInv` that a shutdown either came before the
  pipeline was published, and nothing was ever accepted, or has waited for its
  scheduler; `AcceptInv` that what was accepted is queued, in a worker's hands or
  settled. `HoldInv`, `DriveInv` and `PoolInv` keep these inductive; the last says
  that what is queued once the scheduler goes down is settled already, and that there
  is a straggler only then. `ItemsPassOnce`
  follows an item: where it is tells which stages it has passed (`LineInv`), it is in
  one place (`SpotInv`), its ticket tells how it left (`TicketInv`), and until a worker
  has sent it, it is queued once or in one hand and nowhere else (`EntryInv`);
  without the last an item could be driven in twice. `SomebodyGoesOn` is the absence
  of a deadlock between links, stages and workers. `QuietInv` says what holds while
  nothing is canceled and `LostInv` that an item a worker waits for is then in the
  line; the argument takes the item furthest down the line, which nothing is in front
  of (`FurthestLink`, by well-founded induction on the links).

Every invariant, every action property and the safety part of every refinement that a
passing run checks is so a theorem. Only model-checked: liveness, which includes the
fairness in the observer's contract, as the prover handles neither fairness nor
ENABLED. `NeverStuck` says what can go on by the guards of the steps (`WorkerFlows`,
`PumpFlows`) and not by ENABLED, and so can be proved; it supposes a worker, since
nothing keeps a caller from building a scheduler without one.

## 6. Mutants

Beside the definition it changes, each module keeps the mistakes a property must
catch, marked `mutant`: a missing wait, a missed completion, a swapped order. No
specification uses them. `PROJECT.json` pairs each with the property it breaks.

## 7. Plan

Done, in this order: NestLifecycle, Nest, Scheduler, Retrievable, ObserverContract,
Observer, Subject, Pipeline, JobPool, ParallelNode, Cron, each with its proofs.

Then the rest of the safety properties as theorems: `NothingVanishes`, `NoGap`, `Once`,
`NeverStuck`, and `Contract` of the two schedulers.

Next: the safety core of the liveness that is only model-checked, in the way of
`NeverStuck`: that a shutdown of Scheduler, ParallelNode or Cron that is not over has
a step to take once its jobs have returned; `Cron` under OverlapQueue and without a
timeout as an instance of its own.

## 8. Not modelled

- `orch/piper`: the composition of two to eight functions that stops at the first
  error. It has no state and no concurrency; a model would be the function itself.
- The builders' own calls (`orch.go`): single-threaded, checked by assertions; what they
  leave is Pipeline's initial state.
- How options are set; error codes and the predicates on them; generated message
  tables and `internal/cmd/gen`.
- The parsing of a schedule and the times it has (`schedule.go` hands both to a
  library).
- The helper goroutine that waits on the WaitGroup (`nest.go:132`): after a timeout it
  lasts until the last of the nest's goroutines has returned.
- A panic of `r.cause.Store` in the before hook or in the scheduler's Run: it ends the
  nest's watcher and the program with it, or the Run call.
- A Subscriber of another type that calls back into its Subject; a callback of the
  scheduler that panics (the process ends); contexts' values and deadlines.
