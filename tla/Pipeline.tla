------------------------------ MODULE Pipeline -------------------------------
(***************************************************************************)
(* pkg/orch/pipe: Push hands an item to the admission scheduler; a worker  *)
(* of it drives the item into the first stage and waits on its ticket,     *)
(* while one goroutine per stage pulls, transforms and sends on, and the   *)
(* finale completes the ticket.  Shutdown runs once, in Close or in the    *)
(* before hook of the stages' nest, whoever comes first.                   *)
(*                                                                         *)
(* The parts are composed by their contracts: the stages' goroutines live  *)
(* in a NestLifecycle; the channels between the stages are observers that  *)
(* keep ObserverContract; the scheduler runs each accepted item on one of  *)
(* its workers and fails the queued ones when it is canceled (module       *)
(* Retrievable models its code).                                           *)
(***************************************************************************)
EXTENDS Integers, Sequences, FiniteSets

CONSTANTS Items,        \* the values pushed
          N,            \* the number of stages
          Workers,      \* WithParallel: the scheduler's workers
          MaxPending,   \* WithMaxPending
          Closers,      \* goroutines that call Close
          HasTimeout,   \* WithShutdownTimeout is positive
          NoItem

ASSUME PipelineAssumption ==
  /\ N \in Nat \ {0}
  /\ MaxPending \in Int
  /\ HasTimeout \in BOOLEAN
  /\ NoItem \notin Items

Pumps == 1..(N + 1)     \* pump k runs stage k; pump N + 1 is the finale
Links == 0..N           \* link k leads from pump k to pump k + 1; 0 is origin

VARIABLES lifetime,     \* p.lifetime
          stopping,     \* p.stopping
          built,        \* how much Run has assigned: p.closed, p.sche; p.nest
          run,          \* where the Run call is
          shut,         \* where the one shutdown is
          closed,       \* p.closed is closed
          parentDone,   \* the context given to Run is done
          closer,       \* where each Close call is
          push,         \* where each Push call is, or what it returned
          queue, pool, straggler, work, drive, outcome,     \* the scheduler
          res,          \* the item's Result
          ticket,       \* the item's ticket
          slot, cut, stopped,   \* the links: links k < cut are canceled
          pump, hold,   \* where each pump is, and its item
          passed,       \* the items whose job at stage k succeeded
          phase, wg, dispatched, cause, timedOut        \* the stages' nest

nest == INSTANCE NestLifecycle WITH Goroutines <- Pumps,
                                    Causes <- {{"closed"}, {"parent"}, {"abort"}}

nestVars == <<phase, wg, dispatched, cause, timedOut>>
flags == <<lifetime, stopping, built, run, closer, parentDone>>
down == <<shut, closed, cut>>
sche == <<queue, pool, straggler, work, drive, outcome, res>>
stages == <<ticket, slot, stopped, pump, hold, passed>>
vars == <<flags, down, push, sche, stages, nestVars>>

-----------------------------------------------------------------------------
Lifetimes == {"Built", "Running", "Closed"}
RunPcs == {"idle", "begun", "spawning", "starting", "publishing", "aborting",
           "ok", "failed", "misused", "panic"}
ShutPcs == {"no", "signal", "cancel", "join", "done"}
CloserPcs == {"idle", "shutting", "joining", "nil", "timeout", "unjoined", "again",
              "panic"}
PushPcs == {"idle", "looking", "guarded", "admitted", "ok",
            "CANCELED", "NOT_RUNNING", "MAX_PENDING", "panic"}
PoolPcs == {"none", "new", "running", "closing", "closed"}
DrivePcs == {"idle", "send", "wait", "finish"}
PumpPcs == {"none", "pull", "job", "send", "exited"}
Outcomes == {"out", "failed", "PIPELINE_CANCELED"}

Init ==
  /\ lifetime = "Built" /\ stopping = FALSE /\ built = "none" /\ run = "idle"
  /\ closer = [c \in Closers |-> "idle"]
  /\ parentDone = FALSE
  /\ shut = "no" /\ closed = FALSE /\ cut = 0
  /\ push = [i \in Items |-> "idle"]
  /\ queue = <<>> /\ pool = "none" /\ straggler = FALSE
  /\ work = [w \in Workers |-> NoItem]
  /\ drive = [w \in Workers |-> "idle"]
  /\ outcome = [w \in Workers |-> "none"]
  /\ res = [i \in Items |-> "none"]
  /\ ticket = [i \in Items |-> "none"]
  /\ slot = [k \in Links |-> NoItem]
  /\ stopped = {}
  /\ pump = [k \in Pumps |-> "none"]
  /\ hold = [k \in Pumps |-> NoItem]
  /\ passed = [k \in 1..N |-> {}]
  /\ nest!NestInit

-----------------------------------------------------------------------------
(* Push: two guards that read lifetime one after the other, the first of     *)
(* which reads p.nest twice, then the scheduler's Push, whose refusals are   *)
(* renamed.  An aborting Run may clear p.nest between those two reads.       *)
Goes(i, at) == push' = [push EXCEPT ![i] = at]

PushGuard(i) ==
  /\ push[i] = "idle"
  /\ Goes(i, IF lifetime = "Closed" \/ stopping THEN "CANCELED"
             ELSE IF built = "nest" THEN "looking" ELSE "guarded")
  /\ UNCHANGED <<flags, down, sche, stages, nestVars>>

PushLook(i) ==
  /\ push[i] = "looking"
  /\ Goes(i, IF built # "nest" THEN "panic"
             ELSE IF nest!Canceled THEN "CANCELED" ELSE "guarded")
  /\ UNCHANGED <<flags, down, sche, stages, nestVars>>

PushReady(i) ==
  /\ push[i] = "guarded"
  /\ Goes(i, IF lifetime = "Running" THEN "admitted" ELSE "NOT_RUNNING")
  /\ UNCHANGED <<flags, down, sche, stages, nestVars>>

Fits == MaxPending < 0 \/ Len(queue) < MaxPending

PushRefused(i) ==
  /\ push[i] = "admitted"
  /\ \/ pool \in {"closing", "closed"} /\ Goes(i, "CANCELED")
     \/ ~Fits /\ Goes(i, "MAX_PENDING")
  /\ UNCHANGED <<flags, down, sche, stages, nestVars>>

PushAccepted(i) ==
  /\ push[i] = "admitted"
  /\ pool = "running" /\ Fits
  /\ queue' = Append(queue, i)
  /\ Goes(i, "ok")
  /\ UNCHANGED <<flags, down, pool, straggler, work, drive, outcome, res, stages,
                 nestVars>>

(* The scheduler tests its cancellation before it appends: an item that gets *)
(* in behind the dismissal is accepted, and its Result reads as canceled.    *)
PushLate(i) ==
  /\ push[i] = "admitted"
  /\ pool \in {"closing", "closed"} /\ Fits
  /\ queue' = Append(queue, i)
  /\ res' = [res EXCEPT ![i] = "SCHEDULER_CANCELED"]
  /\ Goes(i, "ok")
  /\ UNCHANGED <<flags, down, pool, straggler, work, drive, outcome, stages, nestVars>>

-----------------------------------------------------------------------------
(* A scheduler's worker takes an item and drives it: origin.Send, refused    *)
(* when origin is canceled already, then the wait for the ticket.            *)
Canceled(k) == k < cut
Sendable(k) == slot[k] = NoItem /\ k \notin stopped
Drives(w, at) == drive' = [drive EXCEPT ![w] = at]

TakesHead(w) ==
  /\ queue # <<>>
  /\ work' = [work EXCEPT ![w] = Head(queue)]
  /\ queue' = Tail(queue)
  /\ Drives(w, IF Canceled(0) THEN "wait" ELSE "send")

Take(w) ==
  /\ pool = "running" /\ drive[w] = "idle"
  /\ TakesHead(w)
  /\ UNCHANGED <<flags, down, push, pool, straggler, outcome, res, stages, nestVars>>

(* The one worker that held cond.L when the scheduler was canceled has       *)
(* tested for that already: it pops what has got in since, if anything has.  *)
TakeLate(w) ==
  /\ straggler /\ drive[w] = "idle"
  /\ straggler' = FALSE
  /\ \/ TakesHead(w)
     \/ queue = <<>> /\ UNCHANGED <<work, queue, drive>>
  /\ UNCHANGED <<flags, down, push, pool, outcome, res, stages, nestVars>>

DriveSent(w) ==
  /\ drive[w] = "send" /\ Sendable(0)
  /\ slot' = [slot EXCEPT ![0] = work[w]]
  /\ Drives(w, "wait")
  /\ UNCHANGED <<flags, down, push, queue, pool, straggler, work, outcome, res, ticket,
                 stopped, pump, hold, passed, nestVars>>

DriveDropped(w) ==
  /\ drive[w] = "send" /\ Canceled(0)
  /\ Drives(w, "wait")
  /\ UNCHANGED <<flags, down, push, queue, pool, straggler, work, outcome, res, stages,
                 nestVars>>

(* ticket.wait: the ticket, the worker's context, or p.closed while the      *)
(* ticket is open.                                                           *)
TicketWaitOpen(w, o) ==     \* mutant: wait does not watch p.closed and ctx
  o = ticket[work[w]] /\ o # "none"

TicketWait(w, o) ==
  \/ o = ticket[work[w]] /\ o # "none"
  \/ o = "PIPELINE_CANCELED" /\ (parentDone \/ pool # "running")
  \/ o = "PIPELINE_CANCELED" /\ closed /\ ticket[work[w]] = "none"

DriveEnd(w) ==
  /\ drive[w] = "wait"
  /\ \E o \in Outcomes : /\ TicketWait(w, o)
                         /\ outcome' = [outcome EXCEPT ![w] = o]
  /\ Drives(w, "finish")
  /\ UNCHANGED <<flags, down, push, queue, pool, straggler, work, res, stages, nestVars>>

(* The scheduler's finish prefers its own cancellation to the outcome.       *)
Finish(w) ==
  /\ drive[w] = "finish"
  /\ res' = [res EXCEPT ![work[w]] = IF pool = "running" THEN outcome[w]
                                     ELSE "SCHEDULER_CANCELED"]
  /\ work' = [work EXCEPT ![w] = NoItem]
  /\ outcome' = [outcome EXCEPT ![w] = "none"]
  /\ Drives(w, "idle")
  /\ UNCHANGED <<flags, down, push, queue, pool, straggler, stages, nestVars>>

-----------------------------------------------------------------------------
(* The stages.  Pump k pulls from link k - 1; a job returns or fails (or     *)
(* panics); what the last stage sends on, the finale completes.              *)
Pumping(k, at) == pump' = [pump EXCEPT ![k] = at]
Complete(i, o) == ticket' = [ticket EXCEPT ![i] = IF @ = "none" THEN o ELSE @]

Pull(k) ==
  /\ pump[k] = "pull" /\ slot[k - 1] # NoItem
  /\ slot' = [slot EXCEPT ![k - 1] = NoItem]

StagePull(k) ==
  /\ k <= N /\ Pull(k)
  /\ hold' = [hold EXCEPT ![k] = slot[k - 1]]
  /\ Pumping(k, "job")
  /\ UNCHANGED <<flags, down, push, sche, ticket, stopped, passed, nestVars>>

FinalePull ==
  /\ Pull(N + 1)
  /\ Complete(slot[N], "out")
  /\ UNCHANGED <<flags, down, push, sche, stopped, pump, hold, passed, nestVars>>

JobFailForwards(k) ==       \* mutant: a failed item is sent on all the same
  /\ pump[k] = "job" /\ ~Canceled(k)
  /\ Complete(hold[k], "failed")
  /\ Pumping(k, "send")
  /\ UNCHANGED <<flags, down, push, sche, slot, stopped, hold, passed, nestVars>>

JobFailSilent(k) ==         \* mutant: the ticket is not completed
  /\ pump[k] = "job"
  /\ hold' = [hold EXCEPT ![k] = NoItem]
  /\ Pumping(k, "pull")
  /\ UNCHANGED <<flags, down, push, sche, ticket, slot, stopped, passed, nestVars>>

JobFail(k) ==
  /\ pump[k] = "job"
  /\ Complete(hold[k], "failed")
  /\ hold' = [hold EXCEPT ![k] = NoItem]
  /\ Pumping(k, "pull")
  /\ UNCHANGED <<flags, down, push, sche, slot, stopped, passed, nestVars>>

(* Send to a link that is canceled already returns at once, and the item's   *)
(* ticket is not completed.                                                  *)
JobOk(k) ==
  /\ pump[k] = "job"
  /\ passed' = [passed EXCEPT ![k] = @ \cup {hold[k]}]
  /\ Pumping(k, IF Canceled(k) THEN "pull" ELSE "send")
  /\ hold' = [hold EXCEPT ![k] = IF Canceled(k) THEN NoItem ELSE @]
  /\ UNCHANGED <<flags, down, push, sche, ticket, slot, stopped, nestVars>>

StageSent(k) ==
  /\ pump[k] = "send" /\ Sendable(k)
  /\ slot' = [slot EXCEPT ![k] = hold[k]]
  /\ hold' = [hold EXCEPT ![k] = NoItem]
  /\ Pumping(k, "pull")
  /\ UNCHANGED <<flags, down, push, sche, ticket, stopped, passed, nestVars>>

StageDroppedNever(k) ==     \* mutant: a blocked Send does not watch Done
  /\ pump[k] = "send" /\ Canceled(k) /\ Sendable(k)
  /\ hold' = [hold EXCEPT ![k] = NoItem]
  /\ Pumping(k, "pull")
  /\ UNCHANGED <<flags, down, push, sche, ticket, slot, stopped, passed, nestVars>>

StageDropped(k) ==
  /\ pump[k] = "send" /\ Canceled(k)
  /\ hold' = [hold EXCEPT ![k] = NoItem]
  /\ Pumping(k, "pull")
  /\ UNCHANGED <<flags, down, push, sche, ticket, slot, stopped, passed, nestVars>>

PumpLeave(k) ==
  /\ pump[k] = "pull"
  /\ dispatched \/ k - 1 \in stopped
  /\ nest!Return(k)
  /\ Pumping(k, "exited")
  /\ UNCHANGED <<flags, down, push, sche, ticket, slot, stopped, hold, passed>>

LinkStop(k) ==
  /\ Canceled(k) /\ k \notin stopped
  /\ stopped' = stopped \cup {k}
  /\ slot' = [slot EXCEPT ![k] = NoItem]
  /\ UNCHANGED <<flags, down, push, sche, ticket, pump, hold, passed, nestVars>>

-----------------------------------------------------------------------------
(* Run: under p.mtx, which nobody else takes.  Its first and its last        *)
(* assertion panic when a shutdown has set lifetime to Closed.               *)
RunAt(at) == run' = at

RunBegin ==
  /\ run = "idle"
  /\ RunAt(IF lifetime = "Built" THEN "begun" ELSE "misused")
  /\ UNCHANGED <<lifetime, stopping, built, closer, parentDone, down, push,
                 sche, stages, nestVars>>

RunAdmission ==
  /\ run = "begun" /\ built = "none"
  /\ built' = "sche" /\ pool' = "new"
  /\ UNCHANGED <<lifetime, stopping, run, closer, parentDone, down, push, queue,
                 straggler, work, drive, outcome, res, stages, nestVars>>

RunNest ==
  /\ run = "begun" /\ built = "sche"
  /\ built' = "nest" /\ RunAt("spawning")
  /\ UNCHANGED <<lifetime, stopping, closer, parentDone, down, push, sche, stages,
                 nestVars>>

RunSpawn(k) ==
  /\ run = "spawning"
  /\ \A j \in Pumps : pump[j] = "none" <=> j >= k
  /\ \/ /\ nest!Spawn(k) /\ Pumping(k, "pull")
        /\ RunAt(IF k = N + 1 THEN "starting" ELSE run)
     \/ nest!SpawnRefused /\ RunAt("aborting") /\ UNCHANGED pump
  /\ UNCHANGED <<lifetime, stopping, built, closer, parentDone, down, push, sche,
                 ticket, slot, stopped, hold, passed>>

RunStart ==
  /\ run = "starting"
  /\ pool' = "running" /\ RunAt("publishing")
  /\ UNCHANGED <<lifetime, stopping, built, closer, parentDone, down, push, queue,
                 straggler, work, drive, outcome, res, stages, nestVars>>

(* The scheduler's Run fails if it is canceled before its last worker is     *)
(* spawned; it then returns when the scheduler is down.                      *)
RunStartFails ==
  /\ run = "publishing" /\ pool = "closed"
  /\ RunAt("aborting")
  /\ UNCHANGED <<lifetime, stopping, built, closer, parentDone, down, push, sche,
                 stages, nestVars>>

RunPublish ==
  /\ run = "publishing"
  /\ RunAt(IF lifetime = "Built" THEN "ok" ELSE "panic")
  /\ lifetime' = IF lifetime = "Built" THEN "Running" ELSE lifetime
  /\ UNCHANGED <<stopping, built, closer, parentDone, down, push, sche, stages,
                 nestVars>>

RunAbort ==
  /\ run = "aborting"
  /\ nest!BeginCancel({"abort"})
  /\ UNCHANGED <<flags, down, push, sche, stages>>

RunFail ==
  /\ run = "aborting" /\ phase = "done"
  /\ RunAt("failed") /\ built' = "sche"
  /\ UNCHANGED <<lifetime, stopping, closer, parentDone, down, push, sche, stages,
                 nestVars>>

-----------------------------------------------------------------------------
(* shutdown: p.once lets one caller run it and keeps the others waiting.     *)
ShutBegin ==
  /\ shut = "no"
  /\ phase = "before" \/ \E c \in Closers : closer[c] = "shutting"
  /\ shut' = "signal"
  /\ lifetime' = "Closed"
  /\ UNCHANGED <<stopping, built, run, closer, parentDone, closed, cut, push, sche,
                 stages, nestVars>>

ShutSignal ==
  /\ shut = "signal"
  /\ closed' = (built # "none")
  /\ shut' = "cancel"
  /\ UNCHANGED <<flags, cut, push, sche, stages, nestVars>>

ShutCancel ==
  /\ shut = "cancel" /\ cut <= N
  /\ cut' = cut + 1
  /\ UNCHANGED <<flags, shut, closed, push, sche, stages, nestVars>>

(* The scheduler's cancellation fails what is queued.  A worker that has     *)
(* just found something there may still be about to pop.                     *)
Dismiss ==
  /\ pool' = "closing"
  /\ queue' = <<>>
  /\ straggler' \in {FALSE, queue # <<>> /\ \E w \in Workers : drive[w] = "idle"}
  /\ res' = [i \in Items |-> IF \E j \in DOMAIN queue : queue[j] = i
                             THEN "SCHEDULER_CANCELED" ELSE res[i]]

ShutPool ==
  /\ shut = "cancel" /\ cut = N + 1
  /\ \/ pool = "running" /\ Dismiss /\ shut' = "join"
     \/ pool # "running" /\ UNCHANGED <<pool, queue, straggler, res>>
        /\ shut' = IF pool \in {"none", "new"} THEN "done" ELSE "join"
  /\ UNCHANGED <<flags, closed, cut, push, work, drive, outcome, stages, nestVars>>

ShutJoin ==
  /\ shut = "join" /\ pool = "closed"
  /\ shut' = "done"
  /\ UNCHANGED <<flags, closed, cut, push, sche, stages, nestVars>>

(* The context given to Run ends: the stages' nest and the scheduler's nest  *)
(* each react to it.                                                         *)
ParentCancel ==
  /\ ~parentDone
  /\ parentDone' = TRUE
  /\ nest!InheritedDone
  /\ UNCHANGED <<lifetime, stopping, built, run, closer, down, push, sche, stages>>

PoolCancel ==
  /\ pool = "running" /\ parentDone
  /\ Dismiss
  /\ UNCHANGED <<flags, down, push, work, drive, outcome, stages, nestVars>>

PoolStop ==
  /\ pool = "closing" /\ ~straggler
  /\ \A w \in Workers : drive[w] = "idle"
  /\ pool' = "closed"
  /\ UNCHANGED <<flags, down, push, queue, straggler, work, drive, outcome, res,
                 stages, nestVars>>

PoolExpires ==
  /\ pool = "closing" /\ HasTimeout
  /\ pool' = "closed"
  /\ UNCHANGED <<flags, down, push, queue, straggler, work, drive, outcome, res,
                 stages, nestVars>>

(* The stages' nest; its before hook is shutdown.                            *)
WatcherCancel ==
  /\ built = "nest" /\ dispatched
  /\ nest!BeginCancel({"parent"})
  /\ UNCHANGED <<flags, down, push, sche, stages>>

HookReturns ==
  /\ shut = "done"
  /\ nest!CancelDispatched
  /\ UNCHANGED <<flags, down, push, sche, stages>>

StagesDown ==
  /\ nest!Drained \/ nest!CloseDone
  /\ UNCHANGED <<flags, down, push, sche, stages>>

StagesExpire ==
  /\ nest!Expire
  /\ UNCHANGED <<flags, down, push, sche, stages>>

-----------------------------------------------------------------------------
(* Close: the first call shuts down and joins the stages' nest, if it finds  *)
(* one; p.nest, set to nil again by an aborted Run, is read three times.     *)
Closing(c, at) == closer' = [closer EXCEPT ![c] = at]

CloseEnter(c) ==
  /\ closer[c] = "idle"
  /\ Closing(c, IF stopping THEN "again" ELSE "shutting")
  /\ stopping' = TRUE
  /\ UNCHANGED <<lifetime, built, run, parentDone, down, push, sche, stages, nestVars>>

CloseShut(c) ==
  /\ closer[c] = "shutting" /\ shut = "done"
  /\ Closing(c, IF built = "nest" THEN "joining" ELSE "unjoined")
  /\ UNCHANGED <<lifetime, stopping, built, run, parentDone, down, push, sche,
                 stages, nestVars>>

CloseCancel(c) ==
  /\ closer[c] = "joining"
  /\ nest!BeginCancel({"closed"})
  /\ UNCHANGED <<flags, down, push, sche, stages>>

CloseReturnEarly(c) ==      \* mutant: Close does not wait for nest.Err
  /\ closer[c] = "joining" /\ nest!Canceled
  /\ Closing(c, IF timedOut THEN "timeout" ELSE "nil")
  /\ UNCHANGED <<lifetime, stopping, built, run, parentDone, down, push, sche,
                 stages, nestVars>>

CloseReturn(c) ==
  /\ closer[c] = "joining" /\ phase = "done"
  /\ Closing(c, IF built # "nest" THEN "panic"
                ELSE IF timedOut THEN "timeout" ELSE "nil")
  /\ UNCHANGED <<lifetime, stopping, built, run, parentDone, down, push, sche,
                 stages, nestVars>>

-----------------------------------------------------------------------------
PushStep(i) == \/ PushLook(i) \/ PushReady(i)
               \/ PushRefused(i) \/ PushAccepted(i) \/ PushLate(i)
WorkerStep(w) == \/ Take(w) \/ TakeLate(w) \/ DriveSent(w) \/ DriveDropped(w)
                 \/ DriveEnd(w) \/ Finish(w)
Stages == 1..N
StageStep(k) == StagePull(k) \/ StageSent(k) \/ StageDropped(k)
PumpStep(k) == \/ k \in Stages /\ StageStep(k)
               \/ k = N + 1 /\ FinalePull
               \/ PumpLeave(k)
RunStep == \/ RunAdmission \/ RunNest \/ RunStart \/ RunStartFails \/ RunPublish
           \/ RunAbort \/ RunFail \/ \E k \in Pumps : RunSpawn(k)
ShutStep == ShutBegin \/ ShutSignal \/ ShutCancel \/ ShutPool \/ ShutJoin
NestStep == WatcherCancel \/ HookReturns \/ StagesDown
PoolStep == PoolCancel \/ PoolStop
CloseStep(c) == CloseShut(c) \/ CloseCancel(c) \/ CloseReturn(c)

Next ==
  \/ \E i \in Items : PushGuard(i) \/ PushStep(i)
  \/ \E w \in Workers : WorkerStep(w)
  \/ \E k \in Stages : StageStep(k) \/ JobOk(k) \/ JobFail(k)
  \/ FinalePull
  \/ \E k \in Pumps : PumpLeave(k)
  \/ \E k \in Links : LinkStop(k)
  \/ RunBegin \/ RunStep \/ ParentCancel \/ ShutStep
  \/ PoolStep \/ PoolExpires \/ NestStep \/ StagesExpire
  \/ \E c \in Closers : CloseEnter(c) \/ CloseStep(c)

Spec == Init /\ [][Next]_vars

(* Goroutines are scheduled; nobody need call, no stage job need return and  *)
(* no timer fire: what holds only if they do names JobsReturn or Expires.    *)
Fairness ==
  /\ \A i \in Items : WF_vars(PushStep(i))
  /\ \A w \in Workers : WF_vars(WorkerStep(w))
  /\ \A k \in Pumps : WF_vars(PumpStep(k))
  /\ \A k \in Links : WF_vars(LinkStop(k))
  /\ WF_vars(RunStep) /\ WF_vars(ShutStep) /\ WF_vars(PoolStep) /\ WF_vars(NestStep)
  /\ \A c \in Closers : WF_vars(CloseStep(c))

JobsReturn == \A k \in Stages : WF_vars(JobOk(k) \/ JobFail(k))
Expires == WF_vars(StagesExpire)

FairSpec == Spec /\ Fairness

-----------------------------------------------------------------------------
TypeOK ==
  /\ lifetime \in Lifetimes /\ stopping \in BOOLEAN
  /\ built \in {"none", "sche", "nest"} /\ run \in RunPcs
  /\ shut \in ShutPcs /\ closed \in BOOLEAN /\ cut \in 0..(N + 1)
  /\ parentDone \in BOOLEAN
  /\ closer \in [Closers -> CloserPcs]
  /\ push \in [Items -> PushPcs]
  /\ queue \in Seq(Items) /\ pool \in PoolPcs /\ straggler \in BOOLEAN
  /\ work \in [Workers -> Items \cup {NoItem}]
  /\ drive \in [Workers -> DrivePcs]
  /\ outcome \in [Workers -> Outcomes \cup {"none"}]
  /\ res \in [Items -> Outcomes \cup {"none", "SCHEDULER_CANCELED"}]
  /\ ticket \in [Items -> {"none", "out", "failed"}]
  /\ slot \in [Links -> Items \cup {NoItem}]
  /\ stopped \subseteq Links
  /\ pump \in [Pumps -> PumpPcs]
  /\ hold \in [Pumps -> Items \cup {NoItem}]
  /\ passed \in [Stages -> SUBSET Items]
  /\ phase \in nest!Phases /\ wg \subseteq Pumps /\ dispatched \in BOOLEAN
  /\ cause \in {{}, {"closed"}, {"parent"}, {"abort"}} /\ timedOut \in BOOLEAN

(* An item runs through the stages once and in order: it is in at most one   *)
(* place, has passed every stage before the one it is at and none after it,  *)
(* and its Result is an output only if it has passed them all; a failed item *)
(* is nowhere any more (node.go:82-107, pipe.go:171).                        *)
Passed(i) == {k \in Stages : i \in passed[k]}
Before(k) == 1..(k - 1)
Once ==
  \A i \in Items :
    /\ \A k \in Links : slot[k] = i => Passed(i) = 1..k
    /\ \A k \in Stages : hold[k] = i =>
         Passed(i) = IF pump[k] = "send" THEN 1..k ELSE Before(k)
    /\ Cardinality({k \in Links : slot[k] = i})
         + Cardinality({k \in Pumps : hold[k] = i}) <= 1
    /\ "out" \in {ticket[i], res[i]} => Passed(i) = Stages
    /\ "failed" \in {ticket[i], res[i]} =>
         /\ Passed(i) # Stages
         /\ i \notin {slot[k] : k \in Links} \cup {hold[k] : k \in Pumps}

(* Close returned nil and had a nest to join: no pump is left, nothing is in *)
(* a pump's hands, and every item Push has accepted, but one a worker of a   *)
(* timed-out scheduler still holds, has its Result (pipe.go:219-233).        *)
CloseWaits ==
  (\E c \in Closers : closer[c] = "nil") =>
    /\ \A k \in Pumps : pump[k] \in {"none", "exited"} /\ hold[k] = NoItem
    /\ \A i \in Items : push[i] = "ok" =>
         res[i] # "none" \/ (HasTimeout /\ \E w \in Workers : work[w] = i)

(* "Close fails unfinished Results immediately" (doc.go:12-13): once Close   *)
(* or the parent's end has begun, every accepted item's Result is completed, *)
(* and its worker free, also when no stage's job ever returns and there is   *)
(* no timeout.                                                               *)
Settled(i) == res[i] # "none"
CloseSettles ==
  \A i \in Items : (push[i] = "ok" /\ (stopping \/ parentDone)) ~> Settled(i)

(* As long as nothing cancels it, the stages' back pressure on each other    *)
(* and on the workers never locks, and no failed or panicked job loses its   *)
(* item: while an accepted item has no Result, some worker, stage or the     *)
(* finale can go on (pipe.go:93-100, node.go:82-107).  This takes the        *)
(* scheduler at its contract, that a worker wakes for each item; what its    *)
(* code makes of that is EveryPushRuns of Scheduler.                         *)
WorkerFlows(w) ==
  \/ drive[w] = "idle" /\ pool = "running" /\ queue # <<>>
  \/ drive[w] = "send" /\ Sendable(0)
  \/ drive[w] = "wait" /\ ticket[work[w]] # "none"
  \/ drive[w] = "finish"
PumpFlows(k) ==
  \/ pump[k] = "pull" /\ slot[k - 1] # NoItem
  \/ pump[k] = "job"
  \/ pump[k] = "send" /\ Sendable(k)
NeverStuck ==
  Workers # {} /\ ~stopping /\ ~parentDone
       /\ (\E i \in Items : push[i] = "ok" /\ ~Settled(i))
    => (\E w \in Workers : WorkerFlows(w)) \/ (\E k \in Pumps : PumpFlows(k))

(* Close returns if the stages' jobs do, without any timeout; and it returns *)
(* if its timeout expires, whatever the jobs do.                             *)
CloseReturns ==
  JobsReturn \/ (HasTimeout /\ Expires) =>
    \A c \in Closers : (closer[c] \in {"shutting", "joining"})
                         ~> (closer[c] \notin {"shutting", "joining"})

-----------------------------------------------------------------------------
(* What the documentation says and the code does not do.                     *)

(* The assertion at the end of Run, that lifetime is still Built, holds      *)
(* (pipe.go:183).                                                            *)
RunAsserts == run # "panic"
=============================================================================
