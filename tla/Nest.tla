-------------------------------- MODULE Nest ---------------------------------
(***************************************************************************)
(* pkg/nest/nest.go: a context.Context that owns goroutines.  Cancel holds *)
(* the mutex mu for the whole shutdown, so only the one effective Cancel   *)
(* ever holds it across two steps; every other critical section (Spawn, a  *)
(* Cancel that lost) is one step taken while mu is free.                   *)
(*                                                                         *)
(* An error value is the set of the errors joined in it: nil is {} and     *)
(* errors.Join is union.                                                   *)
(***************************************************************************)
EXTENDS FiniteSets

CONSTANTS Callers,      \* goroutines that hold the Nest and call it
          Workers,      \* goroutines that Spawn may start
          Reentrant,    \* the workers that call the Nest themselves
          NilCausers,   \* those who call Cancel(nil)
          HasTimeout,   \* shutdownTimeout > 0
          Watcher,      \* the goroutine started by New
          NoProc        \* nobody: mu is free

Procs == Callers \cup Workers \cup {Watcher}

ASSUME ProcsAssumption ==
  /\ Callers \cap Workers = {}
  /\ Watcher \notin Callers \cup Workers
  /\ NoProc \notin Procs
  /\ Procs \cap {"parent", "timeout", "after"} = {}
ASSUME WorkersAssumption ==
  /\ Reentrant \subseteq Workers
  /\ NilCausers \subseteq Callers \cup Workers
ASSUME HasTimeoutAssumption == HasTimeout \in BOOLEAN

VARIABLES inherited,    \* the context given to New is done
          dispatched,   \* the context given to the workers is done
          mu,           \* who holds mu, or NoProc
          canceled,     \* the atomic flag
          cause,        \* the argument of the Cancel that won the flag
          hookCtx,      \* the before hook's context: "none", "live" or "done"
          timedOut,     \* that Cancel's err is ERROR__NEST_CLOSE_TIMEOUT
          err,          \* x.err
          done,         \* the channel done is closed
          pc            \* where each goroutine is

data == <<inherited, dispatched, mu, canceled, cause, hookCtx, timedOut, err,
          done>>
vars == <<data, pc>>

-----------------------------------------------------------------------------
(* The steps of the Cancel that won, in order: before it calls the hook, its *)
(* x.cancel, its wait, its deferred function and its close(x.done).          *)
ClosingPcs == {"before", "fire", "wait", "after", "close"}

CallerPcs  == {"idle", "spawning", "enter"} \cup ClosingPcs
WorkerPcs  == {"none", "running", "spawning", "enter", "exited"} \cup ClosingPcs
WatcherPcs == {"watching", "enter", "exited"} \cup ClosingPcs

(* The goroutines counted by x.wg.                                           *)
wg == {w \in Workers : pc[w] \notin {"none", "exited"}}

(* Who may call Spawn and Cancel, and where a call returns to.               *)
Users == Callers \cup Reentrant
Resume(p) == IF p \in Workers THEN "running"
             ELSE IF p = Watcher THEN "exited" ELSE "idle"
Ready(p)  == p \in Users /\ pc[p] = Resume(p)

(* The watcher only wins when nobody has called Cancel, so dispatched can    *)
(* only be done because inherited is: its cause is the parent's.             *)
CauseOf(p) == IF p = Watcher THEN {"parent"}
              ELSE IF p \in NilCausers THEN {} ELSE {p}

Goto(p, at) == pc' = [pc EXCEPT ![p] = at]

Init ==
  /\ inherited = FALSE
  /\ dispatched = FALSE
  /\ mu = NoProc
  /\ canceled = FALSE
  /\ cause = {}
  /\ hookCtx = "none"
  /\ timedOut = FALSE
  /\ err = {}
  /\ done = FALSE
  /\ pc = [p \in Procs |-> IF p \in Workers THEN "none"
                           ELSE IF p = Watcher THEN "watching" ELSE "idle"]

-----------------------------------------------------------------------------
(* The parent context ends; dispatched, derived from it, follows.            *)
ParentCancel ==
  /\ ~inherited
  /\ inherited' = TRUE
  /\ UNCHANGED <<dispatched, mu, canceled, cause, hookCtx, timedOut, err, done,
                 pc>>

Propagate ==
  /\ inherited /\ ~dispatched
  /\ dispatched' = TRUE
  /\ UNCHANGED <<inherited, mu, canceled, cause, hookCtx, timedOut, err, done,
                 pc>>

WatchParentOnly ==          \* mutant: no case <-x.dispatched.Done()
  /\ pc[Watcher] = "watching"
  /\ inherited
  /\ Goto(Watcher, "enter")
  /\ UNCHANGED data

WatchFire ==
  /\ pc[Watcher] = "watching"
  /\ inherited \/ dispatched
  /\ Goto(Watcher, "enter")
  /\ UNCHANGED data

(* p calls Spawn and blocks on mu; f starts as a new worker, or is refused.  *)
CallSpawn(p) ==
  /\ Ready(p)
  /\ \E w \in Workers : pc[w] = "none"
  /\ Goto(p, "spawning")
  /\ UNCHANGED data

SpawnUnchecked(p) ==        \* mutant: Spawn does not look at canceled
  /\ pc[p] = "spawning"
  /\ mu = NoProc
  /\ \E w \in Workers :
       /\ pc[w] = "none"
       /\ pc' = [pc EXCEPT ![p] = Resume(p), ![w] = "running"]
  /\ UNCHANGED data

Spawn(p) ==
  /\ pc[p] = "spawning"
  /\ mu = NoProc
  /\ ~canceled
  /\ \E w \in Workers :
       /\ pc[w] = "none"
       /\ pc' = [pc EXCEPT ![p] = Resume(p), ![w] = "running"]
  /\ UNCHANGED data

SpawnRefused(p) ==
  /\ pc[p] = "spawning"
  /\ mu = NoProc
  /\ canceled
  /\ Goto(p, Resume(p))
  /\ UNCHANGED data

(* A worker's function returns and leaves x.wg.                              *)
Exit(w) ==
  /\ pc[w] = "running"
  /\ Goto(w, "exited")
  /\ UNCHANGED data

-----------------------------------------------------------------------------
CallCancel(p) ==
  /\ Ready(p)
  /\ Goto(p, "enter")
  /\ UNCHANGED data

CancelAgain(p) ==           \* mutant: no compare-and-swap
  /\ pc[p] = "enter"
  /\ mu = NoProc
  /\ mu' = p
  /\ canceled' = TRUE
  /\ cause' = CauseOf(p)
  /\ hookCtx' = "live"
  /\ Goto(p, "before")
  /\ UNCHANGED <<inherited, dispatched, timedOut, err, done>>

(* mu.Lock and the compare-and-swap: p wins and keeps mu ...                 *)
CancelWin(p) ==
  /\ pc[p] = "enter"
  /\ mu = NoProc
  /\ ~canceled
  /\ mu' = p
  /\ canceled' = TRUE
  /\ cause' = CauseOf(p)
  /\ hookCtx' = "live"
  /\ Goto(p, "before")
  /\ UNCHANGED <<inherited, dispatched, timedOut, err, done>>

(* ... or it lost, and returns after the winner has released mu.             *)
CancelLose(p) ==
  /\ pc[p] = "enter"
  /\ mu = NoProc
  /\ canceled
  /\ Goto(p, Resume(p))
  /\ UNCHANGED data

BeforeClose(p) ==
  /\ pc[p] = "before"
  /\ Goto(p, "fire")
  /\ UNCHANGED data

CancelDispatched(p) ==
  /\ pc[p] = "fire"
  /\ dispatched' = TRUE
  /\ Goto(p, "wait")
  /\ UNCHANGED <<inherited, mu, canceled, cause, hookCtx, timedOut, err, done>>

DrainedAtOnce(p) ==         \* mutant: no wait at all
  pc[p] = "wait" /\ Goto(p, "after") /\ UNCHANGED data

Drained(p) ==
  /\ pc[p] = "wait"
  /\ wg = {}
  /\ Goto(p, "after")
  /\ UNCHANGED data

ExpireDrained(p) ==         \* mutant: the timeout does not end the wait
  /\ pc[p] = "wait"
  /\ HasTimeout /\ wg = {}
  /\ timedOut' = TRUE
  /\ Goto(p, "after")
  /\ UNCHANGED <<inherited, dispatched, mu, canceled, cause, hookCtx, err, done>>

Expire(p) ==
  /\ pc[p] = "wait"
  /\ HasTimeout
  /\ timedOut' = TRUE
  /\ Goto(p, "after")
  /\ UNCHANGED <<inherited, dispatched, mu, canceled, cause, hookCtx, err, done>>

(* The before hook's context has the same timeout, counted from the start.   *)
HookTimeout ==
  /\ HasTimeout
  /\ hookCtx = "live"
  /\ hookCtx' = "done"
  /\ UNCHANGED <<inherited, dispatched, mu, canceled, cause, timedOut, err,
                 done, pc>>

AfterCloseNoCause(p) ==     \* mutant: the cause is not joined into x.err
  /\ pc[p] = "after"
  /\ hookCtx' = "done"
  /\ err' = IF timedOut THEN {"timeout"} ELSE {}
  /\ Goto(p, "close")
  /\ UNCHANGED <<inherited, dispatched, mu, canceled, cause, timedOut, done>>

(* The deferred function: the after hook may add an error of its own.        *)
AfterClose(p) ==
  /\ pc[p] = "after"
  /\ hookCtx' = "done"
  /\ \E own \in {{}, {"after"}} :
       err' = cause \cup own \cup (IF timedOut THEN {"timeout"} ELSE {})
  /\ Goto(p, "close")
  /\ UNCHANGED <<inherited, dispatched, mu, canceled, cause, timedOut, done>>

CloseDoneLocked(p) ==       \* mutant: mu is not released
  /\ pc[p] = "close"
  /\ done' = TRUE
  /\ Goto(p, Resume(p))
  /\ UNCHANGED <<inherited, dispatched, mu, canceled, cause, hookCtx, timedOut,
                 err>>

CloseDone(p) ==
  /\ pc[p] = "close"
  /\ done' = TRUE
  /\ mu' = NoProc
  /\ Goto(p, Resume(p))
  /\ UNCHANGED <<inherited, dispatched, canceled, cause, hookCtx, timedOut, err>>

-----------------------------------------------------------------------------
SpawnStep(p) == CallSpawn(p) \/ Spawn(p) \/ SpawnRefused(p)

CancelGoesOn(p) ==
  \/ CancelWin(p) \/ CancelLose(p) \/ BeforeClose(p) \/ CancelDispatched(p)
  \/ Drained(p) \/ AfterClose(p) \/ CloseDone(p)

CancelStep(p) == CancelGoesOn(p) \/ Expire(p)

Next ==
  \/ ParentCancel \/ Propagate \/ WatchFire \/ HookTimeout
  \/ \E p \in Procs : SpawnStep(p) \/ CallCancel(p) \/ CancelStep(p)
  \/ \E w \in Workers : Exit(w)

Spec == Init /\ [][Next]_vars

(* The scheduler runs every goroutine that can run: a pending Cancel, the    *)
(* watcher and the runtime's context propagation.  Nobody has to call, no    *)
(* worker has to return and no timer has to fire.                            *)
Fairness ==
  /\ WF_vars(Propagate) /\ WF_vars(WatchFire)
  /\ \A p \in Procs : WF_vars(CancelGoesOn(p))

FairSpec == Spec /\ Fairness

(* What ends the wait of a shutdown: its timer; or the workers, if they all  *)
(* return and none of them is in a call of the Nest, which would block on mu *)
(* and keep the worker in x.wg while the Cancel that has mu waits for wg.    *)
TimerFires == HasTimeout /\ \A p \in Procs : WF_vars(Expire(p))
WorkersReturn == \A w \in Workers : WF_vars(Exit(w))
WorkersKeepOut == [](\A w \in Workers : pc[w] \notin {"spawning", "enter"})
WaitEnds == TimerFires \/ (WorkersReturn /\ WorkersKeepOut)

-----------------------------------------------------------------------------
TypeOK ==
  /\ inherited \in BOOLEAN
  /\ dispatched \in BOOLEAN
  /\ mu \in Procs \cup {NoProc}
  /\ canceled \in BOOLEAN
  /\ cause \subseteq Procs \cup {"parent"}
  /\ hookCtx \in {"none", "live", "done"}
  /\ timedOut \in BOOLEAN
  /\ err \subseteq Procs \cup {"parent", "timeout", "after"}
  /\ done \in BOOLEAN
  /\ pc \in [Procs -> CallerPcs \cup WorkerPcs \cup WatcherPcs]
  /\ \A p \in Callers : pc[p] \in CallerPcs
  /\ \A w \in Workers : pc[w] \in WorkerPcs
  /\ pc[Watcher] \in WatcherPcs

(* Once Done is closed, either the wait was given up or no goroutine started *)
(* by Spawn is left: none slipped in between the wait and the close.         *)
GracefulDrain == done /\ ~timedOut => wg = {}

(* The first cause is the cause: once Done is closed nothing that happens    *)
(* later - a losing Cancel, the watcher, the parent - changes Err().         *)
ErrIsFinal == [][done => UNCHANGED <<done, err, cause, timedOut>>]_vars

(* Err() says which Cancel won, and reports a timeout exactly when the wait  *)
(* was given up.                                                             *)
ErrTellsWhy ==
  done => /\ cause \subseteq err
          /\ timedOut <=> "timeout" \in err
          /\ "parent" \in err => inherited

(* A canceled parent or an entered Cancel closes Done.                       *)
Terminates ==
  WaitEnds => (inherited \/ \E p \in Procs : pc[p] = "enter") ~> done

(* Every Cancel returns to its caller, also one that lost and blocked on mu  *)
(* behind the winner.                                                        *)
CancelReturns ==
  WaitEnds => \A p \in Callers : (pc[p] = "enter") ~> (pc[p] = "idle")

(* New's watcher goroutine and the before hook's context do not outlive the  *)
(* nest.  (The helper that waits on the group, nest.go:132-135, is not       *)
(* modelled: after a timeout it lasts as long as the workers do.)            *)
NothingLeaks == done ~> (pc[Watcher] = "exited" /\ hookCtx = "done")

-----------------------------------------------------------------------------
(* The contract of NestLifecycle, read off the pc of the Cancel that won.    *)
PhaseOf(at) ==
  CASE at \in {"before", "fire"} -> "before"
    [] at = "wait"               -> "draining"
    [] OTHER                     -> "after"

phase == IF ~canceled THEN "open"
         ELSE IF done THEN "done" ELSE PhaseOf(pc[mu])

lifecycle == INSTANCE NestLifecycle
               WITH Goroutines <- Workers,
                    Causes <- {CauseOf(p) : p \in Procs}

Contract == lifecycle!NestSpec
=============================================================================
