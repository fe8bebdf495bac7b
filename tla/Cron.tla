-------------------------------- MODULE Cron ---------------------------------
(***************************************************************************)
(* pkg/orch/cron/cron.go: a loop that waits for the schedule's next time   *)
(* and triggers the job through a scheduler.  The nest that owns the loop  *)
(* is NestLifecycle and the scheduler is JobPool, whose actions are used   *)
(* here.  The scheduler's own nest lives under the dispatched context of   *)
(* the cron's.  That context and cron's own are ended together: cancel(),  *)
(* or the caller's context, ends both, and the nest ends neither sooner.   *)
(***************************************************************************)
EXTENDS Integers, FiniteSets

CONSTANTS N,            \* how many times the schedule has, at most
          Parallel,     \* WithParallel
          MaxPending,   \* WithMaxPending; negative is unlimited
          Overlap,      \* OverlapSkip is "skip", OverlapQueue "queue"
          HasTimeout,   \* WithShutdownTimeout is positive
          Users,        \* goroutines that call Close
          Watcher,      \* the goroutine that calls Close when ctx ends
          Suicidal      \* the ticks whose job calls Close

Ticks == 1..N
Closers == Users \cup {Watcher} \cup Suicidal

ASSUME OptionsAssumption ==
  /\ N \in Nat /\ Parallel \in Nat \ {0} /\ MaxPending \in Int
  /\ Overlap \in {"skip", "queue"} /\ HasTimeout \in BOOLEAN
ASSUME ClosersAssumption ==
  /\ Suicidal \subseteq Ticks
  /\ Watcher \notin Users /\ (Users \cup {Watcher}) \cap Ticks = {}

VARIABLES new,          \* where newCron is
          loop,         \* where the loop is
          tick,         \* the last time that has come
          running,      \* c.running
          job,          \* where the wrapped job of each tick is
          closer,       \* where each Close call is
          phase, wg, dispatched, cause, timedOut,   \* c.nest
          life, late, place                         \* c.sched

nest == INSTANCE NestLifecycle WITH Goroutines <- {"loop"},
                                    Causes <- {{"closed"}, {"parent"}}
sched == INSTANCE JobPool WITH Tasks <- Ticks, Slots <- Parallel,
                               Limit <- MaxPending

nestVars == <<phase, wg, dispatched, cause, timedOut>>
schedVars == <<life, late, place>>
loopVars == <<new, loop, tick>>
jobVars == <<running, job>>
vars == <<loopVars, jobVars, closer, nestVars, schedVars>>

Init ==
  /\ new = "run"
  /\ loop = "none"
  /\ tick = 0
  /\ running = 0
  /\ job = [t \in Ticks |-> "none"]
  /\ closer = [c \in Closers |-> "idle"]
  /\ nest!NestInit
  /\ sched!PoolInit

-----------------------------------------------------------------------------
(* newCron: the scheduler's Run and the nest's Spawn fail once the shutdown  *)
(* that the context's end started has reached them, and must.NoError panics. *)
NewRuns ==
  /\ new = "run" /\ life = "open"
  /\ new' = "spawn"
  /\ UNCHANGED <<loop, tick, jobVars, closer, nestVars, schedVars>>

NewSpawns ==
  /\ new = "spawn" /\ nest!Spawn("loop")
  /\ new' = "up"
  /\ loop' = "next"
  /\ UNCHANGED <<tick, jobVars, closer, schedVars>>

NewPanics ==
  /\ \/ new = "run" /\ life = "closed" /\ UNCHANGED nestVars
     \/ new = "spawn" /\ nest!SpawnRefused
  /\ new' = "panic"
  /\ UNCHANGED <<loop, tick, jobVars, closer, schedVars>>

-----------------------------------------------------------------------------
(* The loop asks for the next time, and arms a timer or has come to the end. *)
LoopAt(at, to) == loop = at /\ loop' = to

LoopArms ==
  /\ LoopAt("next", "armed") /\ tick < N
  /\ UNCHANGED <<new, tick, jobVars, closer, nestVars, schedVars>>

LoopLeaves ==
  /\ LoopAt("next", "left") \/ (dispatched /\ LoopAt("armed", "left"))
  /\ nest!Return("loop")
  /\ UNCHANGED <<new, tick, jobVars, closer, schedVars>>

LoopFires ==
  /\ LoopAt("armed", "fired")
  /\ tick' = tick + 1
  /\ UNCHANGED <<new, jobVars, closer, nestVars, schedVars>>

(* trigger reads the counter, and in later steps pushes.                     *)
LoopSkips ==
  /\ LoopAt("fired", "next")
  /\ Overlap = "skip" /\ running >= Parallel
  /\ UNCHANGED <<new, tick, jobVars, closer, nestVars, schedVars>>

LoopOffers ==
  /\ LoopAt("fired", "offering")
  /\ Overlap = "skip" => running < Parallel
  /\ UNCHANGED <<new, tick, jobVars, closer, nestVars, schedVars>>

LoopAdmitted ==
  /\ LoopAt("offering", "pushing")
  /\ life = "open"
  /\ UNCHANGED <<new, tick, jobVars, closer, nestVars, schedVars>>

LoopPushes ==
  /\ LoopAt("pushing", "next")
  /\ sched!Enter(tick)
  /\ UNCHANGED <<new, tick, jobVars, closer, nestVars>>

(* A job that was popped counts as pending until just before it is started.  *)
Uncounted == {t \in Ticks : place[t] \in {"in", "run"} /\ job[t] = "none"}

LoopRefused ==
  /\ \/ LoopAt("offering", "next") /\ life # "open"
     \/ /\ LoopAt("pushing", "next")
        /\ MaxPending >= 0 /\ Cardinality(Uncounted) >= MaxPending
  /\ UNCHANGED <<new, tick, jobVars, closer, nestVars, schedVars>>

-----------------------------------------------------------------------------
(* A worker begins, the wrapped job counts itself in and, deferred, out; the *)
(* worker is still busy with the callback until it ends.                     *)
JobAt(t, at, to) == job[t] = at /\ job' = [job EXCEPT ![t] = to]

WorkerBegins(t) ==
  /\ sched!Begin(t)
  /\ UNCHANGED <<loopVars, jobVars, closer, nestVars>>

JobEnters(t) ==
  /\ place[t] = "run" /\ JobAt(t, "none", "in")
  /\ running' = running + 1
  /\ UNCHANGED <<loopVars, closer, nestVars, schedVars>>

InClose(c) == closer[c] \in {"won", "ended", "joining", "stopping"}

JobLeavesUncounted(t) ==    \* mutant: Add(-1) is not deferred, Do panics
  /\ JobAt(t, "in", "over")
  /\ t \in Suicidal => ~InClose(t)
  /\ UNCHANGED <<loopVars, running, closer, nestVars, schedVars>>

JobLeaves(t) ==
  /\ JobAt(t, "in", "over")
  /\ t \in Suicidal => ~InClose(t)
  /\ running' = running - 1
  /\ UNCHANGED <<loopVars, closer, nestVars, schedVars>>

WorkerEnds(t) ==
  /\ job[t] = "over" /\ sched!End(t)
  /\ UNCHANGED <<loopVars, jobVars, closer, nestVars>>

-----------------------------------------------------------------------------
(* Close: the first caller ends the context, shuts the nest down and joins   *)
(* it, closes the scheduler and waits for it, and closes done.  The others   *)
(* return at once.                                                           *)
CloseAt(c, at, to) == closer[c] = at /\ closer' = [closer EXCEPT ![c] = to]

CallsCloseUnwatched(c) ==   \* mutant: newCron without its goroutine
  c \in Users \/ (c \in Suicidal /\ job[c] = "in")

CallsClose(c) ==
  \/ c \in Users
  \/ c = Watcher /\ dispatched
  \/ c \in Suicidal /\ job[c] = "in"

CloseEnter(c) ==
  /\ new = "up" /\ CallsClose(c)
  /\ CloseAt(c, "idle", IF \A d \in Closers : closer[d] = "idle" THEN "won" ELSE "again")
  /\ UNCHANGED <<loopVars, jobVars, nestVars, schedVars>>

CloseEndsContext(c) ==
  /\ CloseAt(c, "won", "ended")
  /\ nest!InheritedDone
  /\ UNCHANGED <<loopVars, jobVars, schedVars>>

CloseCancels(c) ==
  /\ CloseAt(c, "ended", "joining")
  /\ nest!BeginCancel({"closed"}) \/ (nest!Canceled /\ UNCHANGED nestVars)
  /\ UNCHANGED <<loopVars, jobVars, schedVars>>

CloseStopsSched(c) ==
  /\ CloseAt(c, "joining", "stopping") /\ phase = "done"
  /\ sched!Stop \/ (life # "open" /\ UNCHANGED schedVars)
  /\ UNCHANGED <<loopVars, jobVars, nestVars>>

CloseReturnsEarly(c) ==     \* mutant: c.sched.Close() is not waited for
  /\ CloseAt(c, "stopping", "closed")
  /\ UNCHANGED <<loopVars, jobVars, nestVars, schedVars>>

CloseReturns(c) ==
  /\ CloseAt(c, "stopping", "closed") /\ life = "closed"
  /\ UNCHANGED <<loopVars, jobVars, nestVars, schedVars>>

-----------------------------------------------------------------------------
(* The caller's context ends, and both nests shut down.                      *)
ParentEnds ==
  /\ ~dispatched /\ nest!InheritedDone
  /\ UNCHANGED <<loopVars, jobVars, closer, schedVars>>

NestSteps ==
  /\ \/ dispatched /\ nest!BeginCancel({"parent"})
     \/ nest!CancelDispatched
     \/ nest!Drained
     \/ nest!CloseDone
  /\ UNCHANGED <<loopVars, jobVars, closer, schedVars>>

NestExpires ==
  /\ nest!Expire
  /\ UNCHANGED <<loopVars, jobVars, closer, schedVars>>

SchedSteps ==
  /\ (dispatched /\ sched!Stop) \/ sched!Closed
  /\ UNCHANGED <<loopVars, jobVars, closer, nestVars>>

SchedExpires ==
  /\ HasTimeout /\ ~late /\ sched!GiveUp
  /\ UNCHANGED <<loopVars, jobVars, closer, nestVars>>

-----------------------------------------------------------------------------
NewStep == NewRuns \/ NewSpawns \/ NewPanics
LoopStep == \/ LoopArms \/ LoopLeaves \/ LoopSkips \/ LoopOffers
            \/ LoopAdmitted \/ LoopPushes \/ LoopRefused
JobStep(t) == JobEnters(t) \/ WorkerEnds(t)
CloseStep(c) == CloseEndsContext(c) \/ CloseCancels(c) \/ CloseStopsSched(c) \/ CloseReturns(c)

Next ==
  \/ NewStep \/ LoopStep \/ LoopFires
  \/ \E t \in Ticks : WorkerBegins(t) \/ JobStep(t) \/ JobLeaves(t)
  \/ \E c \in Closers : CloseEnter(c) \/ CloseStep(c)
  \/ ParentEnds \/ NestSteps \/ NestExpires \/ SchedSteps \/ SchedExpires

Spec == Init /\ [][Next]_vars

(* Goroutines that can run do run, and the watcher's is one.  A user need    *)
(* not call Close, the context need not end, and no timer and no job need    *)
(* come to its end: what only holds if they do says so.  The scheduler       *)
(* starts no job it need not (Scheduler!EveryPushRuns), but its Close        *)
(* returns (Scheduler!CloseReturns).                                         *)
Fairness ==
  /\ WF_vars(NewStep) /\ WF_vars(LoopStep)
  /\ \A t \in Ticks : WF_vars(JobStep(t))
  /\ \A c \in Closers : WF_vars(CloseStep(c))
  /\ WF_vars(CloseEnter(Watcher)) /\ WF_vars(NestSteps) /\ WF_vars(SchedSteps)

FairSpec == Spec /\ Fairness

JobsReturn == \A t \in Ticks : WF_vars(JobLeaves(t))
Expires == WF_vars(NestExpires) /\ WF_vars(SchedExpires)

-----------------------------------------------------------------------------
TypeOK ==
  /\ new \in {"run", "spawn", "up", "panic"}
  /\ loop \in {"none", "next", "armed", "fired", "offering", "pushing", "left"}
  /\ tick \in 0..N
  /\ running \in Int
  /\ job \in [Ticks -> {"none", "in", "over"}]
  /\ closer \in [Closers -> {"idle", "won", "ended", "joining", "stopping",
                             "closed", "again"}]
  /\ phase \in nest!Phases
  /\ wg \subseteq {"loop"}
  /\ dispatched \in BOOLEAN
  /\ cause \in {{}, {"closed"}, {"parent"}}
  /\ timedOut \in BOOLEAN
  /\ life \in {"open", "closing", "closed"}
  /\ late \in BOOLEAN
  /\ place \in [Ticks -> sched!Places]

DoneClosed == \E c \in Closers : closer[c] = "closed"

(* Done "closes when the cron orchestrator is shut down" (cron.go:19): the   *)
(* loop has exited and no job runs or will, unless the timeout ended a wait. *)
(* It relates three shutdowns that the context's end starts independently.   *)
DoneMeansQuiet ==
  DoneClosed => /\ timedOut \/ loop = "left"
                /\ late \/ (running = 0 /\ sched!In("run") = {} /\ life = "closed")

(* OverlapSkip "drops the new tick if all parallel slots for the job are     *)
(* busy" (option.go:17), and never when one is free: the counter trigger     *)
(* reads is raised and lowered by jobs that may panic or close the cron.     *)
SkipIsJustified ==
  [][LoopSkips => Cardinality(sched!In("run")) >= Parallel]_vars

(* Once the context has ended, by Close or by its owner, Done closes: after  *)
(* the timeout whatever the jobs do, and without one if the jobs return and  *)
(* none is itself waiting for the Close it has called.                       *)
DoneCloses ==
  (HasTimeout /\ Expires) \/ (JobsReturn /\ [](\A t \in Suicidal : ~InClose(t))) =>
    (new = "up" /\ dispatched) ~> DoneClosed
=============================================================================
