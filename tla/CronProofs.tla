------------------------------ MODULE CronProofs ------------------------------
(***************************************************************************)
(* Proofs about Cron, for any number of ticks, any options and callers.    *)
(***************************************************************************)
EXTENDS Cron, FiniteSetTheorems, TLAPS

-----------------------------------------------------------------------------
(* The types, of the loop, the jobs, the callers, the nest and the scheduler. *)
LoopOK == /\ new \in {"run", "spawn", "up", "panic"}
          /\ loop \in {"none", "next", "armed", "fired", "offering", "pushing", "left"}
          /\ tick \in 0..N

JobsOK == /\ running \in Int
          /\ job \in [Ticks -> {"none", "in", "over"}]

ClosersOK == closer \in [Closers -> {"idle", "won", "ended", "joining", "stopping",
                                     "closed", "again"}]

NestOK == /\ phase \in nest!Phases
          /\ wg \subseteq {"loop"}
          /\ dispatched \in BOOLEAN
          /\ cause \in {{}, {"closed"}, {"parent"}}
          /\ timedOut \in BOOLEAN

SchedOK == /\ life \in {"open", "closing", "closed"}
           /\ late \in BOOLEAN
           /\ place \in [Ticks -> sched!Places]

(* A timer is armed only for a time the schedule still has.                  *)
ArmInv == loop = "armed" => tick < N

(* The nest counts the loop as long as it runs, and past the wait, unless it *)
(* was given up, nobody; who has come to a point of Close knows what it has  *)
(* waited for there; and whoever calls Close does so after the loop began.   *)
GroupInv == /\ loop \in {"none", "left"} \/ "loop" \in wg
            /\ phase \in {"after", "done"} => timedOut \/ wg = {}
            /\ new = "up" => loop # "none"

CloseInv == \A c \in Closers :
              /\ closer[c] # "idle" => new = "up"
              /\ closer[c] \in {"stopping", "closed"} => phase = "done"
              /\ closer[c] = "closed" => life = "closed"

(* A counted job is on a slot, and a closed scheduler has nobody on a slot.  *)
SlotInv == /\ \A t \in Ticks : job[t] = "in" => place[t] = "run"
           /\ life = "closed" /\ ~late => \A t \in Ticks : place[t] # "run"

InJob == {t \in Ticks : job[t] = "in"}
CountInv == running = Cardinality(InJob)

Types == LoopOK /\ JobsOK /\ ClosersOK /\ NestOK /\ SchedOK
Inv == Types /\ ArmInv /\ GroupInv /\ CloseInv /\ SlotInv /\ CountInv

LEMMA TypeSplit == TypeOK <=> Types
BY DEF TypeOK, Types, LoopOK, JobsOK, ClosersOK, NestOK, SchedOK

LEMMA InvInit == Init => Inv
<1> SUFFICES ASSUME Init PROVE Inv
  OBVIOUS
<1> USE DEF Init, nest!NestInit, sched!PoolInit
<1>1. LoopOK /\ JobsOK /\ ClosersOK /\ ArmInv
  BY OptionsAssumption DEF LoopOK, JobsOK, ClosersOK, ArmInv
<1>2. NestOK /\ SchedOK
  BY DEF NestOK, SchedOK, nest!Phases, sched!Places
<1>3. GroupInv /\ CloseInv /\ SlotInv
  BY DEF GroupInv, CloseInv, SlotInv
<1>4. InJob = {}
  BY DEF InJob
<1>5. CountInv
  BY <1>4, FS_EmptySet DEF CountInv
<1> QED  BY <1>1, <1>2, <1>3, <1>5 DEF Inv, Types

-----------------------------------------------------------------------------
(* One lemma per group of actions, and one for those that leave the jobs and *)
(* the scheduler alone.                                                      *)
LEMMA QuietJobs ==
  ASSUME Inv, UNCHANGED <<jobVars, schedVars>>
  PROVE  JobsOK' /\ SchedOK' /\ SlotInv' /\ CountInv'
BY DEF Inv, Types, JobsOK, SchedOK, SlotInv, CountInv, InJob, jobVars, schedVars

LEMMA NewInv == Inv /\ NewStep => Inv'
<1> SUFFICES ASSUME Inv, NewStep PROVE Inv'
  OBVIOUS
<1>1. JobsOK' /\ SchedOK' /\ SlotInv' /\ CountInv'
  BY QuietJobs DEF NewStep, NewRuns, NewSpawns, NewPanics
<1> USE DEF Inv, Types, LoopOK, ClosersOK, NestOK, ArmInv, GroupInv, CloseInv,
            schedVars, nestVars
<1>2. CASE NewRuns
  BY <1>1, <1>2 DEF NewRuns
<1>3. CASE NewSpawns
  BY <1>1, <1>3 DEF NewSpawns, nest!Spawn
<1>4. CASE NewPanics
  BY <1>1, <1>4 DEF NewPanics, nest!SpawnRefused, nest!nestVars
<1> QED  BY <1>2, <1>3, <1>4 DEF NewStep

LEMMA LoopInv == Inv /\ (LoopStep \/ LoopFires) => Inv'
<1> SUFFICES ASSUME Inv, LoopStep \/ LoopFires PROVE Inv'
  OBVIOUS
<1> USE DEF Inv, Types, LoopOK, ClosersOK, NestOK, ArmInv, GroupInv, CloseInv,
            schedVars, nestVars, LoopAt
<1>1. CASE \/ LoopArms \/ LoopSkips \/ LoopOffers \/ LoopAdmitted
           \/ LoopRefused \/ LoopFires
  <2>1. JobsOK' /\ SchedOK' /\ SlotInv' /\ CountInv'
    BY <1>1, QuietJobs DEF LoopArms, LoopSkips, LoopOffers, LoopAdmitted,
                           LoopRefused, LoopFires
  <2>2. CASE LoopFires
    BY <2>1, <2>2, OptionsAssumption DEF LoopFires
  <2>3. CASE LoopArms \/ LoopSkips \/ LoopOffers
    BY <2>1, <2>3 DEF LoopArms, LoopSkips, LoopOffers
  <2>4. CASE LoopAdmitted \/ LoopRefused
    BY <2>1, <2>4 DEF LoopAdmitted, LoopRefused
  <2> QED  BY <1>1, <2>2, <2>3, <2>4
<1>2. CASE LoopLeaves
  <2>1. JobsOK' /\ SchedOK' /\ SlotInv' /\ CountInv'
    BY <1>2, QuietJobs DEF LoopLeaves
  <2> QED  BY <1>2, <2>1 DEF LoopLeaves, nest!Return
<1>3. CASE LoopPushes
  <2>1. JobsOK' /\ CountInv'
    BY <1>3 DEF LoopPushes, JobsOK, CountInv, InJob, jobVars
  <2>2. SchedOK' /\ SlotInv'
    BY <1>3 DEF LoopPushes, SchedOK, SlotInv, jobVars, sched!Enter, sched!Moves,
                sched!Places
  <2>3. UNCHANGED life
    BY <1>3 DEF LoopPushes, sched!Enter
  <2> QED  BY <1>3, <2>1, <2>2, <2>3 DEF LoopPushes
<1> QED  BY <1>1, <1>2, <1>3 DEF LoopStep

(* The counter moves with the one job that is counted in or out.             *)
LEMMA InJobFinite ==
  JobsOK => IsFiniteSet(InJob) /\ Cardinality(InJob) \in Nat
<1>1. IsFiniteSet(Ticks)
  BY OptionsAssumption, FS_Interval DEF Ticks
<1>2. InJob \in SUBSET Ticks
  BY DEF InJob
<1>3. IsFiniteSet(InJob)
  BY <1>1, <1>2, FS_Subset
<1> QED  BY <1>3, FS_CardinalityType

LEMMA JobInv ==
  ASSUME Inv, NEW t \in Ticks, WorkerBegins(t) \/ JobStep(t) \/ JobLeaves(t)
  PROVE  Inv'
<1>1. UNCHANGED <<loopVars, closer, nestVars, life, late>>
  BY DEF WorkerBegins, JobStep, JobLeaves, JobEnters, WorkerEnds, schedVars,
         sched!Begin, sched!End
<1>2. LoopOK' /\ ClosersOK' /\ NestOK' /\ ArmInv' /\ GroupInv' /\ CloseInv'
  BY <1>1 DEF Inv, Types, LoopOK, ClosersOK, NestOK, ArmInv, GroupInv, CloseInv,
              loopVars, nestVars
<1> USE DEF Inv, Types, JobsOK, SchedOK, SlotInv
<1>3. CASE WorkerBegins(t)
  <2>1. SchedOK' /\ SlotInv'
    BY <1>3 DEF WorkerBegins, jobVars, sched!Begin, sched!Moves, sched!Places
  <2>2. JobsOK' /\ CountInv'
    BY <1>3 DEF WorkerBegins, jobVars, CountInv, InJob
  <2> QED  BY <1>2, <2>1, <2>2
<1>4. CASE WorkerEnds(t)
  <2>1. SchedOK' /\ SlotInv'
    BY <1>4 DEF WorkerEnds, jobVars, sched!End, sched!Moves, sched!Places
  <2>2. JobsOK' /\ CountInv'
    BY <1>4 DEF WorkerEnds, jobVars, CountInv, InJob
  <2> QED  BY <1>2, <2>1, <2>2
<1>5. CASE JobEnters(t)
  <2>1. t \notin InJob /\ InJob' = InJob \cup {t}
    BY <1>5 DEF JobEnters, JobAt, InJob
  <2>2. Cardinality(InJob') = Cardinality(InJob) + 1
    BY <2>1, InJobFinite, FS_AddElement
  <2>3. CountInv'
    BY <1>5, <2>2 DEF JobEnters, CountInv
  <2>4. JobsOK' /\ SchedOK' /\ SlotInv'
    BY <1>5 DEF JobEnters, JobAt, schedVars
  <2> QED  BY <1>2, <2>3, <2>4
<1>6. CASE JobLeaves(t)
  <2>1. t \in InJob /\ InJob' = InJob \ {t}
    BY <1>6 DEF JobLeaves, JobAt, InJob
  <2>2. Cardinality(InJob') = Cardinality(InJob) - 1
    BY <2>1, InJobFinite, FS_RemoveElement
  <2>3. CountInv'
    BY <1>6, <2>2, InJobFinite DEF JobLeaves, CountInv
  <2>4. JobsOK' /\ SchedOK' /\ SlotInv'
    BY <1>6 DEF JobLeaves, JobAt, schedVars
  <2> QED  BY <1>2, <2>3, <2>4
<1> QED  BY <1>3, <1>4, <1>5, <1>6 DEF JobStep

LEMMA CloserInv ==
  ASSUME Inv, NEW c \in Closers, CloseEnter(c) \/ CloseStep(c)
  PROVE  Inv'
<1> USE DEF Inv, Types, LoopOK, ClosersOK, NestOK, ArmInv, GroupInv, CloseInv,
            loopVars, nestVars, CloseAt
<1>1. CASE CloseEnter(c)
  <2>1. JobsOK' /\ SchedOK' /\ SlotInv' /\ CountInv'
    BY <1>1, QuietJobs DEF CloseEnter
  <2> QED  BY <1>1, <2>1 DEF CloseEnter, schedVars
<1>2. CASE CloseEndsContext(c)
  <2>1. JobsOK' /\ SchedOK' /\ SlotInv' /\ CountInv'
    BY <1>2, QuietJobs DEF CloseEndsContext
  <2> QED  BY <1>2, <2>1 DEF CloseEndsContext, schedVars, nest!InheritedDone
<1>3. CASE CloseCancels(c)
  <2>1. JobsOK' /\ SchedOK' /\ SlotInv' /\ CountInv'
    BY <1>3, QuietJobs DEF CloseCancels
  <2>2. NestOK' /\ GroupInv' /\ (phase = "done" => phase' = "done")
    BY <1>3 DEF CloseCancels, nest!BeginCancel, nest!Phases
  <2>3. LoopOK' /\ ArmInv' /\ ClosersOK' /\ CloseInv'
    BY <1>3, <2>2 DEF CloseCancels, schedVars
  <2> QED  BY <2>1, <2>2, <2>3
<1>4. CASE CloseReturns(c)
  <2>1. JobsOK' /\ SchedOK' /\ SlotInv' /\ CountInv'
    BY <1>4, QuietJobs DEF CloseReturns
  <2> QED  BY <1>4, <2>1 DEF CloseReturns, schedVars
<1>5. CASE CloseStopsSched(c)
  <2>1. JobsOK' /\ CountInv'
    BY <1>5 DEF CloseStopsSched, JobsOK, CountInv, InJob, jobVars
  <2>2. UNCHANGED <<late, place>> /\ (life' = life \/ (life = "open" /\ life' = "closing"))
    BY <1>5 DEF CloseStopsSched, schedVars, sched!Stop
  <2>3. SchedOK' /\ SlotInv'
    BY <1>5, <2>2 DEF CloseStopsSched, SchedOK, SlotInv, jobVars
  <2> QED  BY <1>5, <2>1, <2>2, <2>3 DEF CloseStopsSched
<1> QED  BY <1>1, <1>2, <1>3, <1>4, <1>5 DEF CloseStep

LEMMA NestInv == Inv /\ (ParentEnds \/ NestSteps \/ NestExpires) => Inv'
<1> SUFFICES ASSUME Inv, ParentEnds \/ NestSteps \/ NestExpires PROVE Inv'
  OBVIOUS
<1>1. JobsOK' /\ SchedOK' /\ SlotInv' /\ CountInv'
  BY QuietJobs DEF ParentEnds, NestSteps, NestExpires
<1>2. UNCHANGED <<loopVars, closer, life>>
  BY DEF ParentEnds, NestSteps, NestExpires, schedVars
<1>3. NestOK' /\ GroupInv' /\ (phase = "done" => phase' = "done")
  BY <1>2 DEF Inv, Types, NestOK, GroupInv, loopVars, ParentEnds, NestSteps,
              NestExpires, nest!InheritedDone, nest!BeginCancel,
              nest!CancelDispatched, nest!Drained, nest!CloseDone, nest!Expire,
              nest!Phases
<1> QED  BY <1>1, <1>2, <1>3 DEF Inv, Types, LoopOK, ClosersOK, ArmInv, CloseInv,
                                 loopVars

LEMMA SchedInv == Inv /\ (SchedSteps \/ SchedExpires) => Inv'
<1> SUFFICES ASSUME Inv, SchedSteps \/ SchedExpires PROVE Inv'
  OBVIOUS
<1>1. UNCHANGED <<loopVars, jobVars, closer, nestVars>>
  BY DEF SchedSteps, SchedExpires
<1>2. life = "closed" => life' = "closed"
  BY DEF SchedSteps, SchedExpires, sched!Stop, sched!Closed, sched!GiveUp
<1>3. /\ LoopOK' /\ JobsOK' /\ ClosersOK' /\ NestOK' /\ ArmInv' /\ GroupInv'
      /\ CloseInv' /\ CountInv'
  BY <1>1, <1>2 DEF Inv, Types, LoopOK, JobsOK, ClosersOK, NestOK, ArmInv,
                    GroupInv, CloseInv, CountInv, InJob, loopVars, jobVars,
                    nestVars
<1> USE DEF Inv, Types, SchedOK, SlotInv, jobVars
<1>4. CASE sched!Stop \/ sched!GiveUp
  BY <1>1, <1>3, <1>4 DEF sched!Stop, sched!GiveUp
<1>5. CASE sched!Closed
  <2>1. /\ life' = "closed" /\ late' = late
        /\ late \/ \A t \in Ticks : place[t] # "run"
    BY <1>5 DEF sched!Closed, sched!In
  <2>2. PICK S \in SUBSET sched!In("in") : sched!Leaves(S)
    BY <1>5 DEF sched!Closed
  <2>3. /\ place' \in [Ticks -> sched!Places]
        /\ \A t \in Ticks : place'[t] = "run" <=> place[t] = "run"
    BY <2>2 DEF sched!Leaves, sched!In, sched!Places
  <2> QED  BY <1>1, <1>3, <2>1, <2>3
<1> QED  BY <1>4, <1>5 DEF SchedSteps, SchedExpires

LEMMA InvStep == Inv /\ [Next]_vars => Inv'
<1>1. Inv /\ UNCHANGED vars => Inv'
  BY DEF Inv, Types, LoopOK, JobsOK, ClosersOK, NestOK, SchedOK, ArmInv, GroupInv,
         CloseInv, SlotInv, CountInv, InJob, vars, loopVars, jobVars, nestVars,
         schedVars
<1> QED  BY <1>1, NewInv, LoopInv, JobInv, CloserInv, NestInv, SchedInv DEF Next

LEMMA Inductive == Spec => []Inv
<1> QED  BY InvInit, InvStep, PTL DEF Spec

(* Type correctness of the cron.                                             *)
THEOREM TypeCorrect == Spec => []TypeOK
<1>1. Inv => TypeOK
  BY TypeSplit DEF Inv
<1> QED  BY <1>1, Inductive, PTL

(* When Done is closed the loop is gone and no job runs, unless a timeout    *)
(* ended the wait.                                                           *)
THEOREM DoneIsQuiet == Spec => []DoneMeansQuiet
<1>1. Inv => DoneMeansQuiet
  <2> SUFFICES ASSUME Inv, NEW c \in Closers, closer[c] = "closed"
               PROVE  /\ timedOut \/ loop = "left"
                      /\ late \/ (running = 0 /\ sched!In("run") = {} /\ life = "closed")
    BY DEF DoneMeansQuiet, DoneClosed
  <2>1. new = "up" /\ phase = "done" /\ life = "closed"
    BY DEF Inv, CloseInv
  <2>2. timedOut \/ loop = "left"
    BY <2>1 DEF Inv, GroupInv
  <2>3. ASSUME ~late PROVE running = 0 /\ sched!In("run") = {}
    <3>1. \A t \in Ticks : place[t] # "run"
      BY <2>1, <2>3 DEF Inv, SlotInv
    <3>2. sched!In("run") = {} /\ InJob = {}
      BY <3>1 DEF Inv, SlotInv, InJob, sched!In
    <3> QED  BY <3>2, FS_EmptySet DEF Inv, CountInv
  <2> QED  BY <2>1, <2>2, <2>3
<1> QED  BY <1>1, Inductive, PTL

(* A tick is skipped only when every slot is taken.                          *)
THEOREM SkipsAreJustified == Spec => SkipIsJustified
<1> DEFINE Justified == LoopSkips => Cardinality(sched!In("run")) >= Parallel
<1>1. Inv => Justified
  <2> SUFFICES ASSUME Inv, LoopSkips PROVE Cardinality(sched!In("run")) >= Parallel
    OBVIOUS
  <2>1. running >= Parallel /\ running = Cardinality(InJob)
    BY DEF LoopSkips, Inv, CountInv
  <2>2. InJob \in SUBSET sched!In("run")
    BY DEF Inv, SlotInv, InJob, sched!In
  <2>3. IsFiniteSet(Ticks) /\ sched!In("run") \in SUBSET Ticks
    BY OptionsAssumption, FS_Interval DEF Ticks, sched!In
  <2>4. IsFiniteSet(sched!In("run")) /\ Cardinality(sched!In("run")) \in Nat
    BY <2>3, FS_Subset, FS_CardinalityType
  <2>5. Cardinality(InJob) <= Cardinality(sched!In("run"))
    BY <2>2, <2>4, FS_Subset
  <2>6. Cardinality(InJob) \in Nat
    BY InJobFinite DEF Inv, Types
  <2> QED  BY <2>1, <2>4, <2>5, <2>6, OptionsAssumption
<1>2. Spec => [][Justified]_vars
  BY <1>1, Inductive, PTL DEF Spec
<1> QED  BY <1>2 DEF SkipIsJustified
=============================================================================
