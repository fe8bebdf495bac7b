---------------------------- MODULE ParallelNode -----------------------------
(***************************************************************************)
(* pkg/orch/pipe/node.go, ParallelNode.execute: what a parallel stage does *)
(* with one item.  It starts a goroutine per job in a nest of its own, has *)
(* the nest canceled by the first failure or by the last success, waits    *)
(* for Done, and answers with the failure it kept or with the summary.     *)
(*                                                                         *)
(* For module Pipeline this whole execution is one JobOk or JobFail step   *)
(* of its stage.  The jobs are not told apart by their place in n.jobs.    *)
(***************************************************************************)
EXTENDS Integers, FiniteSets

CONSTANTS Jobs          \* the stage's jobs; the builders ensure there is one

ASSUME JobsAssumption ==
  IsFiniteSet(Jobs) /\ Jobs # {} /\ Jobs \cap {"last", "refused"} = {}

VARIABLES node,         \* where the stage's goroutine is
          job,          \* where each job's goroutine is
          fail,         \* the kind of error fail holds
          left,         \* the counter left
          res,          \* the jobs whose output is in res
          cancels,      \* the goroutines started to cancel the nest
          parentDone,   \* the pipeline's context is done
          phase, wg, dispatched, cause, timedOut   \* the nest of the fan-out

nest == INSTANCE NestLifecycle
          WITH Goroutines <- Jobs, HasTimeout <- FALSE,
               Causes <- {{}, {"failed"}, {"refused"}, {"parent"}}

nestVars == <<phase, wg, dispatched, cause, timedOut>>
shared == <<fail, left, res, cancels>>
vars == <<node, job, shared, parentDone, nestVars>>

NodePcs == {"spawning", "waiting", "summing", "forwarded", "failed", "panicked"}
JobPcs == {"none", "running", "own", "echo", "stored", "leaving", "exited"}
Kinds == {"own", "echo", "refused"}

Init ==
  /\ node = "spawning"
  /\ job = [j \in Jobs |-> "none"]
  /\ fail = "none" /\ left = Cardinality(Jobs) /\ res = {} /\ cancels = {}
  /\ parentDone = FALSE
  /\ nest!NestInit

-----------------------------------------------------------------------------
(* The loop over the jobs.  Spawn fails once the nest is down; its error has *)
(* another code than the jobs', and whether CompareAndSwap panics when it    *)
(* finds a value of another concrete type is up to package codex.            *)
JobGoes(j, at) == job' = [job EXCEPT ![j] = at]
Keep(kind) == fail' = IF fail = "none" THEN kind ELSE fail

SpawnJob(j) ==
  /\ node = "spawning" /\ job[j] = "none"
  /\ nest!Spawn(j)
  /\ JobGoes(j, "running")
  /\ UNCHANGED <<node, shared, parentDone>>

SpawnEnd ==
  /\ node = "spawning" /\ \A j \in Jobs : job[j] # "none"
  /\ node' = "waiting"
  /\ UNCHANGED <<job, shared, parentDone, nestVars>>

RefusedBy(keeps) ==
  /\ node = "spawning" /\ \E j \in Jobs : job[j] = "none"
  /\ nest!SpawnRefused
  /\ \/ node' = "waiting" /\ cancels' = cancels \cup {"refused"} /\ keeps
     \/ fail # "none" /\ node' = "panicked" /\ UNCHANGED <<cancels, fail>>
  /\ UNCHANGED <<job, left, res, parentDone>>

SpawnRefusedSilently == RefusedBy(UNCHANGED fail)   \* mutant: error not kept
SpawnRefused == RefusedBy(Keep("refused"))

-----------------------------------------------------------------------------
(* A job returns its output, an error or panic of its own, or, its context   *)
(* done, gives up with the context's error.                                  *)
JobReturn(j) ==
  /\ job[j] = "running"
  /\ \/ JobGoes(j, "own") /\ UNCHANGED res
     \/ dispatched /\ JobGoes(j, "echo") /\ UNCHANGED res
     \/ JobGoes(j, "stored") /\ res' = res \cup {j}
  /\ UNCHANGED <<node, fail, left, cancels, parentDone, nestVars>>

(* The first failure is kept, every failure cancels, in a goroutine of its   *)
(* own because Cancel waits for the jobs; so does the success that counts    *)
(* left down to zero.  A later failure panics in CompareAndSwap if package   *)
(* codex gives it another concrete type than the kept one's, and nothing in  *)
(* the job's goroutine recovers: the program ends, here with the node.       *)
FailedThen(j, keeps, started) ==
  /\ job[j] \in {"own", "echo"}
  /\ \/ /\ keeps /\ cancels' = cancels \cup started
        /\ JobGoes(j, "leaving") /\ UNCHANGED node
     \/ fail # "none" /\ node' = "panicked" /\ UNCHANGED <<fail, cancels, job>>
  /\ UNCHANGED <<left, res, parentDone, nestVars>>

JobFailedLastWins(j) == FailedThen(j, fail' = job[j], {j})   \* mutant: Store
JobFailedQuietly(j) == FailedThen(j, Keep(job[j]), {})  \* mutant: no Cancel
JobFailed(j) == FailedThen(j, Keep(job[j]), {j})

CountedBefore(j, last) ==
  /\ job[j] = "stored"
  /\ left' = left - 1
  /\ cancels' = cancels \cup IF left = last THEN {"last"} ELSE {}
  /\ JobGoes(j, "leaving")
  /\ UNCHANGED <<node, fail, res, parentDone, nestVars>>

JobCountedLate(j) == CountedBefore(j, 0)    \* mutant: left.Add(-1) == -1
JobCounted(j) == CountedBefore(j, 1)

JobLeave(j) ==
  /\ job[j] = "leaving"
  /\ nest!Return(j)
  /\ JobGoes(j, "exited")
  /\ UNCHANGED <<node, shared, parentDone>>

-----------------------------------------------------------------------------
(* The nest's Cancel, called by those goroutines and by its watcher: one     *)
(* wins, the others return when the nest is down.                            *)
CauseOf(c) == IF c = "last" THEN {} ELSE IF c = "refused" THEN {c} ELSE {"failed"}

CancelBegin(c) ==
  /\ c \in cancels
  /\ nest!BeginCancel(CauseOf(c))
  /\ UNCHANGED <<node, job, shared, parentDone>>

CancelEnd(c) ==
  /\ c \in cancels /\ phase = "done"
  /\ cancels' = cancels \ {c}
  /\ UNCHANGED <<node, job, fail, left, res, parentDone, nestVars>>

ParentCancel ==
  /\ ~parentDone
  /\ parentDone' = TRUE
  /\ nest!InheritedDone
  /\ UNCHANGED <<node, job, shared>>

WatcherCancel ==
  /\ dispatched
  /\ nest!BeginCancel({"parent"})
  /\ UNCHANGED <<node, job, shared, parentDone>>

NestDown ==
  /\ nest!CancelDispatched \/ nest!Drained \/ nest!CloseDone
  /\ UNCHANGED <<node, job, shared, parentDone>>

-----------------------------------------------------------------------------
(* After Done: the kept failure, or the summary, which may panic, and Send.  *)
Wake ==
  /\ node = "waiting" /\ phase = "done"
  /\ node' = IF fail = "none" THEN "summing" ELSE "failed"
  /\ UNCHANGED <<job, shared, parentDone, nestVars>>

SummaryEnds == {"forwarded", "failed"}

Summarize ==
  /\ node = "summing"
  /\ node' \in SummaryEnds
  /\ UNCHANGED <<job, shared, parentDone, nestVars>>

-----------------------------------------------------------------------------
NodeStep == SpawnEnd \/ SpawnRefused \/ Wake \/ Summarize \/ \E j \in Jobs : SpawnJob(j)
JobStep(j) == JobFailed(j) \/ JobCounted(j) \/ JobLeave(j)
Cancelers == Jobs \cup {"last", "refused"}
CancelStep(c) == CancelBegin(c) \/ CancelEnd(c)
NestStep == WatcherCancel \/ NestDown

Next ==
  \/ NodeStep \/ NestStep \/ ParentCancel
  \/ \E j \in Jobs : JobReturn(j) \/ JobStep(j)
  \/ \E c \in Cancelers : CancelStep(c)

Spec == Init /\ [][Next]_vars

(* Goroutines are scheduled; neither need a job return nor the parent end.   *)
Fairness ==
  /\ WF_vars(NodeStep) /\ WF_vars(NestStep)
  /\ \A j \in Jobs : WF_vars(JobStep(j))
  /\ \A c \in Cancelers : WF_vars(CancelStep(c))

FairSpec == Spec /\ Fairness

JobsReturn == \A j \in Jobs : WF_vars(JobReturn(j))
JobsHeedTheirContext == \A j \in Jobs : WF_vars(dispatched /\ JobReturn(j))

-----------------------------------------------------------------------------
TypeOK ==
  /\ node \in NodePcs
  /\ job \in [Jobs -> JobPcs]
  /\ fail \in Kinds \cup {"none"}
  /\ left \in Int
  /\ res \subseteq Jobs
  /\ cancels \subseteq Cancelers
  /\ parentDone \in BOOLEAN
  /\ phase \in nest!Phases /\ wg \subseteq Jobs /\ dispatched \in BOOLEAN
  /\ cause \in {{}, {"failed"}, {"refused"}, {"parent"}} /\ timedOut = FALSE

(* The summary reads res without a lock: by then every job has stored its    *)
(* output and is gone, although a cancellation may come while the loop is    *)
(* still starting jobs (node.go:154-178).                                    *)
SummaryComplete ==
  node \in {"summing", "forwarded"} =>
    res = Jobs /\ \A j \in Jobs : job[j] = "exited"

(* The error an item fails with is a job's own, not that of a job or a Spawn *)
(* that only felt the cancellation the first one caused - unless it is the   *)
(* pipeline that was canceled (node.go:156-158, 166-168).                    *)
BlameIsOriginal ==
  node = "failed" /\ ~parentDone => fail \in {"own", "none"}

(* Fail fast: a failure, or the end of the pipeline's context, ends the      *)
(* execution without waiting for the others' work, if jobs return when their *)
(* context is done.                                                          *)
Ended == node \in {"forwarded", "failed", "panicked"}
FailsFast ==
  JobsHeedTheirContext => (fail # "none" \/ parentDone) ~> Ended

(* If every job returns, so does the execution, whoever fails or cancels     *)
(* when: nobody is left to wait for a Cancel that no one calls.              *)
Answers == JobsReturn => <>Ended
=============================================================================
