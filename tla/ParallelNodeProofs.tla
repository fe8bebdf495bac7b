------------------------- MODULE ParallelNodeProofs --------------------------
(***************************************************************************)
(* Proofs about ParallelNode, for any number of jobs.                      *)
(***************************************************************************)
EXTENDS ParallelNode, FiniteSetTheorems, TLAPS

-----------------------------------------------------------------------------
(* The types, in the parts that belong to the node, its jobs and its nest.   *)
NodeOK == /\ node \in NodePcs
          /\ fail \in Kinds \cup {"none"}
          /\ cancels \subseteq Cancelers
          /\ parentDone \in BOOLEAN

JobsOK == /\ job \in [Jobs -> JobPcs]
          /\ left \in Int
          /\ res \subseteq Jobs

NestOK == /\ phase \in nest!Phases /\ wg \subseteq Jobs /\ dispatched \in BOOLEAN
          /\ cause \in {{}, {"failed"}, {"refused"}, {"parent"}} /\ timedOut = FALSE

LEMMA TypeSplit ==
  /\ TypeOK <=> NodeOK /\ JobsOK /\ NestOK
  /\ TypeOK' <=> NodeOK' /\ JobsOK' /\ NestOK'
BY DEF TypeOK, NodeOK, JobsOK, NestOK

LEMMA TypeInit == Init => TypeOK
<1> SUFFICES ASSUME Init PROVE NodeOK /\ JobsOK /\ NestOK
  BY TypeSplit
<1>1. Cardinality(Jobs) \in Int
  BY JobsAssumption, FS_CardinalityType
<1> QED  BY <1>1 DEF Init, nest!NestInit, NodeOK, JobsOK, NestOK, NodePcs, JobPcs,
                     nest!Phases

LEMMA NodeType ==
  ASSUME TypeOK, NodeStep
  PROVE  TypeOK'
<1> SUFFICES ASSUME NodeOK, JobsOK, NestOK PROVE NodeOK' /\ JobsOK' /\ NestOK'
  BY TypeSplit
<1> USE DEF NodeOK, JobsOK, NestOK, shared, nestVars, NodePcs, JobPcs
<1>1. CASE SpawnEnd \/ Wake \/ Summarize
  BY <1>1 DEF SpawnEnd, Wake, Summarize, SummaryEnds
<1>2. CASE SpawnRefused
  BY <1>2 DEF SpawnRefused, RefusedBy, Keep, Kinds, Cancelers, nest!SpawnRefused,
              nest!nestVars
<1>3. ASSUME NEW j \in Jobs, SpawnJob(j) PROVE NodeOK' /\ JobsOK' /\ NestOK'
  BY <1>3 DEF SpawnJob, JobGoes, nest!Spawn
<1> QED  BY <1>1, <1>2, <1>3 DEF NodeStep

LEMMA JobType ==
  ASSUME TypeOK, NEW j \in Jobs, JobReturn(j) \/ JobStep(j)
  PROVE  TypeOK'
<1> SUFFICES ASSUME NodeOK, JobsOK, NestOK PROVE NodeOK' /\ JobsOK' /\ NestOK'
  BY TypeSplit
<1> USE DEF NodeOK, JobsOK, NestOK, shared, nestVars, JobPcs, JobGoes, Cancelers
<1>1. CASE JobReturn(j)
  <2>1. NodeOK' /\ NestOK' /\ left' \in Int /\ res' \subseteq Jobs
    BY <1>1 DEF JobReturn
  <2>2. job' \in [Jobs -> JobPcs]
    BY <1>1 DEF JobReturn
  <2> QED  BY <2>1, <2>2
<1>2. CASE JobFailed(j)
  <2>1. /\ UNCHANGED <<left, res, parentDone, nestVars>>
        /\ \/ /\ Keep(job[j]) /\ cancels' = cancels \cup {j}
              /\ job' = [job EXCEPT ![j] = "leaving"] /\ UNCHANGED node
           \/ node' = "panicked" /\ UNCHANGED <<fail, cancels, job>>
    BY <1>2 DEF JobFailed, FailedThen
  <2>2. job[j] \in {"own", "echo"}
    BY <1>2 DEF JobFailed, FailedThen
  <2>3. NodeOK'
    BY <2>1, <2>2 DEF Keep, Kinds, NodePcs
  <2>4. JobsOK' /\ NestOK'
    BY <2>1
  <2> QED  BY <2>3, <2>4
<1>3. CASE JobCounted(j)
  <2>1. JobsOK' /\ NestOK' /\ UNCHANGED <<node, fail, parentDone>>
    BY <1>3 DEF JobCounted, CountedBefore
  <2>2. cancels' \subseteq Cancelers
    BY <1>3 DEF JobCounted, CountedBefore
  <2> QED  BY <2>1, <2>2
<1>4. CASE JobLeave(j)
  BY <1>4 DEF JobLeave, nest!Return
<1> QED  BY <1>1, <1>2, <1>3, <1>4 DEF JobStep

LEMMA CancelType ==
  ASSUME TypeOK,
         NestStep \/ ParentCancel \/ \E c \in Cancelers : CancelStep(c)
  PROVE  TypeOK'
<1> SUFFICES ASSUME NodeOK, JobsOK, NestOK PROVE NodeOK' /\ JobsOK' /\ NestOK'
  BY TypeSplit
<1> USE DEF NodeOK, JobsOK, NestOK, shared, nestVars, nest!Phases
<1>1. ASSUME NEW c \in Cancelers, CancelBegin(c)
      PROVE  NodeOK' /\ JobsOK' /\ NestOK'
  BY <1>1 DEF CancelBegin, nest!BeginCancel, CauseOf
<1>2. ASSUME NEW c \in Cancelers, CancelEnd(c)
      PROVE  NodeOK' /\ JobsOK' /\ NestOK'
  BY <1>2 DEF CancelEnd
<1>3. CASE ParentCancel
  BY <1>3 DEF ParentCancel, nest!InheritedDone
<1>4. CASE WatcherCancel
  BY <1>4 DEF WatcherCancel, nest!BeginCancel
<1>5. CASE NestDown
  BY <1>5 DEF NestDown, nest!CancelDispatched, nest!Drained, nest!CloseDone
<1> QED  BY <1>1, <1>2, <1>3, <1>4, <1>5 DEF NestStep, CancelStep

LEMMA TypeStep == TypeOK /\ [Next]_vars => TypeOK'
<1>1. TypeOK /\ UNCHANGED vars => TypeOK'
  BY DEF TypeOK, vars, shared, nestVars
<1> QED  BY <1>1, NodeType, JobType, CancelType DEF Next

(* Type correctness of the fan-out.                                          *)
THEOREM TypeCorrect == Spec => []TypeOK
<1> QED  BY TypeInit, TypeStep, PTL DEF Spec

-----------------------------------------------------------------------------
(* Why the summary may read res without a lock.  The nest counts every job   *)
(* that has been started and has not left; the node is past its loop with no *)
(* failure only when it has started them all; and a job is past its return   *)
(* with no failure kept only if it has stored its output.                    *)
GroupInv == \A j \in Jobs : job[j] \in {"none", "exited"} \/ j \in wg

DrainInv == phase \in {"after", "done"} => wg = {}

StartedInv == node # "spawning" /\ fail = "none" => \A j \in Jobs : job[j] # "none"

StoredInv ==
  \A j \in Jobs :
    job[j] = "stored" \/ (job[j] \in {"leaving", "exited"} /\ fail = "none") => j \in res

JoinInv == GroupInv /\ DrainInv /\ StartedInv /\ StoredInv /\ SummaryComplete

LEMMA NodeJoin ==
  ASSUME TypeOK, JoinInv, NodeStep
  PROVE  JoinInv'
<1> USE DEF JoinInv, GroupInv, DrainInv, StartedInv, StoredInv, SummaryComplete,
            TypeOK, shared, nestVars
<1>1. CASE SpawnEnd
  BY <1>1 DEF SpawnEnd
<1>2. CASE Summarize
  BY <1>2 DEF Summarize, SummaryEnds
<1>3. CASE Wake
  <2>1. \A j \in Jobs : job[j] \in {"none", "exited"}
    BY <1>3 DEF Wake
  <2>2. fail = "none" => res = Jobs /\ \A j \in Jobs : job[j] = "exited"
    BY <1>3, <2>1 DEF Wake
  <2> QED  BY <1>3, <2>2 DEF Wake
<1>4. CASE SpawnRefused
  <2>1. UNCHANGED <<job, res, wg, phase>>
    BY <1>4 DEF SpawnRefused, RefusedBy, nest!SpawnRefused, nest!nestVars
  <2>2. fail' # "none" /\ node' \in {"waiting", "panicked"}
    BY <1>4 DEF SpawnRefused, RefusedBy, Keep
  <2> QED  BY <2>1, <2>2
<1>5. ASSUME NEW j \in Jobs, SpawnJob(j) PROVE JoinInv'
  BY <1>5 DEF SpawnJob, JobGoes, nest!Spawn
<1> QED  BY <1>1, <1>2, <1>3, <1>4, <1>5 DEF NodeStep

LEMMA JobJoin ==
  ASSUME TypeOK, JoinInv, NEW j \in Jobs, JobReturn(j) \/ JobStep(j)
  PROVE  JoinInv'
<1> USE DEF JoinInv, GroupInv, DrainInv, StartedInv, StoredInv, SummaryComplete,
            TypeOK, shared, nestVars, JobGoes
<1>1. CASE JobReturn(j)
  <2>1. /\ \E at \in {"own", "echo", "stored"} :
             job' = [job EXCEPT ![j] = at] /\ (at = "stored" => j \in res')
        /\ res \subseteq res' /\ res' \subseteq Jobs
        /\ UNCHANGED <<node, fail, wg, phase>>
    BY <1>1 DEF JobReturn
  <2> QED  BY <1>1, <2>1 DEF JobReturn
<1>2. CASE JobFailed(j)
  <2>1. fail' # "none"
    BY <1>2 DEF JobFailed, FailedThen, Keep
  <2> QED  BY <1>2, <2>1 DEF JobFailed, FailedThen
<1>3. CASE JobCounted(j)
  BY <1>3 DEF JobCounted, CountedBefore
<1>4. CASE JobLeave(j)
  BY <1>4 DEF JobLeave, nest!Return
<1> QED  BY <1>1, <1>2, <1>3, <1>4 DEF JobStep

LEMMA CancelJoin ==
  ASSUME TypeOK, JoinInv,
         NestStep \/ ParentCancel \/ \E c \in Cancelers : CancelStep(c)
  PROVE  JoinInv'
<1>1. UNCHANGED <<node, job, fail, res, wg>>
  BY DEF NestStep, ParentCancel, CancelStep, CancelBegin, CancelEnd,
         WatcherCancel, NestDown, shared, nestVars, nest!BeginCancel,
         nest!InheritedDone, nest!CancelDispatched, nest!Drained, nest!CloseDone
<1>2. DrainInv'
  BY DEF JoinInv, DrainInv, NestStep, ParentCancel, CancelStep, CancelBegin,
         CancelEnd, WatcherCancel, NestDown, shared, nestVars, nest!BeginCancel,
         nest!InheritedDone, nest!CancelDispatched, nest!Drained, nest!CloseDone
<1> QED  BY <1>1, <1>2 DEF JoinInv, GroupInv, StartedInv, StoredInv,
                           SummaryComplete

(* The summary is computed from the outputs of all jobs, none of which is    *)
(* still there to write another, however a cancellation meets the loop.      *)
THEOREM SummaryIsComplete == Spec => []SummaryComplete
<1>1. Init => TypeOK /\ JoinInv
  <2> SUFFICES ASSUME Init PROVE JoinInv
    BY TypeInit
  <2> QED  BY DEF Init, nest!NestInit, JoinInv, GroupInv, DrainInv, StartedInv,
                  StoredInv, SummaryComplete
<1>2. TypeOK /\ JoinInv /\ [Next]_vars => (TypeOK /\ JoinInv)'
  <2>1. JoinInv /\ UNCHANGED vars => JoinInv'
    BY DEF JoinInv, GroupInv, DrainInv, StartedInv, StoredInv, SummaryComplete,
           vars, shared, nestVars
  <2> QED  BY <2>1, TypeStep, NodeJoin, JobJoin, CancelJoin DEF Next
<1>3. JoinInv => SummaryComplete
  BY DEF JoinInv
<1> QED  BY <1>1, <1>2, <1>3, PTL DEF Spec

-----------------------------------------------------------------------------
(* Why the failure is an original one.  Unless the pipeline is canceled, the *)
(* nest is taken down, or the jobs' context ended, only after the failure of *)
(* a job was kept or all jobs have been counted, and then no job is left to  *)
(* fail or to be refused.  That the job which counts left down to zero is    *)
(* the last one rests on what the counter counts.                            *)
Counted == {j \in res : job[j] \in {"leaving", "exited"}}

LeftInv ==
  /\ left = Cardinality(Jobs) - Cardinality(Counted)
  /\ \A j \in res : job[j] \in {"stored", "leaving", "exited"}

Cause == phase # "open" \/ dispatched \/ cancels # {}
Blamed == fail = "own" \/ (fail = "none" /\ Counted = Jobs)

BlameInv ==
  ~parentDone =>
    /\ Cause => Blamed
    /\ fail \in {"none", "own"}
    /\ \A j \in Jobs : job[j] = "echo" => fail = "own"

LEMMA CountedFinite ==
  TypeOK => IsFiniteSet(Counted) /\ Cardinality(Counted) \in Nat
            /\ Cardinality(Jobs) \in Nat
<1> SUFFICES ASSUME TypeOK
             PROVE  IsFiniteSet(Counted) /\ Cardinality(Counted) \in Nat
                    /\ Cardinality(Jobs) \in Nat
  OBVIOUS
<1>1. Counted \in SUBSET Jobs
  BY DEF Counted, TypeOK
<1>2. IsFiniteSet(Counted)
  BY <1>1, JobsAssumption, FS_Subset
<1> QED  BY <1>2, JobsAssumption, FS_CardinalityType

LEMMA LastIsLast ==
  ASSUME TypeOK, LeftInv, NEW j \in Jobs, j \notin Counted, left = 1
  PROVE  Counted \cup {j} = Jobs
<1>1. Cardinality(Counted \cup {j}) = Cardinality(Counted) + 1
  BY CountedFinite, FS_AddElement
<1>2. Cardinality(Counted \cup {j}) = Cardinality(Jobs)
  BY <1>1, CountedFinite DEF LeftInv
<1>3. Counted \cup {j} \in SUBSET Jobs
  BY DEF Counted, TypeOK
<1> QED  BY <1>2, <1>3, JobsAssumption, FS_Subset

LEMMA JobLeft ==
  ASSUME TypeOK, StoredInv, LeftInv, NEW j \in Jobs, JobReturn(j) \/ JobStep(j)
  PROVE  LeftInv'
<1> USE DEF TypeOK, JobGoes
<1>1. CASE JobReturn(j)
  <2>1. j \notin res /\ left' = left
    BY <1>1 DEF JobReturn, LeftInv
  <2>2. /\ res' \in {res, res \cup {j}}
        /\ res' # res => job'[j] = "stored"
        /\ \A k \in Jobs : k # j => job'[k] = job[k]
        /\ job'[j] \in {"own", "echo", "stored"}
    BY <1>1 DEF JobReturn
  <2>3. Counted' = Counted
    BY <2>1, <2>2 DEF Counted
  <2>4. \A k \in res' : job'[k] \in {"stored", "leaving", "exited"}
    <3> SUFFICES ASSUME NEW k \in res' PROVE job'[k] \in {"stored", "leaving", "exited"}
      OBVIOUS
    <3>1. CASE k = j
      BY <2>1, <2>2, <3>1
    <3>2. CASE k # j
      BY <2>2, <3>2 DEF LeftInv
    <3> QED  BY <3>1, <3>2
  <2> QED  BY <2>1, <2>3, <2>4 DEF LeftInv
<1>2. CASE JobFailed(j)
  <2>1. j \notin res /\ res' = res /\ left' = left
    BY <1>2 DEF JobFailed, FailedThen, LeftInv
  <2>2. \A k \in Jobs : k # j => job'[k] = job[k]
    BY <1>2 DEF JobFailed, FailedThen
  <2>3. Counted' = Counted
    BY <2>1, <2>2 DEF Counted
  <2> QED  BY <2>1, <2>2, <2>3 DEF LeftInv
<1>3. CASE JobLeave(j)
  <2>1. res' = res /\ left' = left /\ job[j] = "leaving" /\ job'[j] = "exited"
    BY <1>3 DEF JobLeave, shared
  <2>2. \A k \in Jobs : k # j => job'[k] = job[k]
    BY <1>3 DEF JobLeave
  <2>3. Counted' = Counted
    BY <2>1, <2>2 DEF Counted
  <2> QED  BY <2>1, <2>2, <2>3 DEF LeftInv
<1>4. CASE JobCounted(j)
  <2>1. /\ res' = res /\ left' = left - 1 /\ j \in res
        /\ job[j] = "stored" /\ job'[j] = "leaving"
    BY <1>4 DEF JobCounted, CountedBefore, StoredInv
  <2>2. \A k \in Jobs : k # j => job'[k] = job[k]
    BY <1>4 DEF JobCounted, CountedBefore
  <2>3. j \notin Counted /\ Counted' = Counted \cup {j}
    BY <2>1, <2>2 DEF Counted
  <2>4. Cardinality(Counted') = Cardinality(Counted) + 1
    BY <2>3, CountedFinite, FS_AddElement
  <2>5. left' = Cardinality(Jobs) - Cardinality(Counted')
    BY <2>1, <2>4, CountedFinite DEF LeftInv
  <2> QED  BY <2>1, <2>2, <2>5 DEF LeftInv
<1> QED  BY <1>1, <1>2, <1>3, <1>4 DEF JobStep

LEMMA OtherLeft ==
  ASSUME TypeOK, LeftInv, NodeStep \/ NestStep \/ ParentCancel
                          \/ \E c \in Cancelers : CancelStep(c)
  PROVE  LeftInv' /\ Counted' = Counted
<1> USE DEF TypeOK, shared
<1>1. left' = left /\ res' = res
  BY DEF NodeStep, NestStep, ParentCancel, CancelStep, SpawnEnd, SpawnRefused,
         RefusedBy, Wake, Summarize, SpawnJob, CancelBegin, CancelEnd,
         WatcherCancel, NestDown
<1>2. \/ job' = job
      \/ \E j \in Jobs : job[j] = "none" /\ job' = [job EXCEPT ![j] = "running"]
  BY DEF NodeStep, NestStep, ParentCancel, CancelStep, SpawnEnd, SpawnRefused,
         RefusedBy, Wake, Summarize, SpawnJob, JobGoes, CancelBegin, CancelEnd,
         WatcherCancel, NestDown
<1>3. \A k \in res : job'[k] = job[k]
  BY <1>2 DEF LeftInv
<1>4. Counted' = Counted
  BY <1>1, <1>3 DEF Counted
<1> QED  BY <1>1, <1>3, <1>4 DEF LeftInv

LEMMA JobBlame ==
  ASSUME TypeOK, StoredInv, LeftInv, BlameInv, NEW j \in Jobs,
         JobReturn(j) \/ JobStep(j)
  PROVE  BlameInv'
<1> SUFFICES ASSUME ~parentDone PROVE BlameInv'
  BY DEF BlameInv, JobReturn, JobStep, JobFailed, FailedThen, JobCounted,
         CountedBefore, JobLeave
<1>0. /\ Cause => Blamed
      /\ fail \in {"none", "own"}
      /\ \A k \in Jobs : job[k] = "echo" => fail = "own"
  BY DEF BlameInv
<1> USE DEF TypeOK, JobGoes
<1>1. CASE JobReturn(j)
  <2>1. UNCHANGED <<fail, cancels, phase, dispatched, parentDone>>
    BY <1>1 DEF JobReturn, nestVars
  <2>2. j \notin Counted /\ (fail = "own" \/ ~dispatched)
    BY <1>0, <1>1 DEF JobReturn, Counted, Cause, Blamed
  <2>3. job' \in {[job EXCEPT ![j] = at] : at \in {"own", "echo", "stored"}}
        /\ (job'[j] = "echo" => dispatched)
    BY <1>1 DEF JobReturn
  <2>4. Cause' => fail = "own"
    BY <1>0, <2>1, <2>2 DEF Cause, Blamed
  <2> QED  BY <1>0, <2>1, <2>2, <2>3, <2>4 DEF BlameInv, Blamed
<1>2. CASE JobFailed(j)
  <2>1. UNCHANGED <<phase, dispatched, parentDone>>
    BY <1>2 DEF JobFailed, FailedThen, nestVars
  <2>2. fail' = "own"
    BY <1>0, <1>2 DEF JobFailed, FailedThen, Keep
  <2> QED  BY <2>1, <2>2 DEF BlameInv, Blamed
<1>3. CASE JobCounted(j)
  <2>1. /\ UNCHANGED <<fail, phase, dispatched, parentDone, res>>
        /\ job[j] = "stored" /\ job' = [job EXCEPT ![j] = "leaving"]
        /\ j \in res /\ (cancels' = cancels \/ left = 1)
    BY <1>3 DEF JobCounted, CountedBefore, nestVars, StoredInv
  <2>2. j \notin Counted /\ Counted' = Counted \cup {j}
    BY <2>1 DEF Counted
  <2>3. left = 1 => Counted' = Jobs
    BY <2>2, LastIsLast
  <2>4. Cause' => Blamed'
    BY <1>0, <2>1, <2>2, <2>3 DEF Cause, Blamed
  <2> QED  BY <1>0, <2>1, <2>4 DEF BlameInv
<1>4. CASE JobLeave(j)
  <2>1. /\ UNCHANGED <<fail, phase, dispatched, parentDone, res, cancels>>
        /\ job[j] = "leaving" /\ job' = [job EXCEPT ![j] = "exited"]
    BY <1>4 DEF JobLeave, shared, nest!Return
  <2>2. Counted' = Counted
    BY <2>1 DEF Counted
  <2> QED  BY <1>0, <2>1, <2>2 DEF BlameInv, Cause, Blamed
<1> QED  BY <1>1, <1>2, <1>3, <1>4 DEF JobStep

LEMMA OtherBlame ==
  ASSUME TypeOK, LeftInv, BlameInv, NodeStep \/ NestStep \/ ParentCancel
                                    \/ \E c \in Cancelers : CancelStep(c)
  PROVE  BlameInv'
<1>0. Counted' = Counted
  BY OtherLeft
<1> USE DEF TypeOK, shared, nestVars, BlameInv, Cause, Blamed
<1>1. CASE SpawnEnd \/ Wake \/ Summarize
  BY <1>0, <1>1 DEF SpawnEnd, Wake, Summarize
<1>2. CASE SpawnRefused
  <2>1. /\ UNCHANGED <<job, phase, dispatched, parentDone>>
        /\ phase = "done" /\ \E j \in Jobs : job[j] = "none"
        /\ fail' = fail \/ fail = "none"
    BY <1>2 DEF SpawnRefused, RefusedBy, Keep, nest!SpawnRefused, nest!nestVars
  <2>2. Counted # Jobs
    BY <2>1 DEF Counted
  <2>3. ~parentDone => fail = "own"
    BY <2>1, <2>2
  <2> QED  BY <2>1, <2>3
<1>3. ASSUME NEW j \in Jobs, SpawnJob(j) PROVE BlameInv'
  BY <1>0, <1>3 DEF SpawnJob, JobGoes, nest!Spawn
<1>4. ASSUME NEW c \in Cancelers, CancelStep(c) PROVE BlameInv'
  BY <1>0, <1>4 DEF CancelStep, CancelBegin, CancelEnd, nest!BeginCancel
<1>5. CASE ParentCancel
  BY <1>5 DEF ParentCancel
<1>6. CASE NestStep
  BY <1>0, <1>6 DEF NestStep, WatcherCancel, NestDown, nest!BeginCancel,
                    nest!CancelDispatched, nest!Drained, nest!CloseDone
<1> QED  BY <1>1, <1>2, <1>3, <1>4, <1>5, <1>6 DEF NodeStep

(* Unless the pipeline itself was canceled, the error a parallel stage       *)
(* answers with is one that a job of its own failed with first.              *)
THEOREM BlameIsTheirs == Spec => []BlameIsOriginal
<1> DEFINE Inv == TypeOK /\ JoinInv /\ LeftInv /\ BlameInv
<1>1. Init => Inv
  <2> SUFFICES ASSUME Init PROVE LeftInv /\ BlameInv
    BY TypeInit DEF Init, nest!NestInit, JoinInv, GroupInv, DrainInv, StartedInv,
                    StoredInv, SummaryComplete
  <2>1. Counted = {}
    BY DEF Init, Counted
  <2>2. LeftInv
    BY <2>1, JobsAssumption, FS_EmptySet, FS_CardinalityType DEF Init, LeftInv
  <2> QED  BY <2>2 DEF Init, nest!NestInit, BlameInv, Cause
<1>2. Inv /\ [Next]_vars => Inv'
  <2> SUFFICES ASSUME Inv, [Next]_vars PROVE TypeOK' /\ JoinInv' /\ LeftInv' /\ BlameInv'
    OBVIOUS
  <2>1. TypeOK'
    BY TypeStep
  <2>2. CASE UNCHANGED vars
    <3> USE <2>2 DEF vars, shared, nestVars
    <3>1. JoinInv'
      BY DEF JoinInv, GroupInv, DrainInv, StartedInv, StoredInv, SummaryComplete
    <3>2. Counted' = Counted
      BY DEF Counted
    <3>3. LeftInv' /\ BlameInv'
      BY <3>2 DEF LeftInv, BlameInv, Cause, Blamed
    <3> QED  BY <2>1, <3>1, <3>3
  <2>3. ASSUME NEW j \in Jobs, JobReturn(j) \/ JobStep(j)
        PROVE  JoinInv' /\ LeftInv' /\ BlameInv'
    <3>1. StoredInv
      BY DEF JoinInv
    <3> QED  BY <2>3, <3>1, JobJoin, JobLeft, JobBlame
  <2>4. CASE NodeStep \/ NestStep \/ ParentCancel \/ \E c \in Cancelers : CancelStep(c)
    BY <2>1, <2>4, NodeJoin, CancelJoin, OtherLeft, OtherBlame
  <2> QED  BY <2>1, <2>2, <2>3, <2>4 DEF Next
<1>3. Inv => BlameIsOriginal
  BY DEF BlameInv, BlameIsOriginal
<1> QED  BY <1>1, <1>2, <1>3, PTL DEF Spec
=============================================================================
