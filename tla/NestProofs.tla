----------------------------- MODULE NestProofs ------------------------------
(***************************************************************************)
(* Proofs about Nest, for any callers, workers and options.                *)
(***************************************************************************)
EXTENDS Nest, TLAPS

-----------------------------------------------------------------------------
(* The type of pc, goroutine by goroutine.                                   *)
PcsOf(p) == IF p \in Workers THEN WorkerPcs
            ELSE IF p = Watcher THEN WatcherPcs ELSE CallerPcs

PcOK == /\ pc \in [Procs -> CallerPcs \cup WorkerPcs \cup WatcherPcs]
        /\ \A p \in Procs : pc[p] \in PcsOf(p)

DataOK ==
  /\ inherited \in BOOLEAN
  /\ dispatched \in BOOLEAN
  /\ mu \in Procs \cup {NoProc}
  /\ canceled \in BOOLEAN
  /\ cause \subseteq Procs \cup {"parent"}
  /\ hookCtx \in {"none", "live", "done"}
  /\ timedOut \in BOOLEAN
  /\ err \subseteq Procs \cup {"parent", "timeout", "after"}
  /\ done \in BOOLEAN

LEMMA TypeSplit == /\ TypeOK <=> DataOK /\ PcOK
                   /\ TypeOK' <=> DataOK' /\ PcOK'
BY ProcsAssumption DEF TypeOK, DataOK, PcOK, PcsOf, Procs

(* A goroutine that moves to a place of its own kind keeps pc well typed.    *)
LEMMA MoveOK ==
  ASSUME PcOK, NEW p \in Procs, NEW at, at \in PcsOf(p), Goto(p, at)
  PROVE  PcOK'
<1>1. at \in CallerPcs \cup WorkerPcs \cup WatcherPcs
  BY DEF PcsOf
<1>2. pc' = [pc EXCEPT ![p] = at]
  BY DEF Goto
<1>3. pc' \in [Procs -> CallerPcs \cup WorkerPcs \cup WatcherPcs]
  BY <1>1, <1>2 DEF PcOK
<1>4. ASSUME NEW q \in Procs PROVE pc'[q] \in PcsOf(q)
  BY <1>2 DEF PcOK
<1> QED  BY <1>3, <1>4 DEF PcOK, PcsOf

(* A goroutine that is entering or inside a Cancel can be at any of the      *)
(* steps of one, and a call returns to a place of the caller's kind.         *)
LEMMA PcsOfCommon ==
  ASSUME NEW p \in Procs
  PROVE  /\ Resume(p) \in PcsOf(p)
         /\ {"enter"} \cup ClosingPcs \subseteq PcsOf(p)
         /\ p \in Users => "spawning" \in PcsOf(p)
BY ProcsAssumption, WorkersAssumption
   DEF PcsOf, Resume, ClosingPcs, CallerPcs, WorkerPcs, WatcherPcs, Users, Procs

LEMMA TypeInit == Init => TypeOK
BY ProcsAssumption DEF Init, TypeOK, Procs, CallerPcs, WorkerPcs, WatcherPcs

LEMMA TypeStep == TypeOK /\ [Next]_vars => TypeOK'
<1> SUFFICES ASSUME DataOK, PcOK, [Next]_vars PROVE DataOK' /\ PcOK'
  BY TypeSplit
<1>1. CASE ParentCancel \/ Propagate \/ HookTimeout
  BY <1>1 DEF ParentCancel, Propagate, HookTimeout, DataOK, PcOK, PcsOf
<1>2. CASE WatchFire
  <2>1. "enter" \in PcsOf(Watcher) /\ Watcher \in Procs
    BY ProcsAssumption DEF PcsOf, WatcherPcs, Procs
  <2> QED  BY <1>2, <2>1, MoveOK DEF WatchFire, DataOK, data
<1>3. ASSUME NEW p \in Procs, SpawnStep(p) \/ CallCancel(p)
      PROVE  DataOK' /\ PcOK'
  <2>1. CASE CallSpawn(p) \/ SpawnRefused(p) \/ CallCancel(p)
    BY <2>1, PcsOfCommon, MoveOK
       DEF CallSpawn, SpawnRefused, CallCancel, Ready, DataOK, data
  <2>2. CASE Spawn(p)
    <3>1. PICK w \in Workers : /\ pc[w] = "none"
                               /\ pc' = [pc EXCEPT ![p] = Resume(p), ![w] = "running"]
      BY <2>2 DEF Spawn
    <3>2. w \in Procs /\ "running" \in PcsOf(w)
      BY DEF Procs, PcsOf, WorkerPcs
    <3>3. /\ pc' \in [Procs -> CallerPcs \cup WorkerPcs \cup WatcherPcs]
          /\ \A q \in Procs : pc'[q] \in PcsOf(q)
      BY <3>1, <3>2, PcsOfCommon DEF PcOK, PcsOf
    <3> QED  BY <2>2, <3>3 DEF Spawn, DataOK, data, PcOK, PcsOf
  <2> QED  BY <1>3, <2>1, <2>2 DEF SpawnStep
<1>4. ASSUME NEW p \in Procs, CancelStep(p) PROVE DataOK' /\ PcOK'
  <2>1. CASE CancelWin(p)
    <3>1. CauseOf(p) \subseteq Procs \cup {"parent"}
      BY DEF CauseOf
    <3> QED  BY <2>1, <3>1, PcsOfCommon, MoveOK
                DEF CancelWin, DataOK, ClosingPcs
  <2>2. CASE CancelLose(p) \/ CloseDone(p)
    BY <2>2, PcsOfCommon, MoveOK DEF CancelLose, CloseDone, DataOK, data
  <2>3. CASE BeforeClose(p) \/ CancelDispatched(p) \/ Drained(p) \/ Expire(p)
    BY <2>3, PcsOfCommon, MoveOK
       DEF BeforeClose, CancelDispatched, Drained, Expire, DataOK, data,
           ClosingPcs
  <2>4. CASE AfterClose(p)
    BY <2>4, PcsOfCommon, MoveOK DEF AfterClose, DataOK, ClosingPcs
  <2> QED  BY <1>4, <2>1, <2>2, <2>3, <2>4 DEF CancelStep, CancelGoesOn
<1>5. ASSUME NEW w \in Workers, Exit(w) PROVE DataOK' /\ PcOK'
  <2>1. w \in Procs /\ "exited" \in PcsOf(w)
    BY DEF Procs, PcsOf, WorkerPcs
  <2> QED  BY <1>5, <2>1, MoveOK DEF Exit, DataOK, data
<1>6. CASE UNCHANGED vars
  BY <1>6 DEF vars, data, DataOK, PcOK, PcsOf
<1> QED  BY <1>1, <1>2, <1>3, <1>4, <1>5, <1>6 DEF Next

(* Type correctness of the nest for every set of goroutines.                 *)
THEOREM TypeCorrect == Spec => []TypeOK
<1>1. Init => TypeOK
  BY TypeInit
<1>2. TypeOK /\ [Next]_vars => TypeOK'
  BY TypeStep
<1> QED  BY <1>1, <1>2, PTL DEF Spec

-----------------------------------------------------------------------------
(* The mutex: it is held across steps exactly by the goroutine that is       *)
(* inside the effective Cancel, and that Cancel is the only one.             *)
LockInv ==
  /\ \A p \in Procs : pc[p] \in ClosingPcs => mu = p
  /\ mu # NoProc => mu \in Procs /\ pc[mu] \in ClosingPcs /\ canceled /\ ~done
  /\ mu = NoProc => canceled = done

(* The wait: past it, and as long as it was not given up, the group is empty *)
(* and stays empty, because Spawn needs the mutex and an open nest.          *)
DrainInv ==
  ~timedOut => /\ (\E p \in Procs : pc[p] \in {"after", "close"}) => wg = {}
               /\ done => wg = {}

IInv == TypeOK /\ LockInv /\ DrainInv

(* Only Spawn, on an open nest with a free mutex, makes the group larger.    *)
LEMMA GroupShrinks ==
  ASSUME PcOK, NEW p \in Procs, NEW at, Goto(p, at),
         p \in Workers => pc[p] \notin {"none", "exited"}
  PROVE  wg' \subseteq wg
BY DEF wg, Goto, PcOK, Procs

LEMMA LockStep == TypeOK /\ LockInv /\ [Next]_vars => LockInv'
<1> SUFFICES ASSUME DataOK, PcOK, LockInv, [Next]_vars PROVE LockInv'
  BY TypeSplit
<1> USE DEF LockInv, ClosingPcs
<1>1. CASE ParentCancel \/ Propagate \/ HookTimeout
  BY <1>1 DEF ParentCancel, Propagate, HookTimeout
<1>2. CASE WatchFire
  BY <1>2, ProcsAssumption DEF WatchFire, data, Goto, PcOK, Procs
<1>3. ASSUME NEW p \in Procs, SpawnStep(p) \/ CallCancel(p) PROVE LockInv'
  <2>1. CASE CallSpawn(p) \/ SpawnRefused(p) \/ CallCancel(p)
    BY <2>1, ProcsAssumption
       DEF CallSpawn, SpawnRefused, CallCancel, Ready, Resume, Goto, data, PcOK
  <2>2. CASE Spawn(p)
    BY <2>2, ProcsAssumption DEF Spawn, Resume, data, PcOK, Procs
  <2> QED  BY <1>3, <2>1, <2>2 DEF SpawnStep
<1>4. ASSUME NEW p \in Procs, CancelStep(p) PROVE LockInv'
  <2>1. CASE CancelWin(p)
    <3>1. ~done /\ \A q \in Procs : pc[q] \notin ClosingPcs
      BY <2>1, ProcsAssumption DEF CancelWin, DataOK
    <3>2. /\ mu' = p /\ canceled' /\ ~done'
          /\ \A q \in Procs : pc'[q] = IF q = p THEN "before" ELSE pc[q]
      BY <2>1, <3>1 DEF CancelWin, Goto, PcOK
    <3> QED  BY <3>1, <3>2, ProcsAssumption
  <2>2. CASE CancelLose(p)
    BY <2>2, ProcsAssumption DEF CancelLose, Resume, Goto, data, PcOK
  <2>3. CASE BeforeClose(p) \/ CancelDispatched(p) \/ Drained(p)
    BY <2>3, ProcsAssumption
       DEF BeforeClose, CancelDispatched, Drained, Goto, data, PcOK
  <2>4. CASE Expire(p) \/ AfterClose(p)
    BY <2>4, ProcsAssumption DEF Expire, AfterClose, Goto, PcOK
  <2>5. CASE CloseDone(p)
    BY <2>5, ProcsAssumption DEF CloseDone, Resume, Goto, PcOK
  <2> QED  BY <1>4, <2>1, <2>2, <2>3, <2>4, <2>5 DEF CancelStep, CancelGoesOn
<1>5. ASSUME NEW w \in Workers, Exit(w) PROVE LockInv'
  BY <1>5, ProcsAssumption DEF Exit, Goto, data, PcOK, Procs
<1>6. CASE UNCHANGED vars
  BY <1>6 DEF vars, data
<1> QED  BY <1>1, <1>2, <1>3, <1>4, <1>5, <1>6 DEF Next

LEMMA DrainStep == IInv /\ [Next]_vars => DrainInv'
<1> SUFFICES ASSUME DataOK, PcOK, LockInv, DrainInv, [Next]_vars PROVE DrainInv'
  BY TypeSplit DEF IInv
<1> USE DEF DrainInv
<1>1. CASE ParentCancel \/ Propagate \/ HookTimeout
  BY <1>1 DEF ParentCancel, Propagate, HookTimeout, wg
<1>2. CASE WatchFire
  <2>1. wg' \subseteq wg
    BY <1>2, GroupShrinks, ProcsAssumption DEF WatchFire, Procs
  <2> QED  BY <1>2, <2>1, ProcsAssumption DEF WatchFire, data, Goto, PcOK, Procs
<1>3. ASSUME NEW p \in Procs, SpawnStep(p) \/ CallCancel(p) PROVE DrainInv'
  <2>1. CASE CallSpawn(p) \/ SpawnRefused(p) \/ CallCancel(p)
    <3>1. wg' \subseteq wg
      BY <2>1, GroupShrinks
         DEF CallSpawn, SpawnRefused, CallCancel, Ready, Resume
    <3> QED  BY <2>1, <3>1
                DEF CallSpawn, SpawnRefused, CallCancel, Resume, Goto, data, PcOK
  <2>2. CASE Spawn(p)
    <3>1. ~done /\ \A q \in Procs : pc[q] \notin {"after", "close"}
      BY <2>2, ProcsAssumption DEF Spawn, LockInv, ClosingPcs, DataOK
    <3>2. ~done' /\ \A q \in Procs : pc'[q] \notin {"after", "close"}
      BY <2>2, <3>1 DEF Spawn, Resume, data, PcOK, Procs
    <3> QED  BY <3>2
  <2> QED  BY <1>3, <2>1, <2>2 DEF SpawnStep
<1>4. ASSUME NEW p \in Procs, CancelStep(p) PROVE DrainInv'
  <2>1. CASE CancelWin(p) \/ CancelLose(p) \/ BeforeClose(p) \/ CancelDispatched(p)
    <3>1. wg' \subseteq wg
      BY <2>1, GroupShrinks
         DEF CancelWin, CancelLose, BeforeClose, CancelDispatched
    <3> QED  BY <2>1, <3>1
                DEF CancelWin, CancelLose, BeforeClose, CancelDispatched,
                    Resume, Goto, data, PcOK
  <2>2. CASE Drained(p)
    <3>1. wg' \subseteq wg
      BY <2>2, GroupShrinks DEF Drained
    <3> QED  BY <2>2, <3>1 DEF Drained, Goto, data, PcOK
  <2>3. CASE Expire(p)
    BY <2>3 DEF Expire
  <2>4. CASE AfterClose(p) \/ CloseDone(p)
    <3>1. wg' \subseteq wg
      BY <2>4, GroupShrinks DEF AfterClose, CloseDone
    <3> QED  BY <2>4, <3>1 DEF AfterClose, CloseDone, Resume, Goto, PcOK
  <2> QED  BY <1>4, <2>1, <2>2, <2>3, <2>4 DEF CancelStep, CancelGoesOn
<1>5. ASSUME NEW w \in Workers, Exit(w) PROVE DrainInv'
  <2>1. wg' \subseteq wg
    BY <1>5, GroupShrinks DEF Exit, Procs
  <2> QED  BY <1>5, <2>1 DEF Exit, Goto, data, PcOK, Procs
<1>6. CASE UNCHANGED vars
  BY <1>6 DEF vars, data, wg
<1> QED  BY <1>1, <1>2, <1>3, <1>4, <1>5, <1>6 DEF Next

LEMMA Inductive == Spec => []IInv
<1>1. Init => IInv
  <2> SUFFICES ASSUME Init PROVE LockInv /\ DrainInv
    BY TypeInit DEF IInv
  <2>1. \A p \in Procs : pc[p] \notin ClosingPcs
    BY DEF Init, ClosingPcs
  <2> QED  BY <2>1 DEF Init, LockInv, DrainInv, ClosingPcs
<1>2. IInv /\ [Next]_vars => IInv'
  BY TypeStep, LockStep, DrainStep DEF IInv
<1> QED  BY <1>1, <1>2, PTL DEF Spec

(* Done closes only after the goroutines have left, or after the timeout:    *)
(* Cancel's wait, its mutex and Spawn's test together leave no window in     *)
(* which a goroutine could join a group that is no longer waited for.        *)
THEOREM Graceful == Spec => []GracefulDrain
<1>1. IInv => GracefulDrain
  BY DEF IInv, DrainInv, GracefulDrain
<1> QED  BY <1>1, Inductive, PTL

-----------------------------------------------------------------------------
(* While Done is closed nobody is inside an effective Cancel.                *)
LEMMA DoneMeansFree ==
  ASSUME TypeOK, LockInv, done
  PROVE  canceled /\ \A p \in Procs : pc[p] \notin ClosingPcs
BY ProcsAssumption DEF TypeOK, LockInv

(* Once Done is closed, a losing Cancel, the watcher and the parent leave    *)
(* Err() as the first Cancel left it.                                        *)
THEOREM ErrFinal == Spec => ErrIsFinal
<1>1. IInv /\ [Next]_vars => [done => UNCHANGED <<done, err, cause, timedOut>>]_vars
  <2> SUFFICES ASSUME TypeOK, LockInv, done, Next
               PROVE  UNCHANGED <<done, err, cause, timedOut>>
    BY DEF IInv
  <2> USE DEF data
  <2>1. CASE ParentCancel \/ Propagate \/ HookTimeout \/ WatchFire
    BY <2>1 DEF ParentCancel, Propagate, HookTimeout, WatchFire
  <2>2. ASSUME NEW p \in Procs, SpawnStep(p) \/ CallCancel(p) \/ CancelStep(p)
        PROVE  UNCHANGED <<done, err, cause, timedOut>>
    <3>1. canceled /\ pc[p] \notin ClosingPcs
      BY DoneMeansFree
    <3>2. SpawnStep(p) \/ CallCancel(p) \/ CancelLose(p)
      BY <2>2, <3>1
         DEF CancelStep, CancelGoesOn, CancelWin, BeforeClose, CancelDispatched, Drained,
             Expire, AfterClose, CloseDone, ClosingPcs
    <3> QED  BY <3>2 DEF SpawnStep, CallSpawn, Spawn, SpawnRefused, CallCancel,
                         CancelLose
  <2>3. ASSUME NEW w \in Workers, Exit(w)
        PROVE  UNCHANGED <<done, err, cause, timedOut>>
    BY <2>3 DEF Exit
  <2> QED  BY <2>1, <2>2, <2>3 DEF Next
<1> QED  BY <1>1, Inductive, PTL DEF Spec, ErrIsFinal

-----------------------------------------------------------------------------
(* Why the error tells who canceled: the watcher wakes only for the parent   *)
(* or after a Cancel, and err is assigned from the winner's arguments when   *)
(* nobody else can change them any more.                                     *)
Tells == /\ cause \subseteq err
         /\ timedOut <=> "timeout" \in err
         /\ "parent" \in err => inherited

CauseInv ==
  /\ dispatched => inherited \/ canceled
  /\ pc[Watcher] = "enter" => inherited \/ canceled
  /\ "parent" \in cause => inherited
  /\ done \/ (\E p \in Procs : pc[p] = "close") => Tells

LEMMA CauseStep == IInv /\ CauseInv /\ [Next]_vars => CauseInv'
<1> SUFFICES ASSUME TypeOK, DataOK, PcOK, LockInv, CauseInv, [Next]_vars
             PROVE  CauseInv'
  BY TypeSplit DEF IInv
<1> USE DEF CauseInv, Tells
<1>0. Watcher \in Procs
  BY DEF Procs
<1>1. CASE ParentCancel \/ Propagate \/ HookTimeout
  BY <1>1 DEF ParentCancel, Propagate, HookTimeout
<1>2. CASE WatchFire
  BY <1>2 DEF WatchFire, data, Goto, PcOK
<1>3. ASSUME NEW p \in Procs, SpawnStep(p) \/ CallCancel(p) PROVE CauseInv'
  <2>0. p \in Users => p # Watcher
    BY ProcsAssumption, WorkersAssumption DEF Users
  <2>1. CASE CallSpawn(p) \/ CallCancel(p)
    BY <2>1, <2>0, <1>0 DEF CallSpawn, CallCancel, Ready, Goto, data, PcOK
  <2>2. CASE SpawnRefused(p)
    BY <2>2, <1>0 DEF SpawnRefused, Resume, Goto, data, PcOK
  <2>3. CASE Spawn(p)
    BY <2>3, <1>0 DEF Spawn, Resume, data, PcOK, Procs
  <2> QED  BY <1>3, <2>1, <2>2, <2>3 DEF SpawnStep
<1>4. ASSUME NEW p \in Procs, CancelStep(p) PROVE CauseInv'
  <2>1. CASE CancelWin(p)
    <3>1. "parent" \in CauseOf(p) => inherited
      BY <2>1, ProcsAssumption DEF CauseOf, CancelWin
    <3>2. ~done /\ \A q \in Procs : pc[q] \notin ClosingPcs
      BY <2>1, ProcsAssumption DEF CancelWin, DataOK, LockInv
    <3>3. ~done' /\ \A q \in Procs : pc'[q] # "close"
      BY <2>1, <3>2 DEF CancelWin, Goto, PcOK, ClosingPcs
    <3> QED  BY <2>1, <3>1, <3>3, <1>0 DEF CancelWin
  <2>2. CASE CancelLose(p)
    BY <2>2, <1>0 DEF CancelLose, Resume, Goto, data, PcOK
  <2>3. CASE BeforeClose(p) \/ CancelDispatched(p) \/ Drained(p)
    <3>1. canceled
      BY <2>3, ProcsAssumption
         DEF BeforeClose, CancelDispatched, Drained, LockInv, ClosingPcs
    <3>2. \A q \in Procs : pc'[q] = "close" => pc[q] = "close"
      BY <2>3 DEF BeforeClose, CancelDispatched, Drained, Goto, PcOK
    <3>3. UNCHANGED <<inherited, canceled, cause, timedOut, err, done>>
      BY <2>3 DEF BeforeClose, CancelDispatched, Drained, data
    <3> QED  BY <3>1, <3>2, <3>3
  <2>4. CASE Expire(p)
    <3>1. ~done /\ \A q \in Procs : pc[q] # "close"
      BY <2>4, ProcsAssumption DEF Expire, LockInv, ClosingPcs
    <3> QED  BY <2>4, <3>1, <1>0 DEF Expire, Goto, PcOK
  <2>5. CASE AfterClose(p)
    <3>1. "timeout" \notin cause
      BY ProcsAssumption DEF DataOK
    <3>2. PICK own \in {{}, {"after"}} :
            err' = cause \cup own \cup (IF timedOut THEN {"timeout"} ELSE {})
      BY <2>5 DEF AfterClose
    <3>3. Tells'
      BY <2>5, <3>1, <3>2 DEF AfterClose
    <3> QED  BY <2>5, <3>3, <1>0 DEF AfterClose, Goto, PcOK
  <2>6. CASE CloseDone(p)
    BY <2>6, <1>0 DEF CloseDone, Resume, Goto, PcOK
  <2> QED  BY <1>4, <2>1, <2>2, <2>3, <2>4, <2>5, <2>6 DEF CancelStep, CancelGoesOn
<1>5. ASSUME NEW w \in Workers, Exit(w) PROVE CauseInv'
  BY <1>5, <1>0 DEF Exit, Goto, data, PcOK
<1>6. CASE UNCHANGED vars
  BY <1>6 DEF vars, data
<1> QED  BY <1>1, <1>2, <1>3, <1>4, <1>5, <1>6 DEF Next

(* Err() contains the winner's cause, contains the timeout exactly when the  *)
(* wait was given up, and blames the parent only if the parent ended.        *)
THEOREM ErrTells == Spec => []ErrTellsWhy
<1>1. Init => CauseInv
  BY ProcsAssumption DEF Init, CauseInv, Procs
<1>2. IInv /\ CauseInv /\ [Next]_vars => CauseInv'
  BY CauseStep
<1>3. CauseInv => ErrTellsWhy
  BY DEF CauseInv, Tells, ErrTellsWhy
<1> QED  BY <1>1, <1>2, <1>3, Inductive, PTL DEF Spec

-----------------------------------------------------------------------------
(* The nest implements its contract.  Three facts about the refinement       *)
(* mapping: a goroutine that stays in (or out of) the group keeps wg, one    *)
(* outside the effective Cancel does not move phase, and one inside it       *)
(* determines phase.                                                         *)
LEMMA SameGroup ==
  ASSUME PcOK, NEW p \in Procs, NEW at, Goto(p, at),
         p \in Workers => pc[p] \notin {"none", "exited"} /\ at # "exited" /\ at # "none"
  PROVE  wg' = wg
BY DEF wg, Goto, PcOK, Procs

LEMMA SamePhase ==
  ASSUME LockInv, PcOK, NEW p \in Procs, pc[p] \notin ClosingPcs,
         NEW at, Goto(p, at), UNCHANGED <<mu, canceled, done>>
  PROVE  phase' = phase
<1>1. CASE mu = NoProc
  BY <1>1 DEF LockInv, phase
<1>2. CASE mu # NoProc
  <2>1. mu \in Procs /\ mu # p
    BY <1>2 DEF LockInv
  <2>2. pc'[mu] = pc[mu]
    BY <2>1 DEF Goto, PcOK
  <2> QED  BY <2>2 DEF phase, PhaseOf
<1> QED  BY <1>1, <1>2

LEMMA ClosingPhase ==
  ASSUME LockInv, NEW p \in Procs, pc[p] \in ClosingPcs
  PROVE  mu = p /\ canceled /\ ~done /\ phase = PhaseOf(pc[p])
BY ProcsAssumption DEF LockInv, phase

LEMMA ContractStep ==
  IInv /\ [Next]_vars => [lifecycle!NestNext]_(lifecycle!nestVars)
<1> SUFFICES ASSUME TypeOK, DataOK, PcOK, LockInv, Next
             PROVE  lifecycle!NestNext \/ UNCHANGED lifecycle!nestVars
  <2>1. UNCHANGED vars => UNCHANGED lifecycle!nestVars
    BY DEF vars, data, lifecycle!nestVars, phase, PhaseOf, wg
  <2> QED  BY <2>1, TypeSplit DEF IInv
<1> USE DEF lifecycle!nestVars
<1>0. Watcher \in Procs /\ Watcher \notin Workers
  BY ProcsAssumption DEF Procs
<1>1. CASE ParentCancel \/ HookTimeout
  BY <1>1 DEF ParentCancel, HookTimeout, phase, PhaseOf, wg
<1>2. CASE Propagate
  <2>1. lifecycle!InheritedDone
    BY <1>2 DEF Propagate, phase, PhaseOf, wg, lifecycle!InheritedDone
  <2> QED  BY <2>1 DEF lifecycle!NestNext
<1>3. CASE WatchFire
  <2>1. wg' = wg
    BY <1>3, <1>0, SameGroup DEF WatchFire
  <2>2. phase' = phase
    BY <1>3, <1>0, SamePhase DEF WatchFire, ClosingPcs, data
  <2> QED  BY <1>3, <2>1, <2>2 DEF WatchFire, data
<1>4. ASSUME NEW p \in Procs,
             CallSpawn(p) \/ SpawnRefused(p) \/ CallCancel(p) \/ CancelLose(p)
      PROVE  UNCHANGED lifecycle!nestVars
  <2>1. /\ p \in Workers => pc[p] \notin {"none", "exited"}
        /\ pc[p] \notin ClosingPcs
    BY <1>4, ProcsAssumption
       DEF CallSpawn, SpawnRefused, CallCancel, CancelLose, Ready, Resume,
           ClosingPcs
  <2>2. wg' = wg
    BY <1>4, <2>1, SameGroup
       DEF CallSpawn, SpawnRefused, CallCancel, CancelLose, Resume
  <2>3. UNCHANGED data
    BY <1>4 DEF CallSpawn, SpawnRefused, CallCancel, CancelLose
  <2>4. phase' = phase
    BY <1>4, <2>1, <2>3, SamePhase
       DEF CallSpawn, SpawnRefused, CallCancel, CancelLose, data
  <2> QED  BY <2>2, <2>3, <2>4 DEF data
<1>5. ASSUME NEW p \in Procs, Spawn(p) PROVE lifecycle!NestNext
  <2>1. PICK w \in Workers : /\ pc[w] = "none"
                             /\ pc' = [pc EXCEPT ![p] = Resume(p), ![w] = "running"]
    BY <1>5 DEF Spawn
  <2>2. wg' = wg \cup {w} /\ w \notin wg
    BY <1>5, <2>1 DEF Spawn, wg, Resume, PcOK, Procs
  <2>3. phase = "open" /\ phase' = "open"
    BY <1>5 DEF Spawn, phase, data
  <2>4. lifecycle!Spawn(w)
    BY <1>5, <2>2, <2>3 DEF Spawn, data, lifecycle!Spawn
  <2> QED  BY <2>4 DEF lifecycle!NestNext
<1>6. ASSUME NEW w \in Workers, Exit(w) PROVE lifecycle!NestNext
  <2>0. w \in Procs
    BY DEF Procs
  <2>1. w \in wg /\ wg' = wg \ {w}
    BY <1>6, <2>0 DEF Exit, wg, Goto, PcOK, Procs
  <2>2. phase' = phase
    BY <1>6, <2>0, SamePhase DEF Exit, ClosingPcs, data
  <2>3. lifecycle!Return(w)
    BY <1>6, <2>1, <2>2 DEF Exit, data, lifecycle!Return
  <2> QED  BY <2>3 DEF lifecycle!NestNext
<1>7. ASSUME NEW p \in Procs, CancelWin(p) PROVE lifecycle!NestNext
  <2>1. wg' = wg
    BY <1>7, SameGroup DEF CancelWin
  <2>2. ~done /\ ~done'
    BY <1>7 DEF CancelWin, LockInv, DataOK
  <2>3. phase = "open" /\ phase' = "before"
    BY <1>7, <2>2 DEF CancelWin, phase, PhaseOf, Goto, PcOK
  <2>4. lifecycle!BeginCancel(CauseOf(p))
    BY <1>7, <2>1, <2>3 DEF CancelWin, lifecycle!BeginCancel
  <2> QED  BY <2>4 DEF lifecycle!NestNext
<1>8. ASSUME NEW p \in Procs,
             \/ BeforeClose(p) \/ CancelDispatched(p) \/ Drained(p)
             \/ Expire(p) \/ AfterClose(p) \/ CloseDone(p)
      PROVE  lifecycle!NestNext \/ UNCHANGED lifecycle!nestVars
  <2>1. pc[p] \in ClosingPcs
    BY <1>8 DEF BeforeClose, CancelDispatched, Drained, Expire, AfterClose,
                CloseDone, ClosingPcs
  <2>2. mu = p /\ canceled /\ ~done /\ phase = PhaseOf(pc[p])
    BY <2>1, ClosingPhase
  <2>3. wg' = wg
    <3>1. pc[p] \notin {"none", "exited"}
      BY <2>1 DEF ClosingPcs
    <3>2. \/ Goto(p, "fire") \/ Goto(p, "wait") \/ Goto(p, "after")
          \/ Goto(p, "close") \/ Goto(p, Resume(p))
      BY <1>8 DEF BeforeClose, CancelDispatched, Drained, Expire, AfterClose,
                  CloseDone
    <3>3. p \in Workers => Resume(p) = "running"
      BY DEF Resume
    <3> QED  BY <3>1, <3>2, <3>3, SameGroup
  <2>4. CASE BeforeClose(p) \/ AfterClose(p)
    <3>1. UNCHANGED <<mu, canceled, done, dispatched, cause, timedOut>>
      BY <2>4 DEF BeforeClose, AfterClose, data
    <3>2. phase' = PhaseOf(pc'[p])
      BY <2>2, <3>1 DEF phase, PhaseOf
    <3>3. \/ pc[p] = "before" /\ pc'[p] = "fire"
          \/ pc[p] = "after" /\ pc'[p] = "close"
      BY <2>4 DEF BeforeClose, AfterClose, Goto, PcOK
    <3>4. PhaseOf(pc'[p]) = PhaseOf(pc[p])
      BY <3>3 DEF PhaseOf
    <3> QED  BY <2>2, <2>3, <3>1, <3>2, <3>4
  <2>5. CASE CancelDispatched(p)
    <3>1. phase = "before" /\ phase' = "draining"
      BY <2>2, <2>5 DEF CancelDispatched, phase, PhaseOf, Goto, PcOK
    <3>2. lifecycle!CancelDispatched
      BY <2>3, <2>5, <3>1 DEF CancelDispatched, lifecycle!CancelDispatched
    <3> QED  BY <3>2 DEF lifecycle!NestNext
  <2>6. CASE Drained(p)
    <3>1. phase = "draining" /\ phase' = "after"
      BY <2>2, <2>6 DEF Drained, phase, PhaseOf, Goto, data, PcOK
    <3>2. lifecycle!Drained
      BY <2>3, <2>6, <3>1 DEF Drained, data, lifecycle!Drained
    <3> QED  BY <3>2 DEF lifecycle!NestNext
  <2>7. CASE Expire(p)
    <3>1. phase = "draining" /\ phase' = "after"
      BY <2>2, <2>7 DEF Expire, phase, PhaseOf, Goto, PcOK
    <3>2. lifecycle!Expire
      BY <2>3, <2>7, <3>1 DEF Expire, lifecycle!Expire
    <3> QED  BY <3>2 DEF lifecycle!NestNext
  <2>8. CASE CloseDone(p)
    <3>1. phase = "after" /\ phase' = "done"
      BY <2>2, <2>8 DEF CloseDone, phase, PhaseOf
    <3>2. lifecycle!CloseDone
      BY <2>3, <2>8, <3>1 DEF CloseDone, lifecycle!CloseDone
    <3> QED  BY <3>2 DEF lifecycle!NestNext
  <2> QED  BY <1>8, <2>4, <2>5, <2>6, <2>7, <2>8
<1> QED  BY <1>1, <1>2, <1>3, <1>4, <1>5, <1>6, <1>7, <1>8
            DEF Next, SpawnStep, CancelStep, CancelGoesOn

(* The code keeps the promise of NestLifecycle that the schedulers are built *)
(* on: one effective Cancel, its phases in order, admission only while open. *)
THEOREM Implements == Spec => Contract
<1>1. Init => lifecycle!NestInit
  BY ProcsAssumption DEF Init, lifecycle!NestInit, phase, wg, Procs
<1>2. IInv /\ [Next]_vars => [lifecycle!NestNext]_(lifecycle!nestVars)
  BY ContractStep
<1> QED  BY <1>1, <1>2, Inductive, PTL DEF Spec, Contract, lifecycle!NestSpec
=============================================================================
