-------------------------- MODULE RetrievableProofs --------------------------
(***************************************************************************)
(* Proofs about Retrievable, for any tasks, workers, callers and options.  *)
(***************************************************************************)
EXTENDS Retrievable, FiniteSetTheorems, SequenceTheorems, TLAPS

-----------------------------------------------------------------------------
(* The types, in parts that different actions disturb.                       *)
QueueOK == /\ tasks \in Seq(Tasks)
           /\ pending \in Int
           /\ push \in [Tasks -> PushPcs]

PoolOK == /\ pc \in [Poppers -> PopperPcs]
          /\ held \in [Poppers -> Tasks \cup {NoTask}]
          /\ chosen \in [Workers -> Answers \cup {"none"}]
          /\ ran \subseteq Tasks

ResultsOK == /\ closed \in BOOLEAN
             /\ done \subseteq Tasks
             /\ val \in [Tasks -> Answers \cup {"none"}]
             /\ asked \in [Waiters -> Tasks \cup {NoTask}]
             /\ got \in [Waiters -> Answers \cup {"none", "waiting"}]

CallsOK == /\ running \in BOOLEAN
           /\ created \in BOOLEAN
           /\ runner \in [Runners -> RunnerPcs]
           /\ closer \in [Closers -> CloserPcs]
           /\ hook \in {"none", "live", "expired"}

NestOK == /\ phase \in nest!Phases
          /\ wg \subseteq Workers
          /\ dispatched \in BOOLEAN
          /\ cause \in {{}, {"closed"}, {"parent"}}
          /\ timedOut \in BOOLEAN

LEMMA TypeSplit ==
  /\ TypeOK <=> QueueOK /\ PoolOK /\ ResultsOK /\ CallsOK /\ NestOK
  /\ TypeOK' <=> QueueOK' /\ PoolOK' /\ ResultsOK' /\ CallsOK' /\ NestOK'
BY DEF TypeOK, QueueOK, PoolOK, ResultsOK, CallsOK, NestOK

(* The types are not inductive alone: a popper is past its pop only with a   *)
(* task in hand, so what it completes is the Result of a task.  A Result     *)
(* that holds an output is completed, and who waits waits on a task.         *)
HandInv == \A p \in Poppers :
             pc[p] \in {"popped", "running", "finish", "store"} => held[p] \in Tasks

OutInv == \A t \in Tasks : val[t] = "out" => t \in done

WaitInv == \A x \in Waiters : got[x] = "waiting" => asked[x] \in Tasks

ResultInv == OutInv /\ WaitInv

StateInv == TypeOK /\ HandInv /\ ResultInv

Parts == QueueOK /\ PoolOK /\ ResultsOK /\ CallsOK /\ NestOK /\ HandInv /\ ResultInv

LEMMA PartsSplit == (StateInv <=> Parts) /\ (StateInv' <=> Parts')
BY TypeSplit DEF StateInv, Parts

(* What Pop takes and leaves, whichever end it works at.                     *)
LEMMA PopType ==
  ASSUME NEW s \in Seq(Tasks), s # <<>>
  PROVE  /\ Pick(s) \in Tasks
         /\ Rest(s) \in Seq(Tasks)
         /\ Len(Rest(s)) = Len(s) - 1
<1>1. Len(s) \in Nat /\ Len(s) >= 1
  OBVIOUS
<1>2. CASE Mode = "FIFO"
  BY <1>1, <1>2 DEF Pick, Rest
<1>3. CASE Mode # "FIFO"
  <2>1. Pick(s) = s[Len(s)] /\ Rest(s) = SubSeq(s, 1, Len(s) - 1)
    BY <1>3 DEF Pick, Rest
  <2>2. Len(s) \in 1 .. Len(s) /\ \A i \in 1 .. Len(s) : s[i] \in Tasks
    BY <1>1
  <2>3. /\ SubSeq(s, 1, Len(s) - 1) \in Seq(Tasks)
        /\ Len(SubSeq(s, 1, Len(s) - 1)) = Len(s) - 1
    <3>1. Len(s) - 1 \in Int /\ \A i \in 1 .. (Len(s) - 1) : s[i] \in Tasks
      BY <1>1, <2>2
    <3>2. CASE Len(s) = 1
      BY <3>2, SubSeqEmpty
    <3>3. CASE Len(s) # 1
      <4>0. \A n \in Nat : n >= 1 /\ n # 1 => 1 <= n - 1 /\ (n - 1) - 1 + 1 = n - 1
        OBVIOUS
      <4>1. 1 <= Len(s) - 1 /\ (Len(s) - 1) - 1 + 1 = Len(s) - 1
        BY <1>1, <3>3, <4>0
      <4> QED  BY <3>1, <4>1, SubSeqProperties
    <3> QED  BY <3>2, <3>3
  <2> QED  BY <2>1, <2>2, <2>3
<1> QED  BY <1>2, <1>3

LEMMA StateInit == Init => StateInv
<1> SUFFICES ASSUME Init PROVE Parts
  BY PartsSplit
<1> USE DEF Init, nest!NestInit
<1>0. ResultsOK
  BY DEF ResultsOK, Answers
<1>1. QueueOK
  BY DEF QueueOK, PushPcs
<1>2. PoolOK /\ HandInv
  BY DEF PoolOK, PopperPcs, HandInv
<1>3. ResultInv
  BY DEF ResultInv, OutInv, WaitInv
<1>4. CallsOK /\ NestOK
  BY DEF CallsOK, RunnerPcs, CloserPcs, NestOK, nest!Phases
<1> QED  BY <1>0, <1>1, <1>2, <1>3, <1>4 DEF Parts

-----------------------------------------------------------------------------
(* One lemma per group of actions.                                           *)
LEMMA WakeKeeps == PoolOK /\ HandInv /\ WakeAll /\ held' = held
                   => pc' \in [Poppers -> PopperPcs] /\ HandInv'
<1> SUFFICES ASSUME PoolOK, HandInv, WakeAll, held' = held
             PROVE  pc' \in [Poppers -> PopperPcs] /\ HandInv'
  OBVIOUS
<1> QED  BY DEF PoolOK, HandInv, WakeAll, PopperPcs

LEMMA PushState ==
  ASSUME StateInv, NEW t \in Tasks,
         PushRefused(t) \/ PushAdmitted(t) \/ PushStep(t)
  PROVE  StateInv'
<1> SUFFICES ASSUME Parts PROVE Parts'
  BY PartsSplit
<1>1. /\ UNCHANGED <<held, chosen, ran, results, calls, hook, nestVars>>
      /\ UNCHANGED pc \/ WakeAll
  BY DEF PushRefused, PushAdmitted, PushStep, Reserve, ReserveFull, Enqueue,
         PushBroadcast, pool
<1>2. PoolOK' /\ HandInv'
  BY <1>1, WakeKeeps DEF Parts, PoolOK, HandInv
<1>3. ResultsOK' /\ ResultInv' /\ CallsOK' /\ NestOK'
  BY <1>1 DEF Parts, ResultsOK, ResultInv, OutInv, WaitInv, CallsOK, NestOK,
              results, calls, nestVars
<1>4. push' \in [Tasks -> PushPcs]
  BY DEF Parts, QueueOK, PushRefused, PushAdmitted, PushStep, Reserve,
         ReserveFull, Enqueue, PushBroadcast, Goes, PushPcs
<1>5. pending' \in Int /\ tasks' \in Seq(Tasks)
  BY DEF Parts, QueueOK, PushRefused, PushAdmitted, PushStep, Reserve,
         ReserveFull, Enqueue, PushBroadcast
<1> QED  BY <1>2, <1>3, <1>4, <1>5 DEF Parts, QueueOK

(* Pop and its count, by a worker or by the dismisser.                       *)
LEMMA PopState ==
  ASSUME StateInv, NEW p \in Poppers,
         Pop(p) \/ CountDown(p, "running") \/ CountDown(p, "finish")
  PROVE  StateInv'
<1> SUFFICES ASSUME Parts PROVE Parts'
  BY PartsSplit
<1> USE DEF Parts, QueueOK, PoolOK, HandInv, At, PopperPcs
<1>1. ResultsOK' /\ ResultInv' /\ CallsOK' /\ NestOK'
  BY DEF Pop, CountDown, ResultsOK, ResultInv, OutInv, WaitInv, CallsOK, NestOK, results, calls,
         nestVars
<1>2. CASE Pop(p)
  <2>1. Pick(tasks) \in Tasks /\ Rest(tasks) \in Seq(Tasks)
    BY <1>2, PopType DEF Pop
  <2> QED  BY <1>1, <1>2, <2>1 DEF Pop
<1>3. CASE CountDown(p, "running") \/ CountDown(p, "finish")
  <2>1. QueueOK' /\ UNCHANGED <<held, chosen, ran>> /\ pc[p] = "popped"
    BY <1>3 DEF CountDown
  <2>2. pc' = [pc EXCEPT ![p] = "running"] \/ pc' = [pc EXCEPT ![p] = "finish"]
    BY <1>3 DEF CountDown
  <2> QED  BY <1>1, <2>1, <2>2
<1> QED  BY <1>2, <1>3

LEMMA WorkerState ==
  ASSUME StateInv, NEW w \in Workers,
         WorkerLocked(w) \/ WorkerStep(w) \/ JobEnd(w)
  PROVE  StateInv'
<1> SUFFICES ASSUME Parts PROVE Parts'
  BY PartsSplit
<1> USE DEF Parts, QueueOK, PoolOK, HandInv, At, PopperPcs, LockPcs, Poppers,
            calls
<1>1. CASE WorkerExit(w)
  <2>1. QueueOK' /\ PoolOK' /\ HandInv'
    BY <1>1 DEF WorkerExit, queue
  <2>2. ResultsOK' /\ ResultInv' /\ CallsOK' /\ NestOK'
    BY <1>1 DEF WorkerExit, ResultsOK, ResultInv, OutInv, WaitInv, CallsOK, NestOK, results,
                nest!Return
  <2> QED  BY <2>1, <2>2
<1>2. CASE WorkerTest(w) \/ WorkerWait(w) \/ WorkerPopNone(w)
  <2>1. UNCHANGED <<queue, held, chosen, ran, results, calls, hook, nestVars>>
    BY <1>2 DEF WorkerTest, WorkerWait, WorkerPopNone
  <2>2. \E at \in {"towait", "popping", "asleep", "idle"} : At(w, at)
    BY <1>2 DEF WorkerTest, WorkerWait, WorkerPopNone
  <2>3. QueueOK' /\ PoolOK' /\ HandInv'
    BY <2>1, <2>2 DEF queue
  <2>4. ResultsOK' /\ ResultInv' /\ CallsOK' /\ NestOK'
    BY <2>1 DEF ResultsOK, ResultInv, OutInv, WaitInv, CallsOK, NestOK, results, nestVars
  <2> QED  BY <2>3, <2>4
<1>3. CASE WorkerPop(w) \/ JobStart(w)
  BY <1>3, PopState, PartsSplit DEF WorkerPop, JobStart
<1>4. CASE JobEnd(w)
  <2>1. QueueOK' /\ PoolOK' /\ HandInv'
    BY <1>4 DEF JobEnd, queue
  <2>2. ResultsOK' /\ ResultInv' /\ CallsOK' /\ NestOK'
    BY <1>4 DEF JobEnd, ResultsOK, ResultInv, OutInv, WaitInv, CallsOK, NestOK, results, nestVars
  <2> QED  BY <2>1, <2>2
<1>5. CASE FinishSelect(w)
  <2>1. QueueOK' /\ PoolOK' /\ HandInv'
    BY <1>5 DEF FinishSelect, queue, Answers
  <2>2. ResultsOK' /\ ResultInv' /\ CallsOK' /\ NestOK'
    BY <1>5 DEF FinishSelect, ResultsOK, ResultInv, OutInv, WaitInv, CallsOK, NestOK,
                results, nestVars
  <2> QED  BY <2>1, <2>2
<1>6. CASE FinishClose(w)
  <2>1. held[w] \in Tasks /\ held[w] \in done'
    BY <1>6 DEF FinishClose
  <2>2. QueueOK' /\ PoolOK' /\ HandInv'
    BY <1>6 DEF FinishClose, queue
  <2>3. ResultsOK' /\ ResultInv'
    BY <1>6, <2>1 DEF FinishClose, ResultsOK, ResultInv, OutInv, WaitInv
  <2>4. CallsOK' /\ NestOK'
    BY <1>6 DEF FinishClose, CallsOK, NestOK, nestVars
  <2> QED  BY <2>2, <2>3, <2>4
<1> QED  BY <1>1, <1>2, <1>3, <1>4, <1>5, <1>6 DEF WorkerLocked, WorkerStep

LEMMA ResultState ==
  ASSUME StateInv, NEW x \in Waiters,
         AnswerStep(x) \/ AnswerCtx(x) \/ \E t \in Tasks : Ask(x, t)
  PROVE  StateInv'
<1> SUFFICES ASSUME Parts PROVE Parts'
  BY PartsSplit
<1>1. UNCHANGED <<queue, pool, closed, done, val, calls, hook, nestVars>>
  BY DEF AnswerStep, AnswerDone, AnswerClosed, AnswerCtx, Ask
<1>2. QueueOK' /\ PoolOK' /\ HandInv' /\ OutInv' /\ CallsOK' /\ NestOK'
  BY <1>1 DEF Parts, QueueOK, PoolOK, HandInv, ResultInv, OutInv, CallsOK,
              NestOK, queue, pool, calls, nestVars
<1>3. ResultsOK' /\ WaitInv'
  BY <1>1 DEF Parts, ResultsOK, ResultInv, WaitInv, AnswerStep, AnswerDone,
              AnswerClosed, AnswerCtx, Ask, Answer, Answers
<1> QED  BY <1>2, <1>3 DEF Parts, ResultInv

LEMMA CallState ==
  ASSUME StateInv,
         \/ \E r \in Runners : RunEnter(r) \/ RunStep(r)
         \/ \E c \in Closers : CloseEnter(c) \/ CloseStep(c)
  PROVE  StateInv'
<1> SUFFICES ASSUME Parts PROVE Parts'
  BY PartsSplit
<1>1. QueueOK' /\ ResultsOK' /\ ResultInv'
  <2>1. UNCHANGED <<queue, results>>
    BY DEF RunEnter, RunStep, RunCreate, RunSpawn, RunReturn, CloseEnter,
           CloseStep, CloseCancel, CloseReturn
  <2> QED  BY <2>1 DEF Parts, QueueOK, ResultsOK, ResultInv, OutInv, WaitInv, queue, results
<1> USE DEF Parts, PoolOK, HandInv, CallsOK, NestOK, pool, calls, nestVars,
            RunnerPcs, CloserPcs
<1>2. ASSUME NEW r \in Runners, RunEnter(r) \/ RunCreate(r) PROVE Parts'
  <2>1. CASE RunEnter(r)
    <3>1. PoolOK' /\ HandInv' /\ NestOK' /\ UNCHANGED <<created, closer, hook>>
      BY <2>1 DEF RunEnter
    <3>2. running' \in BOOLEAN /\ runner' \in [Runners -> RunnerPcs]
      BY <2>1 DEF RunEnter
    <3> QED  BY <1>1, <3>1, <3>2
  <2>2. CASE RunCreate(r)
    BY <1>1, <2>2 DEF RunCreate
  <2> QED  BY <1>2, <2>1, <2>2
<1>3. ASSUME NEW r \in Runners, RunSpawn(r) PROVE Parts'
  <2>1. PICK w \in Workers : pc[w] = "none" /\ nest!Spawn(w) /\ At(w, "idle")
    BY <1>3 DEF RunSpawn
  <2>2. PoolOK' /\ HandInv'
    BY <1>3, <2>1 DEF RunSpawn, At, PopperPcs, Poppers
  <2>3. CallsOK' /\ NestOK'
    BY <1>3, <2>1 DEF RunSpawn, nest!Spawn
  <2> QED  BY <1>1, <2>2, <2>3
<1>4. ASSUME NEW r \in Runners, RunReturn(r) PROVE Parts'
  BY <1>1, <1>4 DEF RunReturn, nest!SpawnRefused, nest!nestVars
<1>5. ASSUME NEW c \in Closers, CloseEnter(c) \/ CloseReturn(c) PROVE Parts'
  BY <1>1, <1>5 DEF CloseEnter, CloseReturn, Closing
<1>6. ASSUME NEW c \in Closers, CloseCancel(c) PROVE Parts'
  BY <1>1, <1>6 DEF CloseCancel, nest!BeginCancel, nest!Phases
<1> QED  BY <1>2, <1>3, <1>4, <1>5, <1>6 DEF RunStep, CloseStep

LEMMA DismissState == StateInv /\ DismissStep => StateInv'
<1> SUFFICES ASSUME StateInv, Parts, DismissStep PROVE Parts'
  BY PartsSplit
<1> USE DEF Parts, QueueOK, PoolOK, HandInv, At, PopperPcs, Poppers, queue,
            calls, nestVars
<1>1. CASE DismissStart
  BY <1>1 DEF DismissStart, ResultsOK, ResultInv, OutInv, WaitInv, CallsOK, NestOK
<1>2. CASE DismissPop \/ DismissCountDown
  BY <1>2, PopState, PartsSplit DEF DismissPop, DismissCountDown
<1>3. CASE DismissFail
  <2>1. held[Dismisser] \in Tasks
    BY <1>3 DEF DismissFail
  <2>2. QueueOK' /\ PoolOK' /\ HandInv'
    BY <1>3 DEF DismissFail
  <2>3. ResultsOK' /\ ResultInv'
    BY <1>3, <2>1 DEF DismissFail, ResultsOK, ResultInv, OutInv, WaitInv, Answers
  <2>4. CallsOK' /\ NestOK'
    BY <1>3 DEF DismissFail, CallsOK, NestOK
  <2> QED  BY <2>2, <2>3, <2>4
<1>4. CASE DismissEnd
  BY <1>4 DEF DismissEnd, ResultsOK, ResultInv, OutInv, WaitInv, CallsOK, NestOK, results,
              nest!CancelDispatched, nest!Phases
<1> QED  BY <1>1, <1>2, <1>3, <1>4 DEF DismissStep

LEMMA ShutdownState ==
  ASSUME StateInv,
         \/ ParentCancel \/ WatcherCancel \/ WaitWorkers \/ NestDone
         \/ WaitExpires \/ HookBroadcast \/ HookTimeout
  PROVE  StateInv'
<1> SUFFICES ASSUME Parts PROVE Parts'
  BY PartsSplit
<1>1. UNCHANGED <<queue, results, held, chosen, ran, calls>>
  BY DEF ParentCancel, WatcherCancel, WaitWorkers, NestDone, WaitExpires,
         HookBroadcast, HookTimeout, pool
<1>2. QueueOK' /\ ResultsOK' /\ ResultInv'
  BY <1>1 DEF Parts, QueueOK, ResultsOK, ResultInv, OutInv, WaitInv, queue, results
<1>3. PoolOK' /\ HandInv'
  <2>1. UNCHANGED pc \/ WakeAll
    BY DEF ParentCancel, WatcherCancel, WaitWorkers, NestDone, WaitExpires,
           HookBroadcast, HookTimeout, pool
  <2> QED  BY <1>1, <2>1, WakeKeeps DEF Parts, PoolOK, HandInv
<1>4. CallsOK'
  BY <1>1 DEF Parts, CallsOK, calls, ParentCancel, WatcherCancel, WaitWorkers,
              NestDone, WaitExpires, HookBroadcast, HookTimeout
<1>5. NestOK'
  BY DEF Parts, NestOK, nestVars, ParentCancel, WatcherCancel, WaitWorkers,
         NestDone, WaitExpires, HookBroadcast, HookTimeout, nest!InheritedDone,
         nest!BeginCancel, nest!Drained, nest!Expire, nest!CloseDone, nest!Phases
<1> QED  BY <1>2, <1>3, <1>4, <1>5 DEF Parts

LEMMA StateStep == StateInv /\ [Next]_vars => StateInv'
<1>1. StateInv /\ UNCHANGED vars => StateInv'
  BY DEF StateInv, TypeOK, HandInv, ResultInv, OutInv, WaitInv, vars, queue, pool, results, calls,
         nestVars
<1> QED  BY <1>1, PushState, WorkerState, ResultState, CallState, DismissState,
            ShutdownState
         DEF Next, NestStep

LEMMA StateInductive == Spec => []StateInv
<1> QED  BY StateInit, StateStep, PTL DEF Spec

(* Type correctness of the retrievable scheduler.                            *)
THEOREM TypeCorrect == Spec => []TypeOK
<1>1. StateInv => TypeOK
  BY DEF StateInv
<1> QED  BY <1>1, StateInductive, PTL

(* Once a Result holds its job's output, nobody is told it was canceled: a   *)
(* waiter is answered from the Result if that is completed, and an output    *)
(* makes it complete.                                                        *)
THEOREM OutputStaysFinal == Spec => OutIsFinal
<1> DEFINE Told(x) == got'[x] = "CANCELED" /\ got[x] # "CANCELED"
           Honest == \A x \in Waiters : Told(x) => val[asked'[x]] # "out"
<1>1. StateInv /\ [Next]_vars => Honest
  <2> SUFFICES ASSUME StateInv, [Next]_vars, NEW x \in Waiters, Told(x)
               PROVE  val[asked'[x]] # "out"
    OBVIOUS
  <2> USE DEF StateInv, TypeOK
  <2>1. ASSUME NEW y \in Waiters, AnswerStep(y) \/ AnswerCtx(y)
        PROVE  val[asked'[x]] # "out"
    <3>1. y = x
      BY <2>1 DEF AnswerStep, AnswerDone, AnswerClosed, AnswerCtx, Answer
    <3>2. CASE AnswerDone(y)
      BY <3>1, <3>2 DEF AnswerDone, Answer
    <3>3. CASE AnswerClosed(y)
      <4>1. asked'[x] = asked[x] /\ asked[x] \notin done
        BY <3>1, <3>3 DEF AnswerClosed
      <4>2. asked[x] \in Tasks
        BY <3>1, <3>3 DEF AnswerClosed, ResultInv, WaitInv
      <4> QED  BY <4>1, <4>2 DEF ResultInv, OutInv
    <3>4. CASE AnswerCtx(y)
      BY <3>1, <3>4 DEF AnswerCtx, Answer
    <3> QED  BY <2>1, <3>2, <3>3, <3>4 DEF AnswerStep
  <2>2. ASSUME NEW y \in Waiters, NEW t \in Tasks, Ask(y, t)
        PROVE  val[asked'[x]] # "out"
    BY <2>2 DEF Ask, Answer
  <2>3. CASE UNCHANGED got
    BY <2>3
  <2> QED
    BY <2>1, <2>2, <2>3
    DEF Next, vars, results, PushRefused, PushAdmitted, PushStep, Reserve,
        ReserveFull, Enqueue, PushBroadcast, WorkerLocked, WorkerStep, JobEnd,
        WorkerExit, WorkerTest, WorkerWait, WorkerPop, WorkerPopNone, Pop,
        JobStart, CountDown, FinishSelect, FinishClose, RunEnter, RunStep,
        RunCreate, RunSpawn, RunReturn, CloseEnter, CloseStep, CloseCancel,
        CloseReturn, ParentCancel, NestStep, WatcherCancel, DismissStep,
        DismissStart, DismissPop, DismissCountDown, DismissFail, DismissEnd,
        WaitWorkers, NestDone, WaitExpires, HookBroadcast, HookTimeout
<1>2. Spec => [][Honest]_vars
  BY <1>1, StateInductive, PTL DEF Spec
<1> QED  BY <1>2 DEF OutIsFinal

-----------------------------------------------------------------------------
(* The counter.  Reserved and Popped are finite, and one goroutine's step    *)
(* adds itself to one of them or takes itself out.                           *)
LEMMA Finite ==
  /\ IsFiniteSet(Reserved) /\ Cardinality(Reserved) \in Nat
  /\ IsFiniteSet(Popped) /\ Cardinality(Popped) \in Nat
<1>1. Reserved \in SUBSET Tasks /\ Popped \in SUBSET Poppers
  BY DEF Reserved, Popped
<1>2. IsFiniteSet(Poppers)
  BY SetsAssumption, FS_AddElement DEF Poppers
<1>3. IsFiniteSet(Reserved) /\ IsFiniteSet(Popped)
  BY <1>1, <1>2, SetsAssumption, FS_Subset
<1> QED  BY <1>3, FS_CardinalityType

LEMMA ReservedMoves ==
  ASSUME TypeOK, NEW t \in Tasks, NEW at, Goes(t, at)
  PROVE  Reserved' = IF at = "reserved" THEN Reserved \cup {t} ELSE Reserved \ {t}
BY DEF TypeOK, Goes, Reserved

LEMMA PoppedMoves ==
  ASSUME TypeOK, NEW p \in Poppers, NEW at, At(p, at)
  PROVE  Popped' = IF at = "popped" THEN Popped \cup {p} ELSE Popped \ {p}
BY DEF TypeOK, At, Popped

LEMMA PoppedWake == TypeOK /\ WakeAll => Popped' = Popped
BY DEF TypeOK, WakeAll, Popped

(* The four steps that move the counter, the queue or a call across them.    *)
LEMMA ReserveCounts ==
  ASSUME TypeOK, PendingExact, NEW t \in Tasks, Reserve(t)
  PROVE  PendingExact'
<1>1. t \notin Reserved /\ Reserved' = Reserved \cup {t}
  BY ReservedMoves DEF Reserve, Reserved
<1>2. Cardinality(Reserved') = Cardinality(Reserved) + 1
  BY <1>1, Finite, FS_AddElement
<1>3. tasks' = tasks /\ pending' = pending + 1 /\ Popped' = Popped
  BY DEF Reserve, pool, Popped
<1> QED  BY <1>2, <1>3, Finite DEF PendingExact, TypeOK

LEMMA EnqueueCounts ==
  ASSUME TypeOK, PendingExact, NEW t \in Tasks, Enqueue(t)
  PROVE  PendingExact'
<1>1. t \in Reserved /\ Reserved' = Reserved \ {t}
  BY ReservedMoves DEF Enqueue, Reserved
<1>2. Cardinality(Reserved') = Cardinality(Reserved) - 1
  BY <1>1, Finite, FS_RemoveElement
<1>3. pending' = pending /\ Popped' = Popped
  BY DEF Enqueue, pool, Popped
<1>4. Len(tasks') = Len(tasks) + 1 /\ Len(tasks) \in Nat
  BY AppendProperties DEF Enqueue, TypeOK
<1> QED  BY <1>2, <1>3, <1>4, Finite DEF PendingExact

LEMMA PopCounts ==
  ASSUME TypeOK, PendingExact, NEW p \in Poppers, Pop(p), pc[p] # "popped"
  PROVE  PendingExact'
<1>1. p \notin Popped /\ Popped' = Popped \cup {p}
  BY PoppedMoves DEF Pop, Popped
<1>2. Cardinality(Popped') = Cardinality(Popped) + 1
  BY <1>1, Finite, FS_AddElement
<1>3. pending' = pending /\ Reserved' = Reserved
  BY DEF Pop, Reserved
<1>4. Len(tasks') = Len(tasks) - 1 /\ Len(tasks) \in Nat
  BY PopType DEF Pop, TypeOK
<1> QED  BY <1>2, <1>3, <1>4, Finite DEF PendingExact

LEMMA CountDownCounts ==
  ASSUME TypeOK, PendingExact, NEW p \in Poppers,
         CountDown(p, "running") \/ CountDown(p, "finish")
  PROVE  PendingExact'
<1>1. p \in Popped /\ Popped' = Popped \ {p}
  BY PoppedMoves DEF CountDown, Popped
<1>2. Cardinality(Popped') = Cardinality(Popped) - 1
  BY <1>1, Finite, FS_RemoveElement
<1>3. tasks' = tasks /\ pending' = pending - 1 /\ Reserved' = Reserved
  BY DEF CountDown, Reserved
<1> QED  BY <1>2, <1>3, Finite DEF PendingExact, TypeOK

LEMMA CountSame ==
  ASSUME PendingExact, UNCHANGED <<tasks, pending>>, Reserved' = Reserved,
         Popped' = Popped
  PROVE  PendingExact'
BY DEF PendingExact

LEMMA CountStep == TypeOK /\ PendingExact /\ [Next]_vars => PendingExact'
<1> SUFFICES ASSUME TypeOK, PendingExact, [Next]_vars PROVE PendingExact'
  OBVIOUS
<1>1. ASSUME NEW t \in Tasks,
             PushRefused(t) \/ PushAdmitted(t) \/ ReserveFull(t) \/ PushBroadcast(t)
      PROVE  PendingExact'
  <2>1. \E at \in PushPcs : at # "reserved" /\ Goes(t, at)
    BY <1>1 DEF PushRefused, PushAdmitted, ReserveFull, PushBroadcast, PushPcs
  <2>2. t \notin Reserved
    BY <1>1 DEF PushRefused, PushAdmitted, ReserveFull, PushBroadcast, Reserved
  <2>3. Reserved' = Reserved
    BY <2>1, <2>2, ReservedMoves
  <2>4. UNCHANGED <<tasks, pending>> /\ Popped' = Popped
    BY <1>1, PoppedWake
    DEF PushRefused, PushAdmitted, ReserveFull, PushBroadcast, pool, Popped
  <2> QED  BY <2>3, <2>4, CountSame
<1>2. ASSUME NEW w \in Workers,
             \/ WorkerExit(w) \/ WorkerTest(w) \/ WorkerWait(w)
             \/ WorkerPopNone(w) \/ JobEnd(w) \/ FinishSelect(w) \/ FinishClose(w)
      PROVE  PendingExact'
  <2>1. \E at \in PopperPcs : at # "popped" /\ At(w, at)
    BY <1>2 DEF WorkerExit, WorkerTest, WorkerWait, WorkerPopNone, JobEnd,
                FinishSelect, FinishClose, PopperPcs, LockPcs
  <2>2. w \notin Popped
    BY <1>2 DEF WorkerExit, WorkerTest, WorkerWait, WorkerPopNone, JobEnd,
                FinishSelect, FinishClose, Popped
  <2>3. Popped' = Popped
    BY <2>1, <2>2, PoppedMoves DEF Poppers
  <2>4. UNCHANGED <<tasks, pending>> /\ Reserved' = Reserved
    BY <1>2 DEF WorkerExit, WorkerTest, WorkerWait, WorkerPopNone, JobEnd,
                FinishSelect, FinishClose, Reserved, queue
  <2> QED  BY <2>3, <2>4, CountSame
<1>3. ASSUME NEW w \in Workers, WorkerPop(w) \/ JobStart(w)
      PROVE  PendingExact'
  <2>1. w \in Poppers
    BY DEF Poppers
  <2> QED  BY <1>3, <2>1, PopCounts, CountDownCounts DEF WorkerPop, JobStart
<1>4. CASE DismissPop \/ DismissCountDown
  <2>1. Dismisser \in Poppers
    BY DEF Poppers
  <2> QED  BY <1>4, <2>1, PopCounts, CountDownCounts
              DEF DismissPop, DismissCountDown
<1>5. CASE DismissStart \/ DismissFail \/ DismissEnd
  <2>0. Dismisser \in Poppers
    BY DEF Poppers
  <2>1. \E at \in PopperPcs : at # "popped" /\ At(Dismisser, at)
    BY <1>5 DEF DismissStart, DismissFail, DismissEnd, PopperPcs
  <2>2. Dismisser \notin Popped
    BY <1>5 DEF DismissStart, DismissFail, DismissEnd, Popped
  <2>3. Popped' = Popped
    BY <2>0, <2>1, <2>2, PoppedMoves
  <2>4. UNCHANGED <<tasks, pending>> /\ Reserved' = Reserved
    BY <1>5 DEF DismissStart, DismissFail, DismissEnd, Reserved, queue
  <2> QED  BY <2>3, <2>4, CountSame
<1>6. ASSUME NEW r \in Runners, RunSpawn(r) PROVE PendingExact'
  <2>1. PICK w \in Workers : pc[w] = "none" /\ At(w, "idle")
    BY <1>6 DEF RunSpawn
  <2>2. Popped' = Popped
    BY <2>1, PoppedMoves DEF Popped, Poppers
  <2>3. UNCHANGED <<tasks, pending>> /\ Reserved' = Reserved
    BY <1>6 DEF RunSpawn, Reserved, queue
  <2> QED  BY <2>2, <2>3, CountSame
<1>7. CASE \/ \E x \in Waiters : AnswerStep(x) \/ AnswerCtx(x) \/ \E t \in Tasks : Ask(x, t)
           \/ \E r \in Runners : RunEnter(r) \/ RunCreate(r) \/ RunReturn(r)
           \/ \E c \in Closers : CloseEnter(c) \/ CloseStep(c)
           \/ ParentCancel \/ WatcherCancel \/ WaitWorkers \/ NestDone
           \/ WaitExpires \/ HookTimeout \/ UNCHANGED vars
  <2>1. UNCHANGED <<tasks, pending, push, pc>>
    BY <1>7 DEF AnswerStep, AnswerDone, AnswerClosed, AnswerCtx, Ask, RunEnter,
                RunCreate, RunReturn, CloseEnter, CloseStep, CloseCancel,
                CloseReturn, ParentCancel, WatcherCancel, WaitWorkers, NestDone,
                WaitExpires, HookTimeout, vars, pool, queue
  <2> QED  BY <2>1, CountSame DEF Reserved, Popped
<1>8. CASE HookBroadcast
  <2>1. UNCHANGED <<tasks, pending>> /\ Reserved' = Reserved /\ Popped' = Popped
    BY <1>8, PoppedWake DEF HookBroadcast, Reserved, queue
  <2> QED  BY <2>1, CountSame
<1> QED  BY <1>1, <1>2, <1>3, <1>4, <1>5, <1>6, <1>7, <1>8, ReserveCounts,
            EnqueueCounts
         DEF Next, PushStep, WorkerLocked, WorkerStep, RunStep, NestStep,
             DismissStep

(* The counter that Push, the workers and the dismisser keep without a       *)
(* common lock is ahead of the queue by exactly the calls in the middle.     *)
THEOREM PendingIsExact == Spec => []PendingExact
<1>1. Init => PendingExact
  <2> SUFFICES ASSUME Init PROVE PendingExact
    OBVIOUS
  <2>1. Reserved = {} /\ Popped = {}
    BY DEF Init, Reserved, Popped
  <2> QED  BY <2>1, FS_EmptySet DEF Init, PendingExact
<1>2. TypeOK /\ PendingExact /\ [Next]_vars => PendingExact'
  BY CountStep
<1> QED  BY <1>1, <1>2, TypeCorrect, PTL DEF Spec
LEMMA CountInductive == Spec => []PendingExact
<1> QED  BY PendingIsExact

(* And the reservation keeps it within WithRetrievableMaxPending.            *)
PendingBound == MaxPending >= 0 => pending <= MaxPending

LEMMA BoundStep == TypeOK /\ PendingBound /\ [Next]_vars => PendingBound'
<1> SUFFICES ASSUME TypeOK, PendingBound, [Next]_vars PROVE PendingBound'
  OBVIOUS
<1>1. pending \in Int
  BY DEF TypeOK
<1>2. ASSUME NEW t \in Tasks, Reserve(t) PROVE PendingBound'
  BY <1>1, <1>2, OptionsAssumption DEF PendingBound, Reserve
<1>3. ASSUME pending' = pending - 1 PROVE PendingBound'
  BY <1>1, <1>3, OptionsAssumption DEF PendingBound
<1>4. ASSUME pending' = pending PROVE PendingBound'
  BY <1>4 DEF PendingBound
<1>5. ASSUME NEW t \in Tasks, PushRefused(t) \/ PushAdmitted(t) \/ PushStep(t)
      PROVE  pending' = pending \/ Reserve(t)
  BY <1>5 DEF PushRefused, PushAdmitted, PushStep, ReserveFull, Enqueue, PushBroadcast
<1>6. ASSUME NEW w \in Workers, WorkerLocked(w) \/ WorkerStep(w) \/ JobEnd(w)
      PROVE  pending' = pending \/ pending' = pending - 1
  BY <1>6 DEF WorkerLocked, WorkerStep, WorkerExit, WorkerTest, WorkerWait, WorkerPop,
              WorkerPopNone, Pop, JobStart, CountDown, JobEnd, FinishSelect,
              FinishClose, queue
<1>7. DismissStep => pending' = pending \/ pending' = pending - 1
  BY DEF DismissStep, DismissStart, DismissPop, Pop, DismissCountDown, CountDown,
         DismissFail, DismissEnd, queue
<1>8. ASSUME \/ \E x \in Waiters : AnswerStep(x) \/ AnswerCtx(x) \/ \E t \in Tasks : Ask(x, t)
             \/ \E r \in Runners : RunEnter(r) \/ RunStep(r)
             \/ \E c \in Closers : CloseEnter(c) \/ CloseStep(c)
             \/ ParentCancel \/ WatcherCancel \/ WaitWorkers \/ NestDone
             \/ WaitExpires \/ HookBroadcast \/ HookTimeout \/ UNCHANGED vars
      PROVE  pending' = pending
  BY <1>8 DEF AnswerStep, AnswerDone, AnswerClosed, AnswerCtx, Ask, RunEnter, RunStep,
              RunCreate, RunSpawn, RunReturn, CloseEnter, CloseStep, CloseCancel,
              CloseReturn, ParentCancel, WatcherCancel, WaitWorkers, NestDone,
              WaitExpires, HookBroadcast, HookTimeout, vars, queue
<1> QED  BY <1>2, <1>3, <1>4, <1>5, <1>6, <1>7, <1>8 DEF Next, NestStep

-----------------------------------------------------------------------------
(* The shutdown.  A worker between its spawn and its return is in the nest's *)
(* group, which is empty past the wait unless that was given up; and the     *)
(* dismisser works in the before hook only.                                  *)
GroupInv == \A w \in Workers : pc[w] \in {"none", "exited"} \/ w \in wg

DrainInv == ~timedOut /\ phase \in {"after", "done"} => wg = {}

DismisserInv ==
  /\ pc[Dismisser] \in {"none", "idle", "popped", "finish", "exited"}
  /\ pc[Dismisser] \in {"idle", "popped", "finish"} => phase = "before"

ShutInv == GroupInv /\ DrainInv /\ DismisserInv

LEMMA WakeShut ==
  ASSUME TypeOK, ShutInv, pc' = pc \/ WakeAll, UNCHANGED <<phase, wg, timedOut>>
  PROVE  ShutInv'
<1>1. \A p \in Poppers : pc'[p] = pc[p] \/ (pc[p] = "asleep" /\ pc'[p] = "idle")
  BY DEF WakeAll
<1>2. GroupInv' /\ DrainInv'
  BY <1>1 DEF ShutInv, GroupInv, DrainInv, Poppers
<1>3. pc'[Dismisser] = pc[Dismisser]
  BY <1>1 DEF ShutInv, DismisserInv, Poppers
<1> QED  BY <1>2, <1>3 DEF ShutInv, DismisserInv

LEMMA WorkerShut ==
  ASSUME TypeOK, ShutInv, NEW w \in Workers,
         WorkerLocked(w) \/ WorkerStep(w) \/ JobEnd(w)
  PROVE  ShutInv'
<1>1. pc[w] \notin {"none", "exited"} /\ \E at \in PopperPcs : At(w, at)
  BY DEF WorkerLocked, WorkerStep, WorkerExit, WorkerTest, WorkerWait, WorkerPop,
         WorkerPopNone, Pop, JobStart, CountDown, JobEnd, FinishSelect, FinishClose,
         PopperPcs, LockPcs
<1>2. w \in wg
  BY <1>1 DEF ShutInv, GroupInv
<1>3. \A p \in Poppers : p # w => pc'[p] = pc[p]
  BY <1>1 DEF At, TypeOK
<1>4. UNCHANGED <<phase, timedOut>>
  BY DEF WorkerLocked, WorkerStep, WorkerExit, WorkerTest, WorkerWait, WorkerPop,
         WorkerPopNone, Pop, JobStart, CountDown, JobEnd, FinishSelect, FinishClose,
         nestVars, nest!Return
<1>5. wg' = wg \/ (wg' = wg \ {w} /\ pc'[w] = "exited")
  BY DEF WorkerLocked, WorkerStep, WorkerExit, WorkerTest, WorkerWait, WorkerPop,
         WorkerPopNone, Pop, JobStart, CountDown, JobEnd, FinishSelect, FinishClose,
         nestVars, nest!Return, At, TypeOK, Poppers
<1>6. GroupInv'
  BY <1>2, <1>3, <1>5 DEF ShutInv, GroupInv, Poppers
<1>7. DrainInv'
  BY <1>2, <1>4 DEF ShutInv, DrainInv
<1>8. DismisserInv'
  <2>1. pc'[Dismisser] = pc[Dismisser]
    BY <1>3, SetsAssumption DEF Poppers
  <2> QED  BY <1>4, <2>1 DEF ShutInv, DismisserInv
<1> QED  BY <1>6, <1>7, <1>8 DEF ShutInv

LEMMA DismissShut ==
  ASSUME TypeOK, ShutInv, DismissStep
  PROVE  ShutInv'
<1>1. \E at \in {"idle", "popped", "finish", "exited"} :
        /\ At(Dismisser, at)
        /\ \/ phase = "before" /\ phase' = "before"
           \/ phase' = "draining" /\ at = "exited"
  BY DEF ShutInv, DismisserInv, DismissStep, DismissStart, DismissPop, Pop,
         DismissCountDown, CountDown, DismissFail, DismissEnd, nestVars,
         nest!CancelDispatched
<1>2. UNCHANGED <<wg, timedOut>>
  BY DEF DismissStep, DismissStart, DismissPop, Pop, DismissCountDown, CountDown,
         DismissFail, DismissEnd, nestVars, nest!CancelDispatched
<1>3. \A w \in Workers : pc'[w] = pc[w]
  BY <1>1, SetsAssumption DEF At, TypeOK, Poppers
<1>4. GroupInv' /\ DrainInv'
  BY <1>1, <1>2, <1>3 DEF ShutInv, GroupInv, DrainInv
<1>5. DismisserInv'
  BY <1>1 DEF DismisserInv, At, TypeOK, Poppers
<1> QED  BY <1>4, <1>5 DEF ShutInv

LEMMA NestShut ==
  ASSUME TypeOK, ShutInv,
         \/ \E c \in Closers : CloseCancel(c)
         \/ WatcherCancel \/ WaitWorkers \/ WaitExpires \/ NestDone
  PROVE  ShutInv'
<1>1. UNCHANGED <<pc, wg>>
  BY DEF CloseCancel, WatcherCancel, WaitWorkers, WaitExpires, NestDone, pool,
         nest!BeginCancel, nest!Drained, nest!Expire, nest!CloseDone
<1>2. phase # "before"
  BY DEF CloseCancel, WatcherCancel, WaitWorkers, WaitExpires, NestDone,
         nest!BeginCancel, nest!Drained, nest!Expire, nest!CloseDone
<1>3. GroupInv' /\ DismisserInv'
  BY <1>1, <1>2 DEF ShutInv, GroupInv, DismisserInv
<1>4. DrainInv'
  BY DEF ShutInv, DrainInv, CloseCancel, WatcherCancel, WaitWorkers, WaitExpires,
         NestDone, nest!BeginCancel, nest!Drained, nest!Expire, nest!CloseDone
<1> QED  BY <1>3, <1>4 DEF ShutInv

LEMMA ShutStep == TypeOK /\ ShutInv /\ [Next]_vars => ShutInv'
<1> SUFFICES ASSUME TypeOK, ShutInv, [Next]_vars PROVE ShutInv'
  OBVIOUS
<1>1. ASSUME NEW r \in Runners, RunSpawn(r) PROVE ShutInv'
  <2>1. PICK w \in Workers : pc[w] = "none" /\ nest!Spawn(w) /\ At(w, "idle")
    BY <1>1 DEF RunSpawn
  <2>2. /\ phase = "open" /\ phase' = "open" /\ wg' = wg \cup {w}
        /\ \A p \in Poppers : p # w => pc'[p] = pc[p]
    BY <2>1 DEF nest!Spawn, At, TypeOK
  <2>3. pc'[Dismisser] = pc[Dismisser]
    BY <2>2, SetsAssumption DEF Poppers
  <2> QED  BY <2>2, <2>3 DEF ShutInv, GroupInv, DrainInv, DismisserInv, Poppers
<1>2. ASSUME NEW t \in Tasks, PushRefused(t) \/ PushAdmitted(t) \/ PushStep(t)
      PROVE  ShutInv'
  <2>1. (pc' = pc \/ WakeAll) /\ UNCHANGED <<phase, wg, timedOut>>
    BY <1>2 DEF PushRefused, PushAdmitted, PushStep, Reserve, ReserveFull, Enqueue,
                PushBroadcast, pool, nestVars
  <2> QED  BY <2>1, WakeShut
<1>3. ASSUME NEW x \in Waiters,
             AnswerStep(x) \/ AnswerCtx(x) \/ \E t \in Tasks : Ask(x, t)
      PROVE  ShutInv'
  <2>1. pc' = pc /\ UNCHANGED <<phase, wg, timedOut>>
    BY <1>3 DEF AnswerStep, AnswerDone, AnswerClosed, AnswerCtx, Ask, pool, nestVars
  <2> QED  BY <2>1, WakeShut
<1>4. ASSUME \/ \E r \in Runners : RunEnter(r) \/ RunCreate(r) \/ RunReturn(r)
             \/ \E c \in Closers : CloseEnter(c) \/ CloseReturn(c)
             \/ ParentCancel \/ HookBroadcast \/ HookTimeout \/ UNCHANGED vars
      PROVE  ShutInv'
  <2>1. (pc' = pc \/ WakeAll) /\ UNCHANGED <<phase, wg, timedOut>>
    BY <1>4 DEF RunEnter, RunCreate, RunReturn, CloseEnter, CloseReturn, ParentCancel,
                HookBroadcast, HookTimeout, vars, pool, nestVars, nest!InheritedDone,
                nest!SpawnRefused, nest!nestVars
  <2> QED  BY <2>1, WakeShut
<1> QED  BY <1>1, <1>2, <1>3, <1>4, WorkerShut, DismissShut, NestShut
         DEF Next, NestStep, RunStep, CloseStep

-----------------------------------------------------------------------------
(* Where a task can be.  Whatever is queued, held, run or completed was      *)
(* pushed.  The queue holds nothing twice, and nothing that was popped; what *)
(* a popper holds is held by it alone, is not completed, and has been run if *)
(* a worker holds it that is past its job.                                   *)
Pushed(t) == push[t] \in {"appended", "ok"}
Distinct(s) == \A i, j \in DOMAIN s : s[i] = s[j] => i = j
InJob(p) == pc[p] \in {"popped", "running"}
PastJob(p) == pc[p] \in {"finish", "store"}

QueueInv ==
  /\ Distinct(tasks)
  /\ \A t \in Range(tasks) : /\ Pushed(t) /\ t \notin ran /\ t \notin done
                             /\ \A p \in Poppers : held[p] # t

OwnInv ==
  /\ \A p \in Poppers : held[p] # NoTask =>
       /\ Pushed(held[p]) /\ held[p] \notin done
       /\ InJob(p) \/ PastJob(p)
       /\ held[p] \in ran <=> p # Dismisser /\ PastJob(p)
  /\ \A p, q \in Poppers : held[p] = held[q] /\ held[q] # NoTask => p = q

SettledInv == \A t \in ran \cup done : Pushed(t)

PlaceInv == QueueInv /\ OwnInv /\ SettledInv

(* A queue without repetitions loses one element where one is taken out.     *)
TakesOut(s, r, n, p) ==
  /\ s \in Seq(Tasks) /\ r \in Seq(Tasks)
  /\ n \in Nat /\ p \in 1..n /\ Len(s) = n /\ Len(r) = n - 1
  /\ \A i \in 1..(n - 1) : /\ i < p => r[i] = s[i]
                           /\ i >= p => r[i] = s[i + 1]

LEMMA TakeOut ==
  ASSUME NEW s, NEW r, NEW n, NEW p, TakesOut(s, r, n, p), Distinct(s)
  PROVE  Range(r) = Range(s) \ {s[p]} /\ Distinct(r)
<1> DEFINE k(i) == IF i < p THEN i ELSE i + 1
<1>0. n \in Nat /\ p \in 1..n
  BY DEF TakesOut
<1>1. DOMAIN s = 1..n /\ DOMAIN r = 1..(n - 1)
  BY DEF TakesOut
<1>2. \A i \in 1..(n - 1) : k(i) \in 1..n /\ k(i) # p /\ r[i] = s[k(i)]
  BY DEF TakesOut
<1>3. \A i, j \in 1..(n - 1) : k(i) = k(j) => i = j
  BY <1>0
<1>4. \A i \in 1..n : i # p => \E j \in 1..(n - 1) : k(j) = i
  <2> SUFFICES ASSUME NEW i \in 1..n, i # p PROVE \E j \in 1..(n - 1) : k(j) = i
    OBVIOUS
  <2>1. CASE i < p
    <3>1. i \in 1..(n - 1) /\ k(i) = i
      BY <1>0, <2>1
    <3> QED  BY <3>1
  <2>2. CASE i > p
    <3>1. i - 1 \in 1..(n - 1) /\ k(i - 1) = i
      BY <1>0, <2>2
    <3> QED  BY <3>1
  <2> QED  BY <1>0, <2>1, <2>2
<1> HIDE DEF k
<1>5. ASSUME NEW x \in Range(r) PROVE x \in Range(s) /\ x # s[p]
  <2>1. PICK i \in 1..(n - 1) : x = r[i]
    BY <1>1 DEF Range
  <2>2. k(i) \in DOMAIN s /\ k(i) # p /\ x = s[k(i)]
    BY <1>1, <1>2, <2>1
  <2> QED  BY <1>0, <1>1, <2>2 DEF Range, Distinct
<1>6. ASSUME NEW x \in Range(s), x # s[p] PROVE x \in Range(r)
  <2>1. PICK i \in 1..n : x = s[i]
    BY <1>1 DEF Range
  <2>2. PICK j \in 1..(n - 1) : k(j) = i
    BY <1>4, <1>6, <2>1
  <2>3. x = r[j]
    BY <1>2, <2>1, <2>2
  <2> QED  BY <1>1, <2>3 DEF Range
<1>7. Distinct(r)
  BY <1>1, <1>2, <1>3 DEF Distinct
<1> QED  BY <1>5, <1>6, <1>7

(* Pop takes one element, at either end.                                     *)
LEMMA PopTakesOne ==
  ASSUME NEW s \in Seq(Tasks), s # <<>>, Distinct(s)
  PROVE  /\ Pick(s) \in Range(s)
         /\ Range(Rest(s)) = Range(s) \ {Pick(s)}
         /\ Distinct(Rest(s))
<1>1. PICK n \in Nat : Len(s) = n /\ n >= 1 /\ DOMAIN s = 1..n
  OBVIOUS
<1>2. PICK r \in Seq(Tasks) : r = Rest(s) /\ Len(r) = n - 1
  BY <1>1, PopType
<1>3. PICK p \in 1..n : /\ Pick(s) = s[p]
                       /\ \A i \in 1..(n - 1) : /\ i < p => r[i] = s[i]
                                                /\ i >= p => r[i] = s[i + 1]
  <2>1. CASE Mode = "FIFO"
    <3>1. Pick(s) = s[1] /\ r = Tail(s)
      BY <1>1, <1>2, <2>1 DEF Pick, Rest
    <3>2. \A i \in 1..(n - 1) : r[i] = s[i + 1]
      BY <1>1, <1>2, <3>1, HeadTailProperties
    <3>3. 1 \in 1..n /\ \A i \in 1..(n - 1) : ~(i < 1)
      BY <1>1
    <3> QED  BY <3>1, <3>2, <3>3
  <2>2. CASE Mode # "FIFO"
    <3>1. Pick(s) = s[n] /\ r = SubSeq(s, 1, n - 1)
      BY <1>1, <1>2, <2>2 DEF Pick, Rest
    <3>2. \A i \in 1..(n - 1) : s[i] \in Tasks
      BY <1>1
    <3>3. \A i \in 1..((n - 1) - 1 + 1) : r[i] = s[1 + i - 1]
      BY <3>1, <3>2, SubSeqProperties, n - 1 \in Int
    <3>4. \A i \in 1..(n - 1) : i \in 1..((n - 1) - 1 + 1) /\ 1 + i - 1 = i /\ i < n
      OBVIOUS
    <3>5. n \in 1..n
      BY <1>1
    <3> QED  BY <3>1, <3>3, <3>4, <3>5
  <2> QED  BY <2>1, <2>2
<1>4. \A i \in 1..(n - 1) : (i < p => r[i] = s[i]) /\ (i >= p => r[i] = s[i + 1])
  BY <1>3
<1>5. Range(r) = Range(s) \ {s[p]} /\ Distinct(r)
  <2>1. TakesOut(s, r, n, p)
    BY <1>1, <1>2, <1>4 DEF TakesOut
  <2> QED  BY <2>1, TakeOut
<1>6. s[p] \in Range(s)
  BY <1>1 DEF Range
<1> QED  BY <1>2, <1>3, <1>5, <1>6

LEMMA AppendAddsOne ==
  ASSUME NEW s \in Seq(Tasks), NEW t \in Tasks
  PROVE  /\ Range(Append(s, t)) = Range(s) \cup {t}
         /\ Distinct(s) /\ t \notin Range(s) => Distinct(Append(s, t))
<1>1. /\ DOMAIN s = 1..Len(s) /\ Len(s) \in Nat
      /\ DOMAIN Append(s, t) = DOMAIN s \cup {Len(s) + 1}
      /\ \A i \in DOMAIN s : Append(s, t)[i] = s[i]
      /\ Append(s, t)[Len(s) + 1] = t
  OBVIOUS
<1>2. Range(Append(s, t)) = Range(s) \cup {t}
  BY <1>1 DEF Range
<1>3. ASSUME Distinct(s), t \notin Range(s) PROVE Distinct(Append(s, t))
  BY <1>1, <1>3 DEF Distinct, Range
<1> QED  BY <1>2, <1>3

LEMMA QueueIn == TypeOK => Range(tasks) \subseteq Tasks
BY DEF TypeOK, Range

LEMMA NotDismisser == /\ \A w \in Workers : w \in Poppers /\ w # Dismisser
                      /\ Dismisser \in Poppers
                      /\ \A p \in Poppers : p # Dismisser => p \in Workers
BY SetsAssumption DEF Poppers

(* Most steps move no task.                                                  *)
Aside ==
  /\ UNCHANGED <<tasks, held, ran, done>>
  /\ \A t \in Tasks : Pushed(t) <=> Pushed(t)'
  /\ \A w \in Workers : (InJob(w)' <=> InJob(w)) /\ (PastJob(w)' <=> PastJob(w))
  /\ InJob(Dismisser) \/ PastJob(Dismisser) => (InJob(Dismisser) \/ PastJob(Dismisser))'

LEMMA AsidePlace ==
  ASSUME TypeOK, PlaceInv, Aside
  PROVE  PlaceInv'
<1>0. UNCHANGED <<tasks, held, ran, done>> /\ \A t \in Tasks : Pushed(t) => Pushed(t)'
  BY DEF Aside
<1>1. QueueInv'
  BY <1>0, QueueIn DEF PlaceInv, QueueInv
<1>2. OwnInv'
  <2>1. ASSUME NEW p \in Poppers, held'[p] # NoTask
        PROVE  /\ Pushed(held[p])' /\ held'[p] \notin done'
               /\ (InJob(p) \/ PastJob(p))'
               /\ held'[p] \in ran' <=> p # Dismisser /\ PastJob(p)'
    <3>1. PICK t \in Tasks : t = held[p] /\ t = held'[p]
      BY <1>0, <2>1 DEF TypeOK
    <3>2. /\ Pushed(t) /\ t \notin done /\ (InJob(p) \/ PastJob(p))
          /\ t \in ran <=> p # Dismisser /\ PastJob(p)
      BY <1>0, <2>1, <3>1 DEF PlaceInv, OwnInv
    <3>3. Pushed(held[p])'
      BY <1>0, <3>1, <3>2 DEF Pushed
    <3>4. CASE p = Dismisser
      BY <1>0, <3>1, <3>2, <3>3, <3>4 DEF Aside
    <3>5. CASE p # Dismisser
      BY <1>0, <3>1, <3>2, <3>3, <3>5, NotDismisser DEF Aside
    <3> QED  BY <3>4, <3>5
  <2>2. \A p, q \in Poppers : held'[p] = held'[q] /\ held'[q] # NoTask => p = q
    BY <1>0 DEF PlaceInv, OwnInv
  <2> QED  BY <2>1, <2>2 DEF OwnInv
<1>3. SettledInv'
  BY <1>0 DEF PlaceInv, SettledInv, TypeOK
<1> QED  BY <1>1, <1>2, <1>3 DEF PlaceInv

LEMMA EnqueuePlace ==
  ASSUME TypeOK, PlaceInv, NEW t \in Tasks, Enqueue(t)
  PROVE  PlaceInv'
<1>1. /\ push[t] = "reserved" /\ ~Pushed(t)
      /\ tasks' = Append(tasks, t)
      /\ push' = [push EXCEPT ![t] = "appended"]
      /\ UNCHANGED <<pc, held, ran, done>>
  BY DEF Enqueue, Goes, Pushed, pool, results
<1>2. \A u \in Tasks : Pushed(u) => Pushed(u)'
  BY <1>1 DEF TypeOK, Pushed
<1>3. Pushed(t)'
  BY <1>1 DEF TypeOK, Pushed
<1>4. Range(tasks') = Range(tasks) \cup {t} /\ Distinct(tasks')
  BY <1>1, AppendAddsOne DEF TypeOK, PlaceInv, QueueInv
<1>5. t \notin ran /\ t \notin done /\ \A p \in Poppers : held[p] # t
  BY <1>1, SetsAssumption DEF TypeOK, PlaceInv, OwnInv, SettledInv
<1>6. QueueInv'
  BY <1>1, <1>2, <1>3, <1>4, <1>5, QueueIn DEF PlaceInv, QueueInv
<1>7. OwnInv'
  BY <1>1, <1>2 DEF PlaceInv, OwnInv, InJob, PastJob, TypeOK
<1>8. SettledInv'
  BY <1>1, <1>2 DEF PlaceInv, SettledInv, TypeOK
<1> QED  BY <1>6, <1>7, <1>8 DEF PlaceInv

(* A popper that has none takes a task of the queue that nobody has.         *)
PopsTask(p, t) ==
  /\ t \in Tasks /\ t \in Range(tasks) /\ held[p] = NoTask
  /\ Range(tasks') = Range(tasks) \ {t} /\ Distinct(tasks')
  /\ held' = [held EXCEPT ![p] = t]
  /\ pc' = [pc EXCEPT ![p] = "popped"]
  /\ UNCHANGED <<push, ran, done, phase, timedOut>>

LEMMA PopIs ==
  ASSUME TypeOK, PlaceInv, NEW p \in Poppers, Pop(p), ~InJob(p), ~PastJob(p)
  PROVE  \E t \in Tasks : PopsTask(p, t)
<1>1. PICK t : t = Pick(tasks)
  OBVIOUS
<1>2. /\ t \in Range(tasks) /\ t \in Tasks
      /\ Range(tasks') = Range(tasks) \ {t} /\ Distinct(tasks')
      /\ held' = [held EXCEPT ![p] = t]
  BY <1>1, PopTakesOne, QueueIn DEF TypeOK, PlaceInv, QueueInv, Pop
<1>3. held[p] = NoTask
  BY DEF PlaceInv, OwnInv
<1>4. pc' = [pc EXCEPT ![p] = "popped"] /\ UNCHANGED <<push, ran, done, phase, timedOut>>
  BY DEF Pop, At, results, nestVars
<1> QED  BY <1>2, <1>3, <1>4 DEF PopsTask

LEMMA PopPlace ==
  ASSUME TypeOK, PlaceInv, NEW p \in Poppers, NEW t \in Tasks, PopsTask(p, t)
  PROVE  PlaceInv'
<1>1. /\ t \in Range(tasks) /\ held[p] = NoTask /\ t # NoTask
      /\ Range(tasks') = Range(tasks) \ {t} /\ Distinct(tasks')
      /\ UNCHANGED <<push, ran, done>>
  BY SetsAssumption DEF PopsTask
<1>2. /\ Pushed(t) /\ t \notin ran /\ t \notin done
      /\ \A q \in Poppers : held[q] # t
  BY <1>1 DEF PlaceInv, QueueInv
<1>3. /\ \A q \in Poppers : held'[q] = IF q = p THEN t ELSE held[q]
      /\ \A q \in Poppers : pc'[q] = IF q = p THEN "popped" ELSE pc[q]
  BY DEF PopsTask, TypeOK
<1>4. QueueInv'
  BY <1>1, <1>3 DEF PlaceInv, QueueInv, Pushed
<1>5. OwnInv'
  <2>1. ASSUME NEW q \in Poppers, held'[q] # NoTask
        PROVE  /\ Pushed(held[q])' /\ held'[q] \notin done'
               /\ (InJob(q) \/ PastJob(q))'
               /\ held'[q] \in ran' <=> q # Dismisser /\ PastJob(q)'
    <3>1. CASE q = p
      BY <1>1, <1>2, <1>3, <3>1 DEF Pushed, InJob, PastJob
    <3>2. CASE q # p
      BY <1>1, <1>3, <2>1, <3>2 DEF PlaceInv, OwnInv, Pushed, InJob, PastJob
    <3> QED  BY <3>1, <3>2
  <2>2. ASSUME NEW q \in Poppers, NEW r \in Poppers, held'[q] = held'[r],
               held'[r] # NoTask
        PROVE  q = r
    BY <1>2, <1>3, <2>2 DEF PlaceInv, OwnInv
  <2> QED  BY <2>1, <2>2 DEF OwnInv
<1>6. SettledInv'
  BY <1>1 DEF PlaceInv, SettledInv, Pushed
<1> QED  BY <1>4, <1>5, <1>6 DEF PlaceInv

(* What the end of a job and the completion of a Result do to the place of   *)
(* the task that the popper holds.                                           *)
EndsJob(w, t) ==
  /\ t \in Tasks /\ t = held[w] /\ InJob(w)
  /\ ran' = ran \cup {t}
  /\ pc' = [pc EXCEPT ![w] = "finish"]
  /\ UNCHANGED <<tasks, push, held, done, phase, timedOut>>

Completes(p, t) ==
  /\ t \in Tasks /\ t = held[p] /\ PastJob(p)
  /\ done' = done \cup {t}
  /\ held' = [held EXCEPT ![p] = NoTask]
  /\ pc' = [pc EXCEPT ![p] = "idle"]
  /\ UNCHANGED <<tasks, push, ran, phase, timedOut>>

LEMMA EndIs ==
  ASSUME StateInv, NEW w \in Workers, JobEnd(w)
  PROVE  \E t \in Tasks : EndsJob(w, t)
<1>1. held[w] \in Tasks
  BY NotDismisser DEF StateInv, HandInv, JobEnd
<1> QED  BY <1>1 DEF EndsJob, JobEnd, At, InJob, queue, results, nestVars

LEMMA CompleteIs ==
  ASSUME StateInv, NEW p \in Poppers,
         \/ p \in Workers /\ FinishClose(p)
         \/ p = Dismisser /\ DismissFail
  PROVE  \E t \in Tasks : Completes(p, t)
<1>1. held[p] \in Tasks
  BY DEF StateInv, HandInv, FinishClose, DismissFail
<1> QED  BY <1>1 DEF Completes, FinishClose, DismissFail, At, PastJob, queue, nestVars

LEMMA EndPlace ==
  ASSUME TypeOK, PlaceInv, NEW w \in Workers, NEW t \in Tasks, EndsJob(w, t)
  PROVE  PlaceInv'
<1>1. /\ t = held[w] /\ t # NoTask /\ w \in Poppers /\ w # Dismisser
      /\ ran' = ran \cup {t} /\ UNCHANGED <<tasks, push, held, done>>
  BY NotDismisser, SetsAssumption DEF EndsJob
<1>2. /\ Pushed(t) /\ t \notin done /\ t \notin Range(tasks)
      /\ \A q \in Poppers : q # w => held[q] # t
  BY <1>1 DEF PlaceInv, QueueInv, OwnInv
<1>3. \A q \in Poppers : pc'[q] = IF q = w THEN "finish" ELSE pc[q]
  BY DEF EndsJob, TypeOK
<1>4. QueueInv'
  BY <1>1, <1>2 DEF PlaceInv, QueueInv, Pushed
<1>5. OwnInv'
  <2>1. ASSUME NEW q \in Poppers, held'[q] # NoTask
        PROVE  /\ Pushed(held[q])' /\ held'[q] \notin done'
               /\ (InJob(q) \/ PastJob(q))'
               /\ held'[q] \in ran' <=> q # Dismisser /\ PastJob(q)'
    <3>1. CASE q = w
      BY <1>1, <1>2, <1>3, <3>1 DEF Pushed, InJob, PastJob
    <3>2. CASE q # w
      BY <1>1, <1>2, <1>3, <2>1, <3>2 DEF PlaceInv, OwnInv, Pushed, InJob, PastJob
    <3> QED  BY <3>1, <3>2
  <2>2. \A p, q \in Poppers : held'[p] = held'[q] /\ held'[q] # NoTask => p = q
    BY <1>1 DEF PlaceInv, OwnInv
  <2> QED  BY <2>1, <2>2 DEF OwnInv
<1>6. SettledInv'
  BY <1>1, <1>2 DEF PlaceInv, SettledInv, Pushed
<1> QED  BY <1>4, <1>5, <1>6 DEF PlaceInv

LEMMA CompletePlace ==
  ASSUME TypeOK, PlaceInv, NEW p \in Poppers, NEW t \in Tasks, Completes(p, t)
  PROVE  PlaceInv'
<1>1. /\ t = held[p] /\ t # NoTask
      /\ done' = done \cup {t} /\ UNCHANGED <<tasks, push, ran>>
  BY SetsAssumption DEF Completes
<1>2. /\ Pushed(t) /\ t \notin Range(tasks)
      /\ \A q \in Poppers : q # p => held[q] # t
  BY <1>1 DEF PlaceInv, QueueInv, OwnInv
<1>3. /\ \A q \in Poppers : held'[q] = IF q = p THEN NoTask ELSE held[q]
      /\ \A q \in Poppers : q # p => pc'[q] = pc[q]
  BY DEF Completes, TypeOK
<1>4. QueueInv'
  BY <1>1, <1>2, <1>3, QueueIn, SetsAssumption DEF PlaceInv, QueueInv, Pushed
<1>5. OwnInv'
  <2>1. ASSUME NEW q \in Poppers, held'[q] # NoTask
        PROVE  /\ Pushed(held[q])' /\ held'[q] \notin done'
               /\ (InJob(q) \/ PastJob(q))'
               /\ held'[q] \in ran' <=> q # Dismisser /\ PastJob(q)'
    <3>1. q # p
      BY <1>3, <2>1
    <3> QED
      BY <1>1, <1>2, <1>3, <2>1, <3>1 DEF PlaceInv, OwnInv, Pushed, InJob, PastJob
  <2>2. \A u, v \in Poppers : held'[u] = held'[v] /\ held'[v] # NoTask => u = v
    BY <1>3 DEF PlaceInv, OwnInv
  <2> QED  BY <2>1, <2>2 DEF OwnInv
<1>6. SettledInv'
  BY <1>1, <1>2 DEF PlaceInv, SettledInv, Pushed
<1> QED  BY <1>4, <1>5, <1>6 DEF PlaceInv

(* The steps that move no task, by who takes them.                           *)
LEMMA PcsAside ==
  ASSUME TypeOK, UNCHANGED <<tasks, held, ran, done>>,
         \A t \in Tasks : Pushed(t) <=> Pushed(t)',
         pc' = pc \/ WakeAll
  PROVE  Aside
<1>1. \A p \in Poppers : pc'[p] = pc[p] \/ (pc[p] = "asleep" /\ pc'[p] = "idle")
  BY DEF WakeAll
<1>2. \A p \in Poppers : (InJob(p)' <=> InJob(p)) /\ (PastJob(p)' <=> PastJob(p))
  BY <1>1 DEF InJob, PastJob
<1> QED  BY <1>2, NotDismisser DEF Aside

LEMMA PushAside ==
  ASSUME TypeOK, NEW t \in Tasks,
         \/ PushRefused(t) \/ PushAdmitted(t) \/ Reserve(t) \/ ReserveFull(t)
         \/ PushBroadcast(t)
  PROVE  Aside /\ UNCHANGED <<phase, timedOut>>
<1>1. UNCHANGED <<tasks, held, ran, done, phase, timedOut>>
  BY DEF PushRefused, PushAdmitted, Reserve, ReserveFull, PushBroadcast, pool,
         results, nestVars
<1>2. (Pushed(t) <=> Pushed(t)') /\ \A u \in Tasks : u # t => push'[u] = push[u]
  BY DEF PushRefused, PushAdmitted, Reserve, ReserveFull, PushBroadcast, Goes,
         Pushed, TypeOK
<1>3. pc' = pc \/ WakeAll
  BY DEF PushRefused, PushAdmitted, Reserve, ReserveFull, PushBroadcast, pool
<1>4. \A u \in Tasks : Pushed(u) <=> Pushed(u)'
  BY <1>2 DEF Pushed
<1> QED  BY <1>1, <1>3, <1>4, PcsAside

LEMMA WorkerAside ==
  ASSUME TypeOK, NEW w \in Workers,
         \/ WorkerLocked(w) \/ WorkerWait(w) \/ WorkerPopNone(w) \/ JobStart(w)
         \/ FinishSelect(w)
  PROVE  Aside /\ UNCHANGED <<phase, timedOut>>
<1>1. UNCHANGED <<tasks, push, held, ran, done, phase, timedOut>>
  BY DEF WorkerLocked, WorkerExit, WorkerTest, WorkerWait, WorkerPopNone, JobStart,
         CountDown, FinishSelect, queue, results, nestVars, nest!Return
<1>2. \E at \in PopperPcs :
        /\ At(w, at)
        /\ at \in {"popped", "running"} <=> pc[w] \in {"popped", "running"}
        /\ at \in {"finish", "store"} <=> pc[w] \in {"finish", "store"}
  BY DEF WorkerLocked, WorkerExit, WorkerTest, WorkerWait, WorkerPopNone, JobStart,
         CountDown, FinishSelect, PopperPcs, LockPcs
<1>3. \A v \in Workers : (InJob(v)' <=> InJob(v)) /\ (PastJob(v)' <=> PastJob(v))
  BY <1>2, NotDismisser DEF At, InJob, PastJob, TypeOK
<1>4. pc'[Dismisser] = pc[Dismisser]
  BY <1>2, NotDismisser DEF At, TypeOK
<1> QED  BY <1>1, <1>3, <1>4 DEF Aside, Pushed, InJob, PastJob

LEMMA DismissAside ==
  ASSUME TypeOK, DismissStart \/ DismissCountDown \/ DismissEnd
  PROVE  Aside
<1>1. UNCHANGED <<tasks, push, held, ran, done>>
  BY DEF DismissStart, DismissCountDown, CountDown, DismissEnd, queue, results
<1>2. \/ pc[Dismisser] \in {"none", "idle"} /\ \E at \in PopperPcs : At(Dismisser, at)
      \/ At(Dismisser, "finish")
  BY DEF DismissStart, DismissCountDown, CountDown, DismissEnd, PopperPcs
<1>3. \A v \in Workers : pc'[v] = pc[v]
  BY <1>2, NotDismisser DEF At, TypeOK
<1>4. InJob(Dismisser) \/ PastJob(Dismisser) => (InJob(Dismisser) \/ PastJob(Dismisser))'
  BY <1>2, NotDismisser DEF At, InJob, PastJob, TypeOK
<1> QED  BY <1>1, <1>3, <1>4 DEF Aside, Pushed, InJob, PastJob

LEMMA CallAside ==
  ASSUME TypeOK,
         \/ \E x \in Waiters : AnswerStep(x) \/ AnswerCtx(x) \/ \E t \in Tasks : Ask(x, t)
         \/ \E r \in Runners : RunEnter(r) \/ RunStep(r)
         \/ \E c \in Closers : CloseEnter(c) \/ CloseReturn(c)
         \/ ParentCancel \/ HookBroadcast \/ HookTimeout
  PROVE  Aside /\ UNCHANGED <<phase, timedOut>>
<1>1. ASSUME NEW x \in Waiters,
             AnswerStep(x) \/ AnswerCtx(x) \/ \E t \in Tasks : Ask(x, t)
      PROVE  Aside /\ UNCHANGED <<phase, timedOut>>
  <2>1. UNCHANGED <<tasks, push, pc, held, ran, done, phase, timedOut>>
    BY <1>1 DEF AnswerStep, AnswerDone, AnswerClosed, AnswerCtx, Ask, queue, pool,
                nestVars
  <2> QED  BY <2>1, PcsAside DEF Pushed
<1>2. ASSUME NEW r \in Runners, RunEnter(r) \/ RunCreate(r) \/ RunReturn(r)
      PROVE  Aside /\ UNCHANGED <<phase, timedOut>>
  <2>1. UNCHANGED <<tasks, push, pc, held, ran, done, phase, timedOut>>
    BY <1>2 DEF RunEnter, RunCreate, RunReturn, queue, pool, results, nestVars,
                nest!SpawnRefused, nest!nestVars
  <2> QED  BY <2>1, PcsAside DEF Pushed
<1>3. ASSUME NEW r \in Runners, RunSpawn(r)
      PROVE  Aside /\ UNCHANGED <<phase, timedOut>>
  <2>1. PICK w \in Workers : pc[w] = "none" /\ nest!Spawn(w) /\ At(w, "idle")
    BY <1>3 DEF RunSpawn
  <2>2. UNCHANGED <<tasks, push, held, ran, done, phase, timedOut>>
    BY <1>3, <2>1 DEF RunSpawn, queue, results, nest!Spawn
  <2>3. \A p \in Poppers : \/ pc'[p] = pc[p]
                           \/ pc[p] = "none" /\ pc'[p] = "idle"
    BY <2>1 DEF At, TypeOK
  <2>4. \A p \in Poppers : (InJob(p)' <=> InJob(p)) /\ (PastJob(p)' <=> PastJob(p))
    BY <2>3 DEF InJob, PastJob
  <2> QED  BY <2>2, <2>4, NotDismisser DEF Aside, Pushed
<1>4. ASSUME \/ \E c \in Closers : CloseEnter(c) \/ CloseReturn(c)
             \/ ParentCancel \/ HookBroadcast \/ HookTimeout
      PROVE  Aside /\ UNCHANGED <<phase, timedOut>>
  <2>1. /\ UNCHANGED <<tasks, push, held, ran, done, phase, timedOut>>
        /\ pc' = pc \/ WakeAll
    BY <1>4 DEF CloseEnter, CloseReturn, ParentCancel, HookBroadcast, HookTimeout,
                nest!InheritedDone, queue, pool, results, nestVars
  <2> QED  BY <2>1, PcsAside DEF Pushed
<1> QED  BY <1>1, <1>2, <1>3, <1>4 DEF RunStep

LEMMA NestAside ==
  ASSUME TypeOK,
         \/ \E c \in Closers : CloseCancel(c)
         \/ WatcherCancel \/ WaitWorkers \/ WaitExpires \/ NestDone
  PROVE  Aside
<1>1. UNCHANGED <<tasks, push, pc, held, ran, done>>
  BY DEF CloseCancel, WatcherCancel, WaitWorkers, WaitExpires, NestDone, queue,
         pool, results
<1> QED  BY <1>1, PcsAside DEF Pushed

LEMMA WorkerPopIs ==
  ASSUME TypeOK, PlaceInv, NEW w \in Workers, WorkerPop(w)
  PROVE  \E t \in Tasks : PopsTask(w, t)
<1>1. w \in Poppers /\ Pop(w) /\ ~InJob(w) /\ ~PastJob(w)
  BY NotDismisser DEF WorkerPop, InJob, PastJob
<1> QED  BY <1>1, PopIs

LEMMA DismissPopIs ==
  ASSUME TypeOK, PlaceInv, DismissPop
  PROVE  \E t \in Tasks : PopsTask(Dismisser, t)
<1>1. /\ Dismisser \in Poppers /\ Pop(Dismisser)
      /\ ~InJob(Dismisser) /\ ~PastJob(Dismisser)
  BY NotDismisser DEF DismissPop, InJob, PastJob
<1> QED  BY <1>1, PopIs

LEMMA PlaceStep == StateInv /\ PlaceInv /\ [Next]_vars => PlaceInv'
<1> SUFFICES ASSUME StateInv, PlaceInv, [Next]_vars PROVE PlaceInv'
  OBVIOUS
<1>0. TypeOK
  BY DEF StateInv
<1>1. Aside => PlaceInv'
  BY <1>0, AsidePlace
<1>2. UNCHANGED vars => Aside
  <2> SUFFICES ASSUME UNCHANGED vars PROVE Aside
    OBVIOUS
  <2>1. UNCHANGED <<tasks, push, pc, held, ran, done>>
    BY DEF vars, queue, pool, results
  <2> QED  BY <1>0, <2>1, PcsAside DEF Pushed
<1>3. ASSUME NEW t \in Tasks, PushRefused(t) \/ PushAdmitted(t) \/ PushStep(t)
      PROVE  PlaceInv'
  BY <1>0, <1>1, <1>3, PushAside, EnqueuePlace DEF PushStep
<1>4. ASSUME NEW w \in Workers, WorkerLocked(w) \/ WorkerStep(w) \/ JobEnd(w)
      PROVE  PlaceInv'
  <2>0. w \in Poppers
    BY NotDismisser
  <2>1. WorkerPop(w) => PlaceInv'
    BY <1>0, <2>0, WorkerPopIs, PopPlace
  <2>2. JobEnd(w) => PlaceInv'
    BY <1>0, EndIs, EndPlace
  <2>3. FinishClose(w) => PlaceInv'
    BY <1>0, <2>0, CompleteIs, CompletePlace
  <2> QED  BY <1>0, <1>1, <1>4, <2>1, <2>2, <2>3, WorkerAside DEF WorkerStep
<1>5. ASSUME DismissStep PROVE PlaceInv'
  <2>0. Dismisser \in Poppers
    BY NotDismisser
  <2>1. DismissPop => PlaceInv'
    BY <1>0, <2>0, DismissPopIs, PopPlace
  <2>2. DismissFail => PlaceInv'
    BY <1>0, <2>0, CompleteIs, CompletePlace
  <2> QED  BY <1>0, <1>1, <1>5, <2>1, <2>2, DismissAside DEF DismissStep
<1> QED  BY <1>0, <1>1, <1>2, <1>3, <1>4, <1>5, CallAside, NestAside
         DEF Next, CloseStep, NestStep

SafeInv == StateInv /\ PendingExact /\ PendingBound /\ ShutInv /\ PlaceInv

LEMMA SafeInductive == Spec => []SafeInv
<1>1. Init => PendingBound /\ ShutInv /\ PlaceInv
  <2> SUFFICES ASSUME Init PROVE PendingBound /\ ShutInv /\ PlaceInv
    OBVIOUS
  <2>1. Range(tasks) = {} /\ Distinct(tasks)
    BY DEF Init, Range, Distinct
  <2>2. PlaceInv
    BY <2>1 DEF Init, PlaceInv, QueueInv, OwnInv, SettledInv
  <2>3. ShutInv
    BY NotDismisser
    DEF Init, nest!NestInit, ShutInv, GroupInv, DrainInv, DismisserInv
  <2>4. PendingBound
    BY DEF Init, PendingBound
  <2> QED  BY <2>2, <2>3, <2>4
<1>2. StateInv => TypeOK
  BY DEF StateInv
<1>3. Spec => [](PendingBound /\ ShutInv /\ PlaceInv)
  BY <1>1, <1>2, BoundStep, ShutStep, PlaceStep, StateInductive, PTL DEF Spec
<1> QED  BY <1>3, StateInductive, CountInductive, PTL DEF SafeInv

-----------------------------------------------------------------------------
(* The abstract pool.  Where it sees a task, in terms of the invariant.      *)
LEMMA SameCardinality == \A S : jobPool!Cardinality(S) = Cardinality(S)
BY DEF jobPool!Cardinality, Cardinality

LEMMA PlaceType == /\ place \in [Tasks -> jobPool!Places]
                   /\ place' \in [Tasks -> jobPool!Places]
BY DEF place, jobPool!Places

Handed(t) == \E w \in Workers : InJob(w) /\ held[w] = t

LEMMA PlaceIs ==
  /\ \A t \in Tasks : place[t] = IF Handed(t) THEN "run"
                                 ELSE IF t \in ran THEN "done"
                                 ELSE IF t \in done \/ held[Dismisser] = t THEN "left"
                                 ELSE IF t \in Range(tasks) THEN "in" ELSE "out"
  /\ \A t \in Tasks : place'[t] = IF Handed(t)' THEN "run"
                                  ELSE IF t \in ran' THEN "done"
                                  ELSE IF t \in done' \/ held'[Dismisser] = t THEN "left"
                                  ELSE IF t \in Range(tasks') THEN "in" ELSE "out"
<1>1. \A t : (t \in InHand <=> Handed(t)) /\ (t \in InHand' <=> Handed(t)')
  BY DEF InHand, Handed, InJob
<1>2. \A t : /\ (\E i \in DOMAIN tasks : tasks[i] = t) <=> t \in Range(tasks)
             /\ (\E i \in DOMAIN tasks' : tasks'[i] = t) <=> t \in Range(tasks')
  BY DEF Range
<1> QED  BY <1>1, <1>2 DEF place

(* One task goes to a place, the others stay.                                *)
LEMMA PlaceMoves ==
  ASSUME NEW t \in Tasks, NEW to, place'[t] = to,
         \A u \in Tasks : u # t => place'[u] = place[u]
  PROVE  place' = [place EXCEPT ![t] = to]
BY PlaceType

LEMMA PlaceStays ==
  ASSUME \A u \in Tasks : place'[u] = place[u]
  PROVE  place' = place
BY PlaceType

LEMMA AsideSame ==
  ASSUME TypeOK, Aside
  PROVE  place' = place
<1>1. \A t : Handed(t)' <=> Handed(t)
  BY DEF Aside, Handed
<1>2. UNCHANGED <<tasks, held, ran, done>>
  BY DEF Aside
<1>3. \A u \in Tasks : place'[u] = place[u]
  BY <1>1, <1>2, PlaceIs
<1> QED  BY <1>3, PlaceStays

(* A worker in a job holds one task, and one of the workers is not.          *)
LEMMA FreeWorker ==
  ASSUME StateInv, NEW w \in Workers, ~InJob(w)
  PROVE  Cardinality(jobPool!In("run")) < Cardinality(Workers)
<1> DEFINE R == jobPool!In("run")
           B == {v \in Workers : InJob(v)}
           f == [v \in B |-> held[v]]
<1>1. B \in SUBSET (Workers \ {w})
  OBVIOUS
<1>2. /\ IsFiniteSet(Workers \ {w})
      /\ Cardinality(Workers \ {w}) = Cardinality(Workers) - 1
  BY SetsAssumption, FS_RemoveElement
<1>3. IsFiniteSet(B) /\ Cardinality(B) <= Cardinality(Workers \ {w})
  BY <1>1, <1>2, FS_Subset
<1>4. \A t \in R : \E v \in B : held[v] = t
  BY PlaceIs DEF jobPool!In, Handed
<1>5. \A v \in B : held[v] \in R
  <2> SUFFICES ASSUME NEW v \in Workers, InJob(v) PROVE held[v] \in R
    OBVIOUS
  <2>1. held[v] \in Tasks /\ Handed(held[v])
    BY NotDismisser DEF StateInv, HandInv, InJob, Handed
  <2> QED  BY <2>1, PlaceIs DEF jobPool!In
<1>6. f \in Surjection(B, R)
  BY <1>4, <1>5 DEF Surjection
<1>7. IsFiniteSet(R) /\ Cardinality(R) <= Cardinality(B)
  <2> HIDE DEF R, B, f
  <2> QED  BY <1>3, <1>6, FS_Surjection
<1>8. /\ Cardinality(R) \in Nat /\ Cardinality(B) \in Nat
      /\ Cardinality(Workers) \in Nat
  <2> HIDE DEF R, B
  <2> QED  BY <1>3, <1>7, SetsAssumption, FS_CardinalityType
<1> HIDE DEF R, B
<1>9. Cardinality(R) < Cardinality(Workers)
  BY <1>2, <1>3, <1>7, <1>8
<1> QED  BY <1>9 DEF R

(* The tasks in the queue are no more than it is long.                       *)
LEMMA WaitingBound ==
  ASSUME TypeOK
  PROVE  Cardinality(jobPool!In("in")) <= Len(tasks)
<1> DEFINE n == Len(tasks)
           R == Range(tasks)
           I == jobPool!In("in")
<1>1. n \in Nat /\ DOMAIN tasks = 1..n
  BY DEF TypeOK
<1>2. tasks \in Surjection(1..n, R)
  BY <1>1 DEF TypeOK, Surjection, Range
<1>3. IsFiniteSet(1..n) /\ Cardinality(1..n) = n
  <2> HIDE DEF n
  <2> QED  BY <1>1, FS_Interval
<1>4. IsFiniteSet(R) /\ Cardinality(R) <= n
  <2> HIDE DEF n, R
  <2> QED  BY <1>2, <1>3, FS_Surjection
<1>5. I \in SUBSET R
  BY PlaceIs DEF jobPool!In
<1>6. IsFiniteSet(I) /\ Cardinality(I) <= Cardinality(R)
  <2> HIDE DEF n, R, I
  <2> QED  BY <1>4, <1>5, FS_Subset
<1>7. Cardinality(I) \in Nat /\ Cardinality(R) \in Nat
  <2> HIDE DEF n, R, I
  <2> QED  BY <1>4, <1>6, FS_CardinalityType
<1> HIDE DEF n, R, I
<1>8. Cardinality(I) <= n
  BY <1>1, <1>4, <1>6, <1>7
<1> QED  BY <1>8 DEF I, n

LEMMA EnqueueEnters ==
  ASSUME SafeInv, NEW t \in Tasks, Enqueue(t)
  PROVE  jobPool!Enter(t)
<1>0. TypeOK /\ PlaceInv /\ PendingExact /\ PendingBound
  BY DEF SafeInv, StateInv
<1>1. /\ push[t] = "reserved" /\ ~Pushed(t) /\ t \in Reserved
      /\ tasks' = Append(tasks, t)
      /\ UNCHANGED <<pc, held, ran, done, phase, timedOut>>
  BY DEF Enqueue, Pushed, Reserved, pool, results, nestVars
<1>2. Range(tasks') = Range(tasks) \cup {t}
  BY <1>0, <1>1, AppendAddsOne DEF TypeOK
<1>3. t \notin ran /\ t \notin done /\ \A p \in Poppers : held[p] # t
  BY <1>0, <1>1, SetsAssumption DEF PlaceInv, OwnInv, SettledInv
<1>4. t \notin Range(tasks) /\ ~Handed(t) /\ held[Dismisser] # t
  BY <1>0, <1>1, <1>3, NotDismisser DEF PlaceInv, QueueInv, Handed
<1>5. \A u \in Tasks : Handed(u)' <=> Handed(u)
  BY <1>1 DEF Handed, InJob
<1>6. place[t] = "out"
  BY <1>3, <1>4, PlaceIs
<1>7. place' = [place EXCEPT ![t] = "in"]
  <2>1. place'[t] = "in"
    BY <1>1, <1>2, <1>3, <1>4, <1>5, PlaceIs
  <2>2. \A u \in Tasks : u # t => place'[u] = place[u]
    BY <1>1, <1>2, <1>5, PlaceIs
  <2> QED  BY <2>1, <2>2, PlaceMoves
<1>8. MaxPending < 0 \/ Cardinality(jobPool!In("in")) < MaxPending
  <2> SUFFICES ASSUME MaxPending >= 0
               PROVE  Cardinality(jobPool!In("in")) < MaxPending
    BY OptionsAssumption
  <2>1. Cardinality(Reserved) >= 1
    <3>1. Cardinality(Reserved \ {t}) = Cardinality(Reserved) - 1
      BY <1>1, Finite, FS_RemoveElement
    <3>2. Cardinality(Reserved \ {t}) \in Nat
      BY Finite, FS_RemoveElement, FS_CardinalityType
    <3> QED  BY <3>1, <3>2, Finite
  <2>2. pending <= MaxPending
           /\ pending = Len(tasks) + Cardinality(Reserved) + Cardinality(Popped)
    BY <1>0 DEF PendingExact, PendingBound
  <2>3. Len(tasks) \in Nat /\ pending \in Int
    BY <1>0 DEF TypeOK
  <2>4. Len(tasks) < MaxPending
    BY <2>1, <2>2, <2>3, Finite, OptionsAssumption
  <2>5. Cardinality(jobPool!In("in")) \in Nat
    <3>1. jobPool!In("in") \in SUBSET Tasks
      BY DEF jobPool!In
    <3> QED  BY <3>1, SetsAssumption, FS_Subset, FS_CardinalityType
  <2> QED  BY <1>0, <2>3, <2>4, <2>5, WaitingBound, OptionsAssumption
<1>9. UNCHANGED <<life, timedOut>>
  BY <1>1 DEF life
<1> QED  BY <1>6, <1>7, <1>8, <1>9, SameCardinality DEF jobPool!Enter, jobPool!Moves

(* Where a popped task comes from, and what its pop leaves alone.            *)
LEMMA PopMoves ==
  ASSUME TypeOK, PlaceInv, NEW p \in Poppers, NEW t \in Tasks, PopsTask(p, t)
  PROVE  /\ place[t] = "in"
         /\ place' = [place EXCEPT ![t] = IF p = Dismisser THEN "left" ELSE "run"]
<1>1. /\ t \in Range(tasks) /\ held[p] = NoTask /\ t # NoTask
      /\ Range(tasks') = Range(tasks) \ {t} /\ UNCHANGED <<ran, done>>
  BY SetsAssumption DEF PopsTask
<1>2. t \notin ran /\ t \notin done /\ \A q \in Poppers : held[q] # t
  BY <1>1 DEF PlaceInv, QueueInv
<1>3. /\ \A q \in Poppers : held'[q] = IF q = p THEN t ELSE held[q]
      /\ \A q \in Poppers : pc'[q] = IF q = p THEN "popped" ELSE pc[q]
  BY DEF PopsTask, TypeOK
<1>4. place[t] = "in"
  <2>1. ~Handed(t) /\ held[Dismisser] # t
    BY <1>2, NotDismisser DEF Handed
  <2> QED  BY <1>1, <1>2, <2>1, PlaceIs
<1>5. ASSUME NEW u \in Tasks, u # t PROVE place'[u] = place[u]
  <2>1. u # NoTask
    BY SetsAssumption
  <2>2. \A w \in Workers : (InJob(w)' /\ held'[w] = u) <=> (InJob(w) /\ held[w] = u)
    BY <1>1, <1>3, <1>5, <2>1, NotDismisser DEF InJob
  <2>3. Handed(u)' <=> Handed(u)
    BY <2>2 DEF Handed
  <2>4. held'[Dismisser] = u <=> held[Dismisser] = u
    BY <1>1, <1>3, <1>5, <2>1, NotDismisser
  <2>5. u \in Range(tasks') <=> u \in Range(tasks)
    BY <1>1, <1>5
  <2> QED  BY <1>1, <2>3, <2>4, <2>5, PlaceIs
<1>6. place'[t] = IF p = Dismisser THEN "left" ELSE "run"
  <2>1. CASE p = Dismisser
    <3>1. ~Handed(t)' /\ held'[Dismisser] = t
      BY <1>2, <1>3, <2>1, NotDismisser DEF Handed
    <3> QED  BY <1>1, <1>2, <2>1, <3>1, PlaceIs
  <2>2. CASE p # Dismisser
    <3>1. Handed(t)'
      BY <1>3, <2>2, NotDismisser DEF Handed, InJob
    <3> QED  BY <2>2, <3>1, PlaceIs
  <2> QED  BY <2>1, <2>2
<1> QED  BY <1>4, <1>5, <1>6, PlaceMoves

LEMMA PopBegins ==
  ASSUME SafeInv, NEW w \in Workers, WorkerPop(w)
  PROVE  \E t \in Tasks : jobPool!Begin(t)
<1>0. StateInv /\ TypeOK /\ PlaceInv /\ ShutInv /\ w \in Poppers /\ w # Dismisser
  BY NotDismisser DEF SafeInv, StateInv
<1>1. PICK t \in Tasks : PopsTask(w, t)
  BY <1>0, WorkerPopIs
<1>2. place[t] = "in" /\ place' = [place EXCEPT ![t] = "run"]
  BY <1>0, <1>1, PopMoves
<1>3. UNCHANGED <<life, timedOut>>
  BY <1>1 DEF PopsTask, life
<1>4. timedOut \/ life # "closed"
  <2>1. pc[w] = "popping"
    BY DEF WorkerPop
  <2>2. w \in wg
    BY <1>0, <2>1 DEF ShutInv, GroupInv
  <2> QED  BY <1>0, <2>2 DEF ShutInv, DrainInv, life, TypeOK
<1>5. Cardinality(jobPool!In("run")) < Cardinality(Workers)
  <2>1. ~InJob(w)
    BY DEF WorkerPop, InJob
  <2> QED  BY <1>0, <2>1, FreeWorker
<1> QED  BY <1>2, <1>3, <1>4, <1>5, SameCardinality DEF jobPool!Begin, jobPool!Moves

LEMMA PopDismisses ==
  ASSUME SafeInv, DismissPop
  PROVE  \E t \in Tasks : jobPool!Dismiss(t)
<1>0. TypeOK /\ PlaceInv /\ ShutInv /\ Dismisser \in Poppers
  BY NotDismisser DEF SafeInv, StateInv
<1>1. PICK t \in Tasks : PopsTask(Dismisser, t)
  BY <1>0, DismissPopIs
<1>2. place[t] = "in" /\ place' = [place EXCEPT ![t] = "left"]
  BY <1>0, <1>1, PopMoves
<1>3. UNCHANGED <<life, timedOut>> /\ life = "closing"
  BY <1>0, <1>1 DEF PopsTask, life, ShutInv, DismisserInv, DismissPop
<1>4. place' = [u \in Tasks |-> IF u \in {t} THEN "left" ELSE place[u]]
  BY <1>2, PlaceType
<1>5. {t} \subseteq jobPool!In("in")
  BY <1>2 DEF jobPool!In
<1>6. jobPool!Leaves({t})
  BY <1>4, <1>5 DEF jobPool!Leaves
<1> QED  BY <1>3, <1>6 DEF jobPool!Dismiss

LEMMA JobEnds ==
  ASSUME SafeInv, NEW w \in Workers, JobEnd(w)
  PROVE  \E t \in Tasks : jobPool!End(t)
<1>0. StateInv /\ TypeOK /\ PlaceInv /\ w \in Poppers /\ w # Dismisser
  BY NotDismisser DEF SafeInv, StateInv
<1>1. PICK t \in Tasks : EndsJob(w, t)
  BY <1>0, EndIs
<1>2. /\ t = held[w] /\ InJob(w) /\ t # NoTask /\ ran' = ran \cup {t}
      /\ UNCHANGED <<tasks, held, done, phase, timedOut>>
  BY <1>1, SetsAssumption DEF EndsJob
<1>3. \A q \in Poppers : pc'[q] = IF q = w THEN "finish" ELSE pc[q]
  BY <1>0, <1>1 DEF EndsJob, TypeOK
<1>4. \A q \in Poppers : q # w => held[q] # t
  BY <1>0, <1>2 DEF PlaceInv, OwnInv
<1>5. place[t] = "run"
  <2>1. Handed(t)
    BY <1>2 DEF Handed
  <2> QED  BY <2>1, PlaceIs
<1>6. place'[t] = "done"
  <2>1. ~Handed(t)'
    BY <1>2, <1>3, <1>4, NotDismisser DEF Handed, InJob
  <2> QED  BY <1>2, <2>1, PlaceIs
<1>7. ASSUME NEW u \in Tasks, u # t PROVE place'[u] = place[u]
  <2>1. Handed(u)' <=> Handed(u)
    BY <1>2, <1>3, <1>7, NotDismisser DEF Handed, InJob
  <2> QED  BY <1>2, <1>7, <2>1, PlaceIs
<1>8. place' = [place EXCEPT ![t] = "done"]
  BY <1>6, <1>7, PlaceMoves
<1>9. UNCHANGED <<life, timedOut>>
  BY <1>2 DEF life
<1> QED  BY <1>5, <1>8, <1>9 DEF jobPool!End, jobPool!Moves

(* The completion of a Result moves nothing: the job of a worker's is done,  *)
(* and the dismisser's is left over, from the pop on.                        *)
LEMMA CompleteSame ==
  ASSUME SafeInv, NEW p \in Poppers, NEW t \in Tasks, Completes(p, t)
  PROVE  UNCHANGED <<life, timedOut, place>>
<1>0. TypeOK /\ PlaceInv
  BY DEF SafeInv, StateInv
<1>1. /\ t = held[p] /\ PastJob(p) /\ t # NoTask /\ done' = done \cup {t}
      /\ UNCHANGED <<tasks, ran, phase, timedOut>>
  BY SetsAssumption DEF Completes
<1>2. /\ \A q \in Poppers : held'[q] = IF q = p THEN NoTask ELSE held[q]
      /\ \A q \in Poppers : pc'[q] = IF q = p THEN "idle" ELSE pc[q]
  BY <1>0 DEF Completes, TypeOK
<1>3. t \in ran \/ p = Dismisser
  BY <1>0, <1>1 DEF PlaceInv, OwnInv
<1>4. ASSUME NEW u \in Tasks PROVE place'[u] = place[u]
  <2>0. u # NoTask
    BY SetsAssumption
  <2>1. Handed(u)' <=> Handed(u)
    BY <1>1, <1>2, NotDismisser DEF Handed, InJob, PastJob
  <2>2. u \in ran \/ ((u \in done' \/ held'[Dismisser] = u)
                        <=> (u \in done \/ held[Dismisser] = u))
    <3>1. CASE p = Dismisser
      BY <1>1, <1>2, <2>0, <3>1
    <3>2. CASE p # Dismisser
      BY <1>1, <1>2, <1>3, <3>2, NotDismisser
    <3> QED  BY <3>1, <3>2
  <2> QED  BY <1>1, <2>1, <2>2, PlaceIs
<1>5. place' = place
  BY <1>4, PlaceStays
<1> QED  BY <1>1, <1>5 DEF life

(* The steps of the nest stop the pool, give the wait up and close it.       *)
LEMMA NestCloses ==
  ASSUME SafeInv,
         \/ \E c \in Closers : CloseCancel(c)
         \/ WatcherCancel \/ WaitWorkers \/ WaitExpires
  PROVE  jobPool!Stop \/ jobPool!GiveUp \/ UNCHANGED <<life, timedOut, place>>
<1>1. place' = place
  BY NestAside, AsideSame DEF SafeInv, StateInv
<1>2. CASE WatcherCancel \/ \E c \in Closers : CloseCancel(c)
  <2>1. phase = "open" /\ phase' = "before" /\ timedOut' = timedOut
    BY <1>2 DEF CloseCancel, WatcherCancel, nest!BeginCancel
  <2> QED  BY <1>1, <2>1 DEF life, jobPool!Stop
<1>3. CASE WaitWorkers
  <2>1. phase = "draining" /\ phase' = "after" /\ timedOut' = timedOut
    BY <1>3 DEF WaitWorkers, nest!Drained
  <2> QED  BY <1>1, <2>1 DEF life
<1>4. CASE WaitExpires
  <2>1. phase = "draining" /\ phase' = "after" /\ timedOut' = TRUE
    BY <1>4 DEF WaitExpires, nest!Expire
  <2> QED  BY <1>1, <2>1 DEF life, jobPool!GiveUp
<1> QED  BY <1>2, <1>3, <1>4

LEMMA DismissSame ==
  ASSUME SafeInv, DismissStart \/ DismissCountDown \/ DismissEnd
  PROVE  UNCHANGED <<life, timedOut, place>>
<1>1. place' = place
  BY DismissAside, AsideSame DEF SafeInv, StateInv
<1>2. /\ timedOut' = timedOut
      /\ phase' = phase \/ (phase = "before" /\ phase' = "draining")
  BY DEF DismissStart, DismissCountDown, CountDown, DismissEnd, nestVars,
         nest!CancelDispatched
<1> QED  BY <1>1, <1>2 DEF life

LEMMA DoneCloses ==
  ASSUME SafeInv, NestDone
  PROVE  jobPool!Closed
<1>0. TypeOK /\ ShutInv
  BY DEF SafeInv, StateInv
<1>1. phase = "after" /\ phase' = "done" /\ timedOut' = timedOut
  BY DEF NestDone, nest!CloseDone
<1>2. life = "closing" /\ life' = "closed"
  BY <1>1 DEF life
<1>3. jobPool!In("run") = {} \/ timedOut
  <2> SUFFICES ASSUME ~timedOut, NEW t \in Tasks, place[t] = "run"
               PROVE  FALSE
    BY <1>0 DEF jobPool!In, TypeOK
  <2>1. PICK w \in Workers : InJob(w)
    BY PlaceIs DEF Handed
  <2>2. w \in wg
    BY <1>0, <2>1 DEF ShutInv, GroupInv, InJob
  <2> QED  BY <1>0, <1>1, <2>2 DEF ShutInv, DrainInv
<1>4. jobPool!Leaves({})
  <2>1. place' = place
    BY <1>0, NestAside, AsideSame
  <2>2. place' = [t \in Tasks |-> IF t \in {} THEN "left" ELSE place[t]]
    BY <2>1, PlaceType
  <2> QED  BY <2>2 DEF jobPool!Leaves
<1>5. \E S \in SUBSET jobPool!In("in") : jobPool!Leaves(S)
  BY <1>4
<1> QED  BY <1>1, <1>2, <1>3, <1>5 DEF jobPool!Closed

(* The retrievable scheduler implements the same abstract job pool: though   *)
(* the dismisser pops the queue beside the workers and without cond.L, every *)
(* execution is one of JobPool's.                                            *)
THEOREM Implements == Spec => Contract
<1>1. Init => jobPool!PoolInit
  <2> SUFFICES ASSUME Init PROVE jobPool!PoolInit
    OBVIOUS
  <2>1. life = "open" /\ timedOut = FALSE
    BY DEF Init, nest!NestInit, life
  <2>2. place = [t \in Tasks |-> "out"]
    <3>1. Range(tasks) = {} /\ ran = {} /\ done = {}
      BY DEF Init, Range
    <3>2. \A t \in Tasks : ~Handed(t) /\ held[Dismisser] # t
      BY SetsAssumption, NotDismisser DEF Init, Handed
    <3>3. \A t \in Tasks : place[t] = "out"
      BY <3>1, <3>2, PlaceIs
    <3> QED  BY <3>3, PlaceType
  <2> QED  BY <2>1, <2>2 DEF jobPool!PoolInit
<1>2. SafeInv /\ [Next]_vars => [jobPool!PoolNext]_(jobPool!poolVars)
  <2> SUFFICES ASSUME SafeInv, [Next]_vars
               PROVE  jobPool!PoolNext \/ UNCHANGED <<life, timedOut, place>>
    BY DEF jobPool!poolVars
  <2>0. TypeOK
    BY DEF SafeInv, StateInv
  <2>1. Aside /\ UNCHANGED <<phase, timedOut>> => UNCHANGED <<life, timedOut, place>>
    BY <2>0, AsideSame DEF life
  <2>2. UNCHANGED vars => UNCHANGED <<life, timedOut, place>>
    BY DEF vars, queue, pool, results, nestVars, life, place, InHand
  <2>3. ASSUME NEW t \in Tasks, PushRefused(t) \/ PushAdmitted(t) \/ PushStep(t)
        PROVE  jobPool!PoolNext \/ UNCHANGED <<life, timedOut, place>>
    BY <2>0, <2>1, <2>3, PushAside, EnqueueEnters DEF PushStep, jobPool!PoolNext
  <2>4. ASSUME NEW w \in Workers, WorkerLocked(w) \/ WorkerStep(w) \/ JobEnd(w)
        PROVE  jobPool!PoolNext \/ UNCHANGED <<life, timedOut, place>>
    <3>1. FinishClose(w) => UNCHANGED <<life, timedOut, place>>
      BY CompleteIs, CompleteSame, NotDismisser DEF SafeInv
    <3> QED
      BY <2>0, <2>1, <2>4, <3>1, WorkerAside, PopBegins, JobEnds
      DEF WorkerStep, jobPool!PoolNext
  <2>5. ASSUME \/ \E x \in Waiters : \/ AnswerStep(x) \/ AnswerCtx(x)
                                     \/ \E t \in Tasks : Ask(x, t)
               \/ \E r \in Runners : RunEnter(r) \/ RunStep(r)
               \/ \E c \in Closers : CloseEnter(c) \/ CloseReturn(c)
               \/ ParentCancel \/ HookBroadcast \/ HookTimeout
        PROVE  UNCHANGED <<life, timedOut, place>>
    BY <2>0, <2>1, <2>5, CallAside
  <2>6. ASSUME \/ \E c \in Closers : CloseCancel(c)
               \/ WatcherCancel \/ WaitWorkers \/ WaitExpires \/ NestDone
        PROVE  jobPool!PoolNext \/ UNCHANGED <<life, timedOut, place>>
    BY <2>6, NestCloses, DoneCloses DEF jobPool!PoolNext
  <2>7. ASSUME DismissStep
        PROVE  jobPool!PoolNext \/ UNCHANGED <<life, timedOut, place>>
    <3>1. DismissFail => UNCHANGED <<life, timedOut, place>>
      BY CompleteIs, CompleteSame, NotDismisser DEF SafeInv
    <3> QED
      BY <2>7, <3>1, DismissSame, PopDismisses DEF DismissStep, jobPool!PoolNext
  <2> QED  BY <2>2, <2>3, <2>4, <2>5, <2>6, <2>7 DEF Next, CloseStep, NestStep
<1> QED  BY <1>1, <1>2, SafeInductive, PTL DEF Spec, Contract, jobPool!PoolSpec

-----------------------------------------------------------------------------
(* What becomes of the Results.  A task that was pushed is queued, in the    *)
(* hands of a popper or completed, and one that was run is not queued; ...   *)
InHands(t) == \E p \in Poppers : held[p] = t
AccountInv ==
  /\ \A t \in Tasks : Pushed(t) => t \in Range(tasks) \/ InHands(t) \/ t \in done
  /\ \A t \in ran : InHands(t) \/ t \in done

(* ... the dismisser closes r.closed first of all, and the nest goes on only *)
(* after it; and Close returns nil only past the nest's wait.                *)
HookInv ==
  /\ pc[Dismisser] # "none" => closed
  /\ phase \notin {"open", "before"} => pc[Dismisser] # "none"

NilInv == \A c \in Closers : closer[c] = "nil" => phase = "done" /\ ~timedOut

LEMMA PopAccount ==
  ASSUME TypeOK, AccountInv, NEW p \in Poppers, NEW t \in Tasks, PopsTask(p, t)
  PROVE  AccountInv'
<1>1. /\ Range(tasks') = Range(tasks) \ {t} /\ held[p] = NoTask
      /\ held' = [held EXCEPT ![p] = t] /\ UNCHANGED <<push, ran, done>>
  BY DEF PopsTask
<1>2. held'[p] = t /\ \A q \in Poppers : q # p => held'[q] = held[q]
  BY <1>1 DEF TypeOK
<1>3. \A u \in Tasks : (InHands(u) => InHands(u)') /\ InHands(t)'
  BY <1>1, <1>2, SetsAssumption DEF InHands
<1> QED  BY <1>1, <1>3 DEF AccountInv, Pushed, TypeOK

LEMMA CompleteAccount ==
  ASSUME TypeOK, AccountInv, NEW p \in Poppers, NEW t \in Tasks, Completes(p, t)
  PROVE  AccountInv'
<1>1. /\ t = held[p] /\ done' = done \cup {t}
      /\ held' = [held EXCEPT ![p] = NoTask] /\ UNCHANGED <<tasks, push, ran>>
  BY DEF Completes
<1>2. \A u \in Tasks : InHands(u) => InHands(u)' \/ u \in done'
  BY <1>1 DEF InHands, TypeOK
<1> QED  BY <1>1, <1>2 DEF AccountInv, Pushed, TypeOK

LEMMA EndAccount ==
  ASSUME TypeOK, AccountInv, NEW w \in Workers, NEW t \in Tasks, EndsJob(w, t)
  PROVE  AccountInv'
<1>1. /\ t = held[w] /\ ran' = ran \cup {t} /\ UNCHANGED <<tasks, push, held, done>>
  BY DEF EndsJob
<1>2. InHands(t)' /\ \A u \in Tasks : InHands(u) => InHands(u)'
  BY <1>1, NotDismisser DEF InHands
<1> QED  BY <1>1, <1>2 DEF AccountInv, Pushed, TypeOK

LEMMA EnqueueAccount ==
  ASSUME TypeOK, AccountInv, NEW t \in Tasks, Enqueue(t)
  PROVE  AccountInv'
<1>1. /\ tasks' = Append(tasks, t) /\ UNCHANGED <<held, ran, done>>
      /\ push' = [push EXCEPT ![t] = "appended"]
  BY DEF Enqueue, Goes, pool, results
<1>2. Range(tasks') = Range(tasks) \cup {t}
  BY <1>1, AppendAddsOne DEF TypeOK
<1>3. \A u \in Tasks : u # t => (Pushed(u)' => Pushed(u))
  BY <1>1 DEF Pushed, TypeOK
<1> QED  BY <1>1, <1>2, <1>3 DEF AccountInv, InHands, TypeOK

LEMMA AsideAccount == AccountInv /\ Aside => AccountInv'
BY DEF AccountInv, Aside, InHands

LEMMA AccountStep == StateInv /\ PlaceInv /\ AccountInv /\ [Next]_vars => AccountInv'
<1> SUFFICES ASSUME StateInv, PlaceInv, AccountInv, [Next]_vars PROVE AccountInv'
  OBVIOUS
<1>0. TypeOK
  BY DEF StateInv
<1>1. Aside => AccountInv'
  BY AsideAccount
<1>2. UNCHANGED vars => AccountInv'
  BY DEF vars, queue, pool, results, AccountInv, Pushed, InHands
<1>3. ASSUME NEW t \in Tasks, PushRefused(t) \/ PushAdmitted(t) \/ PushStep(t)
      PROVE  AccountInv'
  BY <1>0, <1>1, <1>3, PushAside, EnqueueAccount DEF PushStep
<1>4. ASSUME NEW w \in Workers, WorkerLocked(w) \/ WorkerStep(w) \/ JobEnd(w)
      PROVE  AccountInv'
  <2>0. w \in Poppers
    BY NotDismisser
  <2>1. WorkerPop(w) => AccountInv'
    BY <1>0, <2>0, WorkerPopIs, PopAccount
  <2>2. JobEnd(w) => AccountInv'
    BY <1>0, EndIs, EndAccount
  <2>3. FinishClose(w) => AccountInv'
    BY <1>0, <2>0, CompleteIs, CompleteAccount
  <2> QED  BY <1>0, <1>1, <1>4, <2>1, <2>2, <2>3, WorkerAside DEF WorkerStep
<1>5. ASSUME DismissStep PROVE AccountInv'
  <2>0. Dismisser \in Poppers
    BY NotDismisser
  <2>1. DismissPop => AccountInv'
    BY <1>0, <2>0, DismissPopIs, PopAccount
  <2>2. DismissFail => AccountInv'
    BY <1>0, <2>0, CompleteIs, CompleteAccount
  <2> QED  BY <1>0, <1>1, <1>5, <2>1, <2>2, DismissAside DEF DismissStep
<1> QED  BY <1>0, <1>1, <1>2, <1>3, <1>4, <1>5, CallAside, NestAside
         DEF Next, CloseStep, NestStep

LEMMA HookStep == TypeOK /\ ShutInv /\ HookInv /\ NilInv /\ [Next]_vars => HookInv' /\ NilInv'
<1> SUFFICES ASSUME TypeOK, ShutInv, HookInv, NilInv, [Next]_vars PROVE HookInv' /\ NilInv'
  OBVIOUS
<1>1. ASSUME UNCHANGED <<closed, closer, phase, timedOut>>, pc'[Dismisser] = pc[Dismisser]
      PROVE  HookInv' /\ NilInv'
  BY <1>1 DEF HookInv, NilInv
<1>2. ASSUME NEW t \in Tasks, PushRefused(t) \/ PushAdmitted(t) \/ PushStep(t)
      PROVE  HookInv' /\ NilInv'
  <2>1. /\ UNCHANGED <<closed, closer, phase, timedOut>>
        /\ pc' = pc \/ WakeAll
    BY <1>2 DEF PushRefused, PushAdmitted, PushStep, Reserve, ReserveFull, Enqueue,
                PushBroadcast, pool, results, calls, nestVars
  <2> QED  BY <1>1, <2>1, NotDismisser DEF WakeAll, ShutInv, DismisserInv
<1>3. ASSUME NEW w \in Workers, WorkerLocked(w) \/ WorkerStep(w) \/ JobEnd(w)
      PROVE  HookInv' /\ NilInv'
  <2>1. UNCHANGED <<closed, closer, phase, timedOut>> /\ \E at \in PopperPcs : At(w, at)
    BY <1>3 DEF WorkerLocked, WorkerStep, WorkerExit, WorkerTest, WorkerWait, WorkerPop,
         WorkerPopNone, Pop, JobStart, CountDown, JobEnd, FinishSelect, FinishClose,
         PopperPcs, LockPcs, results, calls, nestVars, nest!Return
  <2>2. pc'[Dismisser] = pc[Dismisser]
    BY <2>1, NotDismisser DEF At, TypeOK
  <2> QED  BY <1>1, <2>1, <2>2
<1>4. ASSUME NEW r \in Runners, RunEnter(r) \/ RunStep(r)
      PROVE  HookInv' /\ NilInv'
  <2>1. UNCHANGED <<closed, closer, phase, timedOut>>
    BY <1>4 DEF RunEnter, RunStep, RunCreate, RunSpawn, RunReturn, results, calls, nestVars,
                nest!Spawn, nest!SpawnRefused, nest!nestVars
  <2>2. pc' = pc \/ \E w \in Workers : At(w, "idle")
    BY <1>4 DEF RunEnter, RunStep, RunCreate, RunSpawn, RunReturn, pool
  <2>3. pc'[Dismisser] = pc[Dismisser]
    BY <2>2, NotDismisser DEF At, TypeOK
  <2> QED  BY <1>1, <2>1, <2>3
<1>5. ASSUME \/ \E x \in Waiters : AnswerStep(x) \/ AnswerCtx(x) \/ \E t \in Tasks : Ask(x, t)
             \/ ParentCancel \/ HookBroadcast \/ HookTimeout \/ UNCHANGED vars
      PROVE  HookInv' /\ NilInv'
  <2>1. /\ UNCHANGED <<closed, closer, phase, timedOut>>
        /\ pc' = pc \/ WakeAll
    BY <1>5 DEF AnswerStep, AnswerDone, AnswerClosed, AnswerCtx, Ask, ParentCancel,
                HookBroadcast, HookTimeout, nest!InheritedDone, vars, pool, results,
                calls, nestVars
  <2> QED  BY <1>1, <2>1, NotDismisser DEF WakeAll, ShutInv, DismisserInv
<1>6. ASSUME NEW c \in Closers, CloseEnter(c) \/ CloseReturn(c)
      PROVE  HookInv' /\ NilInv'
  <2>1. UNCHANGED <<pc, closed, phase, timedOut>>
    BY <1>6 DEF CloseEnter, CloseReturn, pool, results, nestVars
  <2>2. \E at \in CloserPcs : /\ closer' = [closer EXCEPT ![c] = at]
                              /\ at = "nil" => phase = "done" /\ ~timedOut
    BY <1>6 DEF CloseEnter, CloseReturn, Closing, CloserPcs
  <2> QED  BY <2>1, <2>2 DEF HookInv, NilInv, TypeOK
<1>7. ASSUME DismissStep PROVE HookInv' /\ NilInv'
  <2>1. /\ phase = "before" /\ closed' /\ UNCHANGED <<closer, timedOut>>
        /\ \E at \in {"idle", "popped", "finish", "exited"} : At(Dismisser, at)
    BY <1>7 DEF HookInv, ShutInv, DismisserInv, DismissStep, DismissStart, DismissPop, Pop,
         DismissCountDown, CountDown, DismissFail, DismissEnd, results, calls, nestVars,
         nest!CancelDispatched
  <2> QED  BY <2>1, NotDismisser DEF HookInv, NilInv, At, TypeOK
<1>8. ASSUME \/ \E c \in Closers : CloseCancel(c)
             \/ WatcherCancel \/ WaitWorkers \/ WaitExpires \/ NestDone
      PROVE  HookInv' /\ NilInv'
  <2>1. /\ UNCHANGED <<pc, closed, closer>> /\ phase # "done"
        /\ phase' = "before" \/ phase \notin {"open", "before"}
    BY <1>8 DEF CloseCancel, WatcherCancel, WaitWorkers, WaitExpires, NestDone, pool,
         results, calls, nest!BeginCancel, nest!Drained, nest!Expire, nest!CloseDone
  <2> QED  BY <2>1 DEF HookInv, NilInv
<1> QED  BY <1>2, <1>3, <1>4, <1>5, <1>6, <1>7, <1>8 DEF Next, CloseStep, NestStep

LEMMA AccountInductive == Spec => [](SafeInv /\ AccountInv /\ HookInv /\ NilInv)
<1>1. Init => AccountInv /\ HookInv /\ NilInv
  <2> SUFFICES ASSUME Init PROVE AccountInv /\ HookInv /\ NilInv
    OBVIOUS
  <2>1. AccountInv
    BY DEF Init, AccountInv, Pushed
  <2>2. pc[Dismisser] = "none" /\ phase = "open"
    BY NotDismisser DEF Init, nest!NestInit
  <2>3. NilInv
    BY DEF Init, NilInv
  <2> QED  BY <2>1, <2>2, <2>3 DEF HookInv
<1>2. SafeInv => StateInv /\ TypeOK /\ ShutInv /\ PlaceInv
  BY DEF SafeInv, StateInv
<1> QED  BY <1>1, <1>2, AccountStep, HookStep, SafeInductive, PTL DEF Spec

(* A Result is completed once: a completed Result is in nobody's hands, and  *)
(* what it holds is never written again, though workers and dismisser both   *)
(* complete Results; close(r.done) would panic the second time               *)
(* (retrievable_scheduler.go:32-45).                                         *)
THEOREM ResultsAreFinal == Spec => [][\A t \in done : t \in done' /\ val'[t] = val[t]
                                        /\ \A p \in Poppers : held[p] # t]_vars
<1>1. SafeInv /\ [Next]_vars =>
        [\A t \in done : t \in done' /\ val'[t] = val[t] /\ \A p \in Poppers : held[p] # t]_vars
  <2> SUFFICES ASSUME SafeInv, [Next]_vars, NEW t \in done
               PROVE  /\ t \in done' /\ val'[t] = val[t]
                      /\ \A p \in Poppers : held[p] # t
    OBVIOUS
  <2>1. t \in Tasks /\ val \in [Tasks -> Answers \cup {"none"}]
    BY DEF SafeInv, StateInv, TypeOK
  <2>2. \A p \in Poppers : held[p] # t
    BY <2>1, SetsAssumption DEF SafeInv, PlaceInv, OwnInv
  <2>3. \/ UNCHANGED <<done, val>>
        \/ \E p \in Poppers : /\ done' = done \cup {held[p]}
                              /\ \E a : val' = [val EXCEPT ![held[p]] = a]
    BY NotDismisser
    DEF Next, PushRefused, PushAdmitted, PushStep, Reserve, ReserveFull, Enqueue,
        PushBroadcast, WorkerLocked, WorkerStep, WorkerExit, WorkerTest, WorkerWait,
        WorkerPop, WorkerPopNone, Pop, JobStart, CountDown, JobEnd, FinishSelect,
        FinishClose, RunEnter, RunStep, RunCreate, RunSpawn, RunReturn, AnswerStep,
        AnswerDone, AnswerClosed, AnswerCtx, Ask, ParentCancel, CloseEnter, CloseStep,
        CloseReturn, CloseCancel, NestStep, DismissStep, DismissStart, DismissPop,
        DismissCountDown, DismissFail, DismissEnd, WatcherCancel, WaitWorkers,
        WaitExpires, NestDone, HookBroadcast, HookTimeout, vars, results
  <2> QED  BY <2>1, <2>2, <2>3
<1> QED  BY <1>1, SafeInductive, PTL DEF Spec

(* A Close that returned nil left no worker, and no Result in the air: every *)
(* task that Push has accepted is completed, but for one that came in behind *)
(* the dismissal, which is queued, is not run, and reads as canceled since   *)
(* r.closed is closed.  Pipeline assumes this of its admission scheduler.    *)
CloseSettles ==
  (\E c \in Closers : closer[c] = "nil") =>
    /\ closed /\ \A w \in Workers : pc[w] \in {"none", "exited"}
    /\ ran \subseteq done
    /\ \A t \in Tasks : Pushed(t) => t \in done \/ t \in Range(tasks)

THEOREM CloseHasSettled == Spec => []CloseSettles
<1>1. SafeInv /\ AccountInv /\ HookInv /\ NilInv => CloseSettles
  <2> SUFFICES ASSUME SafeInv, AccountInv, HookInv, NilInv,
                      NEW c \in Closers, closer[c] = "nil"
               PROVE  /\ closed /\ \A w \in Workers : pc[w] \in {"none", "exited"}
                      /\ ran \subseteq done
                      /\ \A t \in Tasks : Pushed(t) => t \in done \/ t \in Range(tasks)
    BY Zenon DEF CloseSettles
  <2>1. phase = "done" /\ ~timedOut
    BY DEF NilInv
  <2>2. closed /\ pc[Dismisser] = "exited"
    BY <2>1 DEF HookInv, SafeInv, ShutInv, DismisserInv
  <2>3. \A w \in Workers : pc[w] \in {"none", "exited"}
    BY <2>1 DEF SafeInv, ShutInv, GroupInv, DrainInv
  <2>4. \A p \in Poppers : held[p] = NoTask
    BY <2>2, <2>3, NotDismisser DEF SafeInv, PlaceInv, OwnInv, InJob, PastJob
  <2>5. \A t \in Tasks : ~InHands(t)
    BY <2>4, SetsAssumption DEF InHands
  <2>6. \A t \in ran : t \in Tasks
    BY DEF SafeInv, StateInv, TypeOK
  <2>7. \A t \in ran : t \in done
    BY <2>5, <2>6 DEF AccountInv
  <2>8. \A t \in Tasks : Pushed(t) => t \in done \/ t \in Range(tasks)
    BY <2>5 DEF AccountInv
  <2>9. ran \subseteq done
    BY <2>7
  <2> QED  BY <2>2, <2>3, <2>8, <2>9, Zenon
<1> QED  BY <1>1, AccountInductive, PTL
=============================================================================
