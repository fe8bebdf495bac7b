--------------------------- MODULE SchedulerProofs ---------------------------
(***************************************************************************)
(* Proofs about Scheduler, for any tasks, workers, callers and options.    *)
(***************************************************************************)
EXTENDS Scheduler, FiniteSetTheorems, SequenceTheorems, TLAPS

-----------------------------------------------------------------------------
(* The types, in three parts that different actions disturb.                 *)
QueueOK == /\ tasks \in Seq(Tasks)
           /\ pending \in Int
           /\ push \in [Tasks -> PushPcs]

PoolOK == /\ pc \in [Workers -> WorkerPcs]
          /\ held \in [Workers -> Tasks \cup {NoTask}]
          /\ ran \in [Tasks -> Nat]

CallsOK == /\ running \in BOOLEAN
           /\ created \in BOOLEAN
           /\ runner \in [Runners -> RunnerPcs]
           /\ closer \in [Closers -> CloserPcs]
           /\ hook \in {"none", "live", "expired"}
           /\ reported \subseteq Tasks

NestOK == /\ phase \in nest!Phases
          /\ wg \subseteq Workers
          /\ dispatched \in BOOLEAN
          /\ cause \in {{}, {"closed"}, {"parent"}}
          /\ timedOut \in BOOLEAN

LEMMA TypeSplit ==
  /\ TypeOK <=> QueueOK /\ PoolOK /\ CallsOK /\ NestOK
  /\ TypeOK' <=> QueueOK' /\ PoolOK' /\ CallsOK' /\ NestOK'
BY DEF TypeOK, QueueOK, PoolOK, CallsOK, NestOK

(* What Pop takes and leaves, whichever end it works at.                     *)
LEMMA PopType ==
  ASSUME NEW s \in Seq(Tasks), s # <<>>
  PROVE  /\ Pick(s) \in Tasks
         /\ Rest(s) \in Seq(Tasks)
         /\ Len(Rest(s)) = Len(s) - 1
<1>1. Len(s) \in Nat /\ Len(s) >= 1
  OBVIOUS
<1>2. CASE Mode = "FIFO"
  BY <1>1, <1>2 DEF Pick, Rest
<1>3. CASE Mode # "FIFO"
  <2>1. Pick(s) = s[Len(s)] /\ Rest(s) = SubSeq(s, 1, Len(s) - 1)
    BY <1>3 DEF Pick, Rest
  <2>2. Len(s) \in 1 .. Len(s) /\ \A i \in 1 .. Len(s) : s[i] \in Tasks
    BY <1>1
  <2>3. /\ SubSeq(s, 1, Len(s) - 1) \in Seq(Tasks)
        /\ Len(SubSeq(s, 1, Len(s) - 1)) = Len(s) - 1
    <3>1. Len(s) - 1 \in Int /\ \A i \in 1 .. (Len(s) - 1) : s[i] \in Tasks
      BY <1>1, <2>2
    <3>2. CASE Len(s) = 1
      BY <3>2, SubSeqEmpty
    <3>3. CASE Len(s) # 1
      <4>0. \A n \in Nat : n >= 1 /\ n # 1 => 1 <= n - 1 /\ (n - 1) - 1 + 1 = n - 1
        OBVIOUS
      <4>1. 1 <= Len(s) - 1 /\ (Len(s) - 1) - 1 + 1 = Len(s) - 1
        BY <1>1, <3>3, <4>0
      <4> QED  BY <3>1, <4>1, SubSeqProperties
    <3> QED  BY <3>2, <3>3
  <2> QED  BY <2>1, <2>2, <2>3
<1> QED  BY <1>2, <1>3

LEMMA TypeInit == Init => TypeOK
<1> SUFFICES ASSUME Init PROVE QueueOK /\ PoolOK /\ CallsOK /\ NestOK
  BY TypeSplit
<1> USE DEF Init, nest!NestInit
<1>1. QueueOK
  BY DEF QueueOK, PushPcs
<1>2. PoolOK
  BY DEF PoolOK, WorkerPcs
<1>3. CallsOK
  BY DEF CallsOK, RunnerPcs, CloserPcs
<1>4. NestOK
  BY DEF NestOK, nest!Phases
<1> QED  BY <1>1, <1>2, <1>3, <1>4

-----------------------------------------------------------------------------
(* One lemma per group of actions: pushes, workers, calls, shutdown.         *)
LEMMA PushType ==
  ASSUME TypeOK, NEW t \in Tasks,
         PushRefused(t) \/ PushAdmitted(t) \/ PushStep(t)
  PROVE  TypeOK'
<1> SUFFICES ASSUME QueueOK, PoolOK, CallsOK, NestOK
             PROVE  QueueOK' /\ PoolOK' /\ CallsOK' /\ NestOK'
  BY TypeSplit
<1> USE DEF QueueOK, PoolOK, CallsOK, NestOK, pool, calls, exit, nestVars,
            Goes, PushPcs, Refusals
<1>1. CASE PushRefused(t) \/ PushAdmitted(t)
  <2>1. UNCHANGED <<tasks, pending, pool, calls, exit, nestVars>>
    BY <1>1 DEF PushRefused, PushAdmitted
  <2>2. push' \in [Tasks -> PushPcs]
    BY <1>1 DEF PushRefused, PushAdmitted
  <2> QED  BY <2>1, <2>2
<1>2. CASE Reserve(t) \/ ReserveFull(t)
  <2>1. PoolOK' /\ CallsOK' /\ NestOK' /\ tasks' \in Seq(Tasks)
    BY <1>2 DEF Reserve, ReserveFull
  <2>2. push' \in [Tasks -> PushPcs]
    BY <1>2 DEF Reserve, ReserveFull
  <2>3. pending' \in Int
    BY <1>2 DEF Reserve, ReserveFull
  <2> QED  BY <2>1, <2>2, <2>3
<1>3. CASE Enqueue(t)
  BY <1>3 DEF Enqueue
<1>4. CASE PushBroadcast(t)
  BY <1>4 DEF PushBroadcast, WakeAll, WorkerPcs
<1> QED  BY <1>1, <1>2, <1>3, <1>4 DEF PushStep

LEMMA WorkerType ==
  ASSUME TypeOK, NEW w \in Workers,
         WorkerLocked(w) \/ WorkerStep(w) \/ JobEnd(w)
  PROVE  TypeOK'
<1> SUFFICES ASSUME QueueOK, PoolOK, CallsOK, NestOK
             PROVE  QueueOK' /\ PoolOK' /\ CallsOK' /\ NestOK'
  BY TypeSplit
<1> USE DEF QueueOK, PoolOK, CallsOK, NestOK, calls, exit, nestVars, At,
            WorkerPcs, LockPcs
<1>1. CASE WorkerExit(w)
  BY <1>1 DEF WorkerExit, nest!Return
<1>2. CASE WorkerTest(w) \/ WorkerWait(w)
  BY <1>2 DEF WorkerTest, WorkerWait
<1>3. CASE WorkerPop(w)
  BY <1>3, PopType DEF WorkerPop
<1>4. CASE JobStart(w)
  BY <1>4 DEF JobStart
<1>5. CASE JobEnd(w)
  <2>1. QueueOK' /\ CallsOK' /\ NestOK'
    BY <1>5 DEF JobEnd
  <2>2. ran' \in [Tasks -> Nat]
    <3>1. ran' = [t \in Tasks |-> IF t = held[w] THEN ran[t] + 1 ELSE ran[t]]
      BY <1>5 DEF JobEnd
    <3>2. \A t \in Tasks : ran[t] + 1 \in Nat
      OBVIOUS
    <3> QED  BY <3>1, <3>2
  <2>3. /\ pc' \in [Workers -> WorkerPcs]
        /\ held' \in [Workers -> Tasks \cup {NoTask}]
    BY <1>5 DEF JobEnd
  <2> QED  BY <2>1, <2>2, <2>3
<1> QED  BY <1>1, <1>2, <1>3, <1>4, <1>5 DEF WorkerLocked, WorkerStep

LEMMA CallType ==
  ASSUME TypeOK,
         \/ \E r \in Runners : RunEnter(r) \/ RunStep(r)
         \/ \E c \in Closers : CloseEnter(c) \/ CloseStep(c)
  PROVE  TypeOK'
<1> SUFFICES ASSUME QueueOK, PoolOK, CallsOK, NestOK
             PROVE  QueueOK' /\ PoolOK' /\ CallsOK' /\ NestOK'
  BY TypeSplit
<1> USE DEF QueueOK, PoolOK, CallsOK, NestOK, pool, calls, exit, nestVars,
            RunnerPcs, CloserPcs, nest!Phases
<1>1. ASSUME NEW r \in Runners, RunEnter(r) \/ RunCreate(r)
      PROVE  QueueOK' /\ PoolOK' /\ CallsOK' /\ NestOK'
  <2>1. CASE RunEnter(r)
    <3>1. QueueOK' /\ PoolOK' /\ NestOK'
          /\ UNCHANGED <<created, closer, hook, reported>>
      BY <2>1 DEF RunEnter
    <3>2. running' \in BOOLEAN /\ runner' \in [Runners -> RunnerPcs]
      BY <2>1 DEF RunEnter
    <3> QED  BY <3>1, <3>2
  <2>2. CASE RunCreate(r)
    BY <2>2 DEF RunCreate
  <2> QED  BY <1>1, <2>1, <2>2
<1>2. ASSUME NEW r \in Runners, RunSpawn(r)
      PROVE  QueueOK' /\ PoolOK' /\ CallsOK' /\ NestOK'
  BY <1>2 DEF RunSpawn, At, WorkerPcs, nest!Spawn
<1>3. ASSUME NEW r \in Runners, RunReturn(r)
      PROVE  QueueOK' /\ PoolOK' /\ CallsOK' /\ NestOK'
  <2>1. UNCHANGED nestVars
    BY <1>3 DEF RunReturn, nest!SpawnRefused, nest!nestVars
  <2>2. QueueOK' /\ PoolOK' /\ NestOK'
        /\ UNCHANGED <<running, created, closer, hook, reported>>
    BY <1>3, <2>1 DEF RunReturn
  <2>3. runner' \in [Runners -> RunnerPcs]
    BY <1>3 DEF RunReturn
  <2> QED  BY <2>2, <2>3
<1>4. ASSUME NEW c \in Closers, CloseEnter(c) \/ CloseReturn(c)
      PROVE  QueueOK' /\ PoolOK' /\ CallsOK' /\ NestOK'
  <2>1. CASE CloseEnter(c)
    <3>1. QueueOK' /\ PoolOK' /\ NestOK' /\ UNCHANGED <<created, runner, hook, reported>>
      BY <2>1 DEF CloseEnter
    <3>2. running' \in BOOLEAN /\ closer' \in [Closers -> CloserPcs]
      BY <2>1 DEF CloseEnter, Closing
    <3> QED  BY <3>1, <3>2
  <2>2. CASE CloseReturn(c)
    <3>1. QueueOK' /\ PoolOK' /\ NestOK'
          /\ UNCHANGED <<running, created, runner, hook, reported>>
      BY <2>2 DEF CloseReturn
    <3>2. closer' \in [Closers -> CloserPcs]
      BY <2>2 DEF CloseReturn, Closing
    <3> QED  BY <3>1, <3>2
  <2> QED  BY <1>4, <2>1, <2>2
<1>5. ASSUME NEW c \in Closers, CloseCancel(c)
      PROVE  QueueOK' /\ PoolOK' /\ CallsOK' /\ NestOK'
  BY <1>5 DEF CloseCancel, nest!BeginCancel
<1> QED  BY <1>1, <1>2, <1>3, <1>4, <1>5 DEF RunStep, CloseStep

LEMMA ShutdownType ==
  ASSUME TypeOK,
         ParentCancel \/ NestStep \/ WaitExpires \/ HookBroadcast \/ HookTimeout
  PROVE  TypeOK'
<1> SUFFICES ASSUME QueueOK, PoolOK, CallsOK, NestOK
             PROVE  QueueOK' /\ PoolOK' /\ CallsOK' /\ NestOK'
  BY TypeSplit
<1> USE DEF QueueOK, PoolOK, CallsOK, NestOK, pool, calls, exit, nestVars,
            nest!Phases
<1>1. CASE ParentCancel \/ WatcherCancel
  BY <1>1 DEF ParentCancel, WatcherCancel, nest!InheritedDone, nest!BeginCancel
<1>2. CASE BeforeHook \/ HookTimeout
  BY <1>2 DEF BeforeHook, HookTimeout, nest!CancelDispatched
<1>3. CASE HookBroadcast
  BY <1>3 DEF HookBroadcast, WakeAll, WorkerPcs
<1>4. CASE WaitWorkers \/ WaitExpires
  BY <1>4 DEF WaitWorkers, WaitExpires, nest!Drained, nest!Expire
<1>5. CASE AfterHook
  <2>1. Range(tasks) \subseteq Tasks
    BY DEF Range
  <2> QED  BY <1>5, <2>1 DEF AfterHook, nest!CloseDone
<1> QED  BY <1>1, <1>2, <1>3, <1>4, <1>5 DEF NestStep

LEMMA TypeStep == TypeOK /\ [Next]_vars => TypeOK'
<1>1. TypeOK /\ UNCHANGED vars => TypeOK'
  BY DEF TypeOK, vars, pool, calls, exit, nestVars
<1> QED  BY <1>1, PushType, WorkerType, CallType, ShutdownType DEF Next

(* Type correctness of the scheduler.                                        *)
THEOREM TypeCorrect == Spec => []TypeOK
<1>1. Init => TypeOK
  BY TypeInit
<1>2. TypeOK /\ [Next]_vars => TypeOK'
  BY TypeStep
<1> QED  BY <1>1, <1>2, PTL DEF Spec

-----------------------------------------------------------------------------
(* The counter.  Reserved and Popped are finite, and one goroutine's step    *)
(* adds itself to one of them or takes itself out.                           *)
LEMMA Finite ==
  /\ IsFiniteSet(Reserved) /\ Cardinality(Reserved) \in Nat
  /\ IsFiniteSet(Popped) /\ Cardinality(Popped) \in Nat
<1>1. Reserved \in SUBSET Tasks /\ Popped \in SUBSET Workers
  BY DEF Reserved, Popped
<1>2. IsFiniteSet(Reserved) /\ IsFiniteSet(Popped)
  BY <1>1, SetsAssumption, FS_Subset
<1> QED  BY <1>2, FS_CardinalityType

LEMMA ReservedMoves ==
  ASSUME TypeOK, NEW t \in Tasks, NEW at, Goes(t, at)
  PROVE  Reserved' = IF at = "reserved" THEN Reserved \cup {t} ELSE Reserved \ {t}
BY DEF TypeOK, Goes, Reserved

LEMMA PoppedMoves ==
  ASSUME TypeOK, NEW w \in Workers, NEW at, At(w, at)
  PROVE  Popped' = IF at = "popped" THEN Popped \cup {w} ELSE Popped \ {w}
BY DEF TypeOK, At, Popped

LEMMA PoppedWake == TypeOK /\ WakeAll => Popped' = Popped
BY DEF TypeOK, WakeAll, Popped

(* The limit as the reservation keeps it.                                    *)
PendingBound == MaxPending >= 0 => pending <= MaxPending

CountInv == PendingExact /\ PendingBound

(* The four steps that move the counter, the queue or a call across them.    *)
LEMMA ReserveCounts ==
  ASSUME TypeOK, CountInv, NEW t \in Tasks, Reserve(t)
  PROVE  CountInv'
<1>1. t \notin Reserved /\ Reserved' = Reserved \cup {t}
  BY ReservedMoves DEF Reserve, Reserved
<1>2. Cardinality(Reserved') = Cardinality(Reserved) + 1
  BY <1>1, Finite, FS_AddElement
<1>3. tasks' = tasks /\ pending' = pending + 1 /\ Popped' = Popped
  BY DEF Reserve, pool, Popped
<1>4. PendingExact'
  BY <1>2, <1>3, Finite DEF CountInv, PendingExact, TypeOK
<1>5. PendingBound'
  BY <1>3, OptionsAssumption DEF Reserve, PendingBound, TypeOK
<1> QED  BY <1>4, <1>5 DEF CountInv

LEMMA EnqueueCounts ==
  ASSUME TypeOK, CountInv, NEW t \in Tasks, Enqueue(t)
  PROVE  CountInv'
<1>1. t \in Reserved /\ Reserved' = Reserved \ {t}
  BY ReservedMoves DEF Enqueue, Reserved
<1>2. Cardinality(Reserved') = Cardinality(Reserved) - 1
  BY <1>1, Finite, FS_RemoveElement
<1>3. pending' = pending /\ Popped' = Popped
  BY DEF Enqueue, pool, Popped
<1>4. Len(tasks') = Len(tasks) + 1 /\ Len(tasks) \in Nat
  BY AppendProperties DEF Enqueue, TypeOK
<1> QED  BY <1>2, <1>3, <1>4, Finite DEF CountInv, PendingExact, PendingBound

LEMMA PopCounts ==
  ASSUME TypeOK, CountInv, NEW w \in Workers, WorkerPop(w)
  PROVE  CountInv'
<1>1. w \notin Popped /\ Popped' = Popped \cup {w}
  BY PoppedMoves DEF WorkerPop, Popped
<1>2. Cardinality(Popped') = Cardinality(Popped) + 1
  BY <1>1, Finite, FS_AddElement
<1>3. pending' = pending /\ Reserved' = Reserved
  BY DEF WorkerPop, Reserved
<1>4. Len(tasks') = Len(tasks) - 1 /\ Len(tasks) \in Nat
  BY PopType DEF WorkerPop, TypeOK
<1> QED  BY <1>2, <1>3, <1>4, Finite DEF CountInv, PendingExact, PendingBound

LEMMA JobStartCounts ==
  ASSUME TypeOK, CountInv, NEW w \in Workers, JobStart(w)
  PROVE  CountInv'
<1>1. w \in Popped /\ Popped' = Popped \ {w}
  BY PoppedMoves DEF JobStart, Popped
<1>2. Cardinality(Popped') = Cardinality(Popped) - 1
  BY <1>1, Finite, FS_RemoveElement
<1>3. tasks' = tasks /\ pending' = pending - 1 /\ Reserved' = Reserved
  BY DEF JobStart, Reserved
<1>4. PendingExact'
  BY <1>2, <1>3, Finite DEF CountInv, PendingExact, TypeOK
<1>5. PendingBound'
  BY <1>3, OptionsAssumption DEF CountInv, PendingBound, TypeOK
<1> QED  BY <1>4, <1>5 DEF CountInv

LEMMA CountSame ==
  ASSUME CountInv, UNCHANGED <<tasks, pending>>, Reserved' = Reserved,
         Popped' = Popped
  PROVE  CountInv'
BY DEF CountInv, PendingExact, PendingBound

LEMMA CountStep == TypeOK /\ CountInv /\ [Next]_vars => CountInv'
<1> SUFFICES ASSUME TypeOK, CountInv, [Next]_vars PROVE CountInv'
  OBVIOUS
<1>1. ASSUME NEW t \in Tasks, PushRefused(t) \/ PushAdmitted(t) \/ ReserveFull(t)
      PROVE  CountInv'
  <2>1. \E at \in PushPcs : at # "reserved" /\ Goes(t, at)
    BY <1>1 DEF PushRefused, PushAdmitted, ReserveFull, PushPcs, Refusals
  <2>2. t \notin Reserved
    BY <1>1 DEF PushRefused, PushAdmitted, ReserveFull, Reserved
  <2>3. Reserved' = Reserved
    BY <2>1, <2>2, ReservedMoves
  <2>4. UNCHANGED <<tasks, pending>> /\ Popped' = Popped
    BY <1>1 DEF PushRefused, PushAdmitted, ReserveFull, pool, Popped
  <2> QED  BY <2>3, <2>4, CountSame
<1>2. ASSUME NEW t \in Tasks, PushBroadcast(t) PROVE CountInv'
  <2>1. t \notin Reserved /\ Reserved' = Reserved \ {t}
    BY <1>2, ReservedMoves DEF PushBroadcast, Reserved
  <2>2. UNCHANGED <<tasks, pending>> /\ Popped' = Popped
    BY <1>2, PoppedWake DEF PushBroadcast
  <2> QED  BY <2>1, <2>2, CountSame
<1>3. ASSUME NEW w \in Workers,
             WorkerExit(w) \/ WorkerTest(w) \/ WorkerWait(w) \/ JobEnd(w)
      PROVE  CountInv'
  <2>1. \E at \in WorkerPcs : at # "popped" /\ At(w, at)
    BY <1>3 DEF WorkerExit, WorkerTest, WorkerWait, JobEnd, WorkerPcs, LockPcs
  <2>2. w \notin Popped
    BY <1>3 DEF WorkerExit, WorkerTest, WorkerWait, JobEnd, Popped
  <2>3. Popped' = Popped
    BY <2>1, <2>2, PoppedMoves
  <2>4. UNCHANGED <<tasks, pending>> /\ Reserved' = Reserved
    BY <1>3 DEF WorkerExit, WorkerTest, WorkerWait, JobEnd, Reserved
  <2> QED  BY <2>3, <2>4, CountSame
<1>4. ASSUME NEW r \in Runners, RunSpawn(r) PROVE CountInv'
  <2>1. PICK w \in Workers : pc[w] = "none" /\ At(w, "idle")
    BY <1>4 DEF RunSpawn
  <2>2. Popped' = Popped
    BY <2>1, PoppedMoves DEF Popped
  <2>3. UNCHANGED <<tasks, pending>> /\ Reserved' = Reserved
    BY <1>4 DEF RunSpawn, Reserved
  <2> QED  BY <2>2, <2>3, CountSame
<1>5. CASE \/ \E r \in Runners : RunEnter(r) \/ RunCreate(r) \/ RunReturn(r)
           \/ \E c \in Closers : CloseEnter(c) \/ CloseStep(c)
           \/ ParentCancel \/ NestStep \/ WaitExpires \/ HookTimeout
           \/ UNCHANGED vars
  <2>1. UNCHANGED <<tasks, pending, push, pc>>
    BY <1>5 DEF RunEnter, RunCreate, RunReturn, CloseEnter, CloseStep,
                CloseCancel, CloseReturn, ParentCancel, NestStep, WatcherCancel,
                BeforeHook, WaitWorkers, WaitExpires, AfterHook, HookTimeout,
                vars, pool
  <2> QED  BY <2>1, CountSame DEF Reserved, Popped
<1>6. CASE HookBroadcast
  <2>1. UNCHANGED <<tasks, pending>> /\ Reserved' = Reserved /\ Popped' = Popped
    BY <1>6, PoppedWake DEF HookBroadcast, Reserved
  <2> QED  BY <2>1, CountSame
<1> QED  BY <1>1, <1>2, <1>3, <1>4, <1>5, <1>6, ReserveCounts, EnqueueCounts,
            PopCounts, JobStartCounts
         DEF Next, PushStep, WorkerLocked, WorkerStep, RunStep

LEMMA CountInductive == Spec => [](TypeOK /\ CountInv)
<1>1. Init => TypeOK /\ CountInv
  <2> SUFFICES ASSUME Init PROVE CountInv
    BY TypeInit
  <2>1. Reserved = {} /\ Popped = {}
    BY DEF Init, Reserved, Popped
  <2> QED  BY <2>1, FS_EmptySet, OptionsAssumption
              DEF Init, CountInv, PendingExact, PendingBound
<1>2. TypeOK /\ CountInv /\ [Next]_vars => (TypeOK /\ CountInv)'
  BY TypeStep, CountStep
<1> QED  BY <1>1, <1>2, PTL DEF Spec

(* The counter that Push and the workers keep without a common lock is ahead *)
(* of the queue by exactly the calls in the middle, in every interleaving.   *)
THEOREM PendingIsExact == Spec => []PendingExact
<1>1. CountInv => PendingExact
  BY DEF CountInv
<1> QED  BY <1>1, CountInductive, PTL

(* WithMaxPending bounds the queue, reservations included.                   *)
THEOREM QueueIsBounded == Spec => []QueueBound
<1>1. TypeOK /\ CountInv => QueueBound
  <2> SUFFICES ASSUME TypeOK, CountInv, MaxPending >= 0
               PROVE  Len(tasks) + Cardinality(Reserved) <= MaxPending
    BY DEF QueueBound
  <2>1. Len(tasks) \in Nat
    BY DEF TypeOK
  <2> QED  BY <2>1, Finite, OptionsAssumption
              DEF CountInv, PendingExact, PendingBound
<1> QED  BY <1>1, CountInductive, PTL

-----------------------------------------------------------------------------
(* What Close's nil stands on: the nest counts every worker that is not out, *)
(* a worker holds a task only between its pop and the end of the job, and    *)
(* past the wait, unless it was given up, the nest counts nobody.            *)
GroupInv == \A w \in Workers : pc[w] \in {"none", "exited"} \/ w \in wg

HoldInv == \A w \in Workers : held[w] = NoTask \/ pc[w] \in {"popped", "running"}

DrainInv ==
  ~timedOut => /\ phase \in {"after", "done"} => wg = {}
               /\ phase = "done" \/ \A c \in Closers : closer[c] # "nil"

NilInv == timedOut => \A c \in Closers : closer[c] # "nil"

CloseInv == GroupInv /\ HoldInv /\ DrainInv /\ NilInv

LEMMA WorkerClose ==
  ASSUME TypeOK, CloseInv, NEW w \in Workers,
         WorkerLocked(w) \/ WorkerStep(w) \/ JobEnd(w)
  PROVE  CloseInv'
<1> USE DEF CloseInv, GroupInv, HoldInv, DrainInv, NilInv, TypeOK, calls,
            nestVars, At, LockPcs
<1>1. CASE WorkerExit(w)
  BY <1>1 DEF WorkerExit, nest!Return, nest!Canceled
<1>2. CASE WorkerTest(w) \/ WorkerWait(w)
  BY <1>2 DEF WorkerTest, WorkerWait
<1>3. CASE WorkerPop(w)
  BY <1>3 DEF WorkerPop
<1>4. CASE JobStart(w) \/ JobEnd(w)
  BY <1>4 DEF JobStart, JobEnd
<1> QED  BY <1>1, <1>2, <1>3, <1>4 DEF WorkerLocked, WorkerStep

LEMMA CallClose ==
  ASSUME TypeOK, CloseInv,
         \/ \E r \in Runners : RunEnter(r) \/ RunStep(r)
         \/ \E c \in Closers : CloseEnter(c) \/ CloseStep(c)
  PROVE  CloseInv'
<1> USE DEF CloseInv, GroupInv, HoldInv, DrainInv, NilInv, TypeOK, calls, pool,
            nestVars
<1>1. ASSUME NEW r \in Runners, RunEnter(r) \/ RunCreate(r) PROVE CloseInv'
  BY <1>1 DEF RunEnter, RunCreate
<1>2. ASSUME NEW r \in Runners, RunSpawn(r) PROVE CloseInv'
  <2>1. PICK w \in Workers : pc[w] = "none" /\ nest!Spawn(w) /\ At(w, "idle")
    BY <1>2 DEF RunSpawn
  <2> QED  BY <1>2, <2>1 DEF RunSpawn, At, nest!Spawn
<1>3. ASSUME NEW r \in Runners, RunReturn(r) PROVE CloseInv'
  BY <1>3 DEF RunReturn, nest!SpawnRefused, nest!nestVars
<1>4. ASSUME NEW c \in Closers, CloseEnter(c) PROVE CloseInv'
  <2>1. \E at \in CloserPcs : at # "nil" /\ Closing(c, at)
    BY <1>4 DEF CloseEnter, CloserPcs
  <2> QED  BY <1>4, <2>1 DEF CloseEnter, Closing
<1>5. ASSUME NEW c \in Closers, CloseReturn(c) PROVE CloseInv'
  BY <1>5 DEF CloseReturn, Closing
<1>6. ASSUME NEW c \in Closers, CloseCancel(c) PROVE CloseInv'
  BY <1>6 DEF CloseCancel, nest!BeginCancel
<1> QED  BY <1>1, <1>2, <1>3, <1>4, <1>5, <1>6 DEF RunStep, CloseStep

LEMMA ShutdownClose ==
  ASSUME TypeOK, CloseInv,
         ParentCancel \/ NestStep \/ WaitExpires \/ HookBroadcast \/ HookTimeout
  PROVE  CloseInv'
<1> USE DEF CloseInv, GroupInv, HoldInv, DrainInv, NilInv, TypeOK, calls, pool,
            nestVars
<1>1. CASE ParentCancel \/ WatcherCancel \/ HookTimeout
  BY <1>1 DEF ParentCancel, WatcherCancel, HookTimeout, nest!InheritedDone,
              nest!BeginCancel
<1>2. CASE BeforeHook
  BY <1>2 DEF BeforeHook, nest!CancelDispatched
<1>3. CASE HookBroadcast
  BY <1>3 DEF HookBroadcast, WakeAll
<1>4. CASE WaitWorkers
  BY <1>4 DEF WaitWorkers, nest!Drained
<1>5. CASE WaitExpires
  BY <1>5 DEF WaitExpires, nest!Expire
<1>6. CASE AfterHook
  BY <1>6 DEF AfterHook, nest!CloseDone
<1> QED  BY <1>1, <1>2, <1>3, <1>4, <1>5, <1>6 DEF NestStep

LEMMA PushClose ==
  ASSUME TypeOK, CloseInv, NEW t \in Tasks,
         PushRefused(t) \/ PushAdmitted(t) \/ PushStep(t)
  PROVE  CloseInv'
<1>1. /\ UNCHANGED <<held, closer, phase, wg, timedOut>>
      /\ UNCHANGED pc \/ WakeAll
  BY DEF PushRefused, PushAdmitted, PushStep, Reserve, ReserveFull, Enqueue,
         PushBroadcast, pool, calls, nestVars
<1> QED  BY <1>1 DEF CloseInv, GroupInv, HoldInv, DrainInv, NilInv, TypeOK,
                     WakeAll

LEMMA CloseInductive == Spec => [](TypeOK /\ CloseInv)
<1>1. Init => TypeOK /\ CloseInv
  <2> SUFFICES ASSUME Init PROVE CloseInv
    BY TypeInit
  <2> QED  BY DEF Init, nest!NestInit, CloseInv, GroupInv, HoldInv, DrainInv,
                  NilInv
<1>2. TypeOK /\ CloseInv /\ [Next]_vars => (TypeOK /\ CloseInv)'
  <2>1. CloseInv /\ UNCHANGED vars => CloseInv'
    BY DEF CloseInv, GroupInv, HoldInv, DrainInv, NilInv, vars, pool, calls,
           nestVars
  <2> QED  BY <2>1, TypeStep, PushClose, WorkerClose, CallClose, ShutdownClose
              DEF Next
<1> QED  BY <1>1, <1>2, PTL DEF Spec

(* A Close of a scheduler with a nest that returned nil has waited for every *)
(* worker: none is left and none holds a job.                                *)
THEOREM CloseHasWaited == Spec => []CloseWaits
<1>1. CloseInv => CloseWaits
  <2> SUFFICES ASSUME CloseInv, NEW c \in Closers, closer[c] = "nil",
                      NEW w \in Workers
               PROVE  pc[w] \in {"none", "exited"} /\ held[w] = NoTask
    BY DEF CloseWaits
  <2>1. w \notin wg
    BY DEF CloseInv, DrainInv, NilInv
  <2> QED  BY <2>1 DEF CloseInv, GroupInv, HoldInv
<1> QED  BY <1>1, CloseInductive, PTL

-----------------------------------------------------------------------------
(* Where a task can be.  Whatever the queue, a worker or the exit callback   *)
(* has was pushed; the queue holds nothing twice, and nothing that a worker  *)
(* holds or has run; no two workers hold the same task; and the exit         *)
(* callback has got nothing before the nest is done.                         *)
Pushed(t) == push[t] \in {"appended", "ok"}
Distinct(s) == \A i, j \in DOMAIN s : s[i] = s[j] => i = j

QueueInv ==
  /\ Distinct(tasks)
  /\ \A t \in Range(tasks) : /\ Pushed(t) /\ ran[t] = 0
                             /\ \A w \in Workers : held[w] # t

HandInv ==
  /\ \A w \in Workers : held[w] # NoTask => Pushed(held[w]) /\ ran[held[w]] = 0
  /\ \A w \in Workers : pc[w] \in {"popped", "running"} => held[w] # NoTask
  /\ \A v, w \in Workers : held[v] = held[w] /\ held[w] # NoTask => v = w

LeftInv ==
  /\ \A t \in Tasks : ran[t] > 0 => Pushed(t)
  /\ \A t \in reported : phase = "done" /\ Pushed(t)

PlaceInv == QueueInv /\ HandInv /\ LeftInv

(* A queue without repetitions loses one element where one is taken out.     *)
TakesOut(s, r, n, p) ==
  /\ s \in Seq(Tasks) /\ r \in Seq(Tasks)
  /\ n \in Nat /\ p \in 1..n /\ Len(s) = n /\ Len(r) = n - 1
  /\ \A i \in 1..(n - 1) : /\ i < p => r[i] = s[i]
                           /\ i >= p => r[i] = s[i + 1]

LEMMA TakeOut ==
  ASSUME NEW s, NEW r, NEW n, NEW p, TakesOut(s, r, n, p), Distinct(s)
  PROVE  Range(r) = Range(s) \ {s[p]} /\ Distinct(r)
<1> DEFINE k(i) == IF i < p THEN i ELSE i + 1
<1>0. n \in Nat /\ p \in 1..n
  BY DEF TakesOut
<1>1. DOMAIN s = 1..n /\ DOMAIN r = 1..(n - 1)
  BY DEF TakesOut
<1>2. \A i \in 1..(n - 1) : k(i) \in 1..n /\ k(i) # p /\ r[i] = s[k(i)]
  BY DEF TakesOut
<1>3. \A i, j \in 1..(n - 1) : k(i) = k(j) => i = j
  BY <1>0
<1>4. \A i \in 1..n : i # p => \E j \in 1..(n - 1) : k(j) = i
  <2> SUFFICES ASSUME NEW i \in 1..n, i # p PROVE \E j \in 1..(n - 1) : k(j) = i
    OBVIOUS
  <2>1. CASE i < p
    <3>1. i \in 1..(n - 1) /\ k(i) = i
      BY <1>0, <2>1
    <3> QED  BY <3>1
  <2>2. CASE i > p
    <3>1. i - 1 \in 1..(n - 1) /\ k(i - 1) = i
      BY <1>0, <2>2
    <3> QED  BY <3>1
  <2> QED  BY <1>0, <2>1, <2>2
<1> HIDE DEF k
<1>5. ASSUME NEW x \in Range(r) PROVE x \in Range(s) /\ x # s[p]
  <2>1. PICK i \in 1..(n - 1) : x = r[i]
    BY <1>1 DEF Range
  <2>2. k(i) \in DOMAIN s /\ k(i) # p /\ x = s[k(i)]
    BY <1>1, <1>2, <2>1
  <2> QED  BY <1>0, <1>1, <2>2 DEF Range, Distinct
<1>6. ASSUME NEW x \in Range(s), x # s[p] PROVE x \in Range(r)
  <2>1. PICK i \in 1..n : x = s[i]
    BY <1>1 DEF Range
  <2>2. PICK j \in 1..(n - 1) : k(j) = i
    BY <1>4, <1>6, <2>1
  <2>3. x = r[j]
    BY <1>2, <2>1, <2>2
  <2> QED  BY <1>1, <2>3 DEF Range
<1>7. Distinct(r)
  BY <1>1, <1>2, <1>3 DEF Distinct
<1> QED  BY <1>5, <1>6, <1>7

(* Pop takes one element, at either end.                                     *)
LEMMA PopTakesOne ==
  ASSUME NEW s \in Seq(Tasks), s # <<>>, Distinct(s)
  PROVE  /\ Pick(s) \in Range(s)
         /\ Range(Rest(s)) = Range(s) \ {Pick(s)}
         /\ Distinct(Rest(s))
<1>1. PICK n \in Nat : Len(s) = n /\ n >= 1 /\ DOMAIN s = 1..n
  OBVIOUS
<1>2. PICK r \in Seq(Tasks) : r = Rest(s) /\ Len(r) = n - 1
  BY <1>1, PopType
<1>3. PICK p \in 1..n : /\ Pick(s) = s[p]
                       /\ \A i \in 1..(n - 1) : /\ i < p => r[i] = s[i]
                                                /\ i >= p => r[i] = s[i + 1]
  <2>1. CASE Mode = "FIFO"
    <3>1. Pick(s) = s[1] /\ r = Tail(s)
      BY <1>1, <1>2, <2>1 DEF Pick, Rest
    <3>2. \A i \in 1..(n - 1) : r[i] = s[i + 1]
      BY <1>1, <1>2, <3>1, HeadTailProperties
    <3>3. 1 \in 1..n /\ \A i \in 1..(n - 1) : ~(i < 1)
      BY <1>1
    <3> QED  BY <3>1, <3>2, <3>3
  <2>2. CASE Mode # "FIFO"
    <3>1. Pick(s) = s[n] /\ r = SubSeq(s, 1, n - 1)
      BY <1>1, <1>2, <2>2 DEF Pick, Rest
    <3>2. \A i \in 1..(n - 1) : s[i] \in Tasks
      BY <1>1
    <3>3. \A i \in 1..((n - 1) - 1 + 1) : r[i] = s[1 + i - 1]
      BY <3>1, <3>2, SubSeqProperties, n - 1 \in Int
    <3>4. \A i \in 1..(n - 1) : i \in 1..((n - 1) - 1 + 1) /\ 1 + i - 1 = i /\ i < n
      OBVIOUS
    <3>5. n \in 1..n
      BY <1>1
    <3> QED  BY <3>1, <3>3, <3>4, <3>5
  <2> QED  BY <2>1, <2>2
<1>4. \A i \in 1..(n - 1) : (i < p => r[i] = s[i]) /\ (i >= p => r[i] = s[i + 1])
  BY <1>3
<1>5. Range(r) = Range(s) \ {s[p]} /\ Distinct(r)
  <2>1. TakesOut(s, r, n, p)
    BY <1>1, <1>2, <1>4 DEF TakesOut
  <2> QED  BY <2>1, TakeOut
<1>6. s[p] \in Range(s)
  BY <1>1 DEF Range
<1> QED  BY <1>2, <1>3, <1>5, <1>6

LEMMA AppendAddsOne ==
  ASSUME NEW s \in Seq(Tasks), NEW t \in Tasks
  PROVE  /\ Range(Append(s, t)) = Range(s) \cup {t}
         /\ Distinct(s) /\ t \notin Range(s) => Distinct(Append(s, t))
<1>1. /\ DOMAIN s = 1..Len(s) /\ Len(s) \in Nat
      /\ DOMAIN Append(s, t) = DOMAIN s \cup {Len(s) + 1}
      /\ \A i \in DOMAIN s : Append(s, t)[i] = s[i]
      /\ Append(s, t)[Len(s) + 1] = t
  OBVIOUS
<1>2. Range(Append(s, t)) = Range(s) \cup {t}
  BY <1>1 DEF Range
<1>3. ASSUME Distinct(s), t \notin Range(s) PROVE Distinct(Append(s, t))
  BY <1>1, <1>3 DEF Distinct, Range
<1> QED  BY <1>2, <1>3

LEMMA QueueIn == TypeOK => Range(tasks) \subseteq Tasks
BY DEF TypeOK, Range

(* Most steps move no task.                                                  *)
LEMMA PlaceAside ==
  ASSUME TypeOK, PlaceInv, UNCHANGED <<tasks, held, ran, reported>>,
         \A t \in Tasks : Pushed(t) => Pushed(t)',
         phase = "done" => phase' = "done",
         \A w \in Workers : pc'[w] \in {"popped", "running"} =>
                              pc[w] \in {"popped", "running"}
  PROVE  PlaceInv'
<1>1. QueueInv'
  BY QueueIn DEF PlaceInv, QueueInv
<1>2. HandInv'
  BY DEF PlaceInv, HandInv, TypeOK
<1>3. LeftInv'
  BY DEF PlaceInv, LeftInv, TypeOK
<1> QED  BY <1>1, <1>2, <1>3 DEF PlaceInv

LEMMA EnqueuePlace ==
  ASSUME TypeOK, PlaceInv, NEW t \in Tasks, Enqueue(t)
  PROVE  PlaceInv'
<1>1. /\ push[t] = "reserved" /\ ~Pushed(t)
      /\ tasks' = Append(tasks, t)
      /\ push' = [push EXCEPT ![t] = "appended"]
      /\ UNCHANGED <<pc, held, ran, reported, phase>>
  BY DEF Enqueue, Goes, Pushed, pool, exit, nestVars
<1>2. \A u \in Tasks : Pushed(u) => Pushed(u)'
  BY <1>1 DEF TypeOK, Pushed
<1>3. Pushed(t)'
  BY <1>1 DEF TypeOK, Pushed
<1>4. Range(tasks') = Range(tasks) \cup {t} /\ Distinct(tasks')
  BY <1>1, AppendAddsOne DEF TypeOK, PlaceInv, QueueInv
<1>5. ran[t] = 0 /\ \A w \in Workers : held[w] # t
  BY <1>1, SetsAssumption DEF TypeOK, PlaceInv, HandInv, LeftInv
<1>6. QueueInv'
  BY <1>1, <1>2, <1>3, <1>4, <1>5, QueueIn DEF PlaceInv, QueueInv
<1>7. HandInv'
  BY <1>1, <1>2 DEF PlaceInv, HandInv, TypeOK
<1>8. LeftInv'
  BY <1>1, <1>2 DEF PlaceInv, LeftInv, TypeOK
<1> QED  BY <1>6, <1>7, <1>8 DEF PlaceInv

LEMMA PopPlace ==
  ASSUME TypeOK, CloseInv, PlaceInv, NEW w \in Workers, WorkerPop(w)
  PROVE  /\ PlaceInv'
         /\ \E t \in Range(tasks) :
              /\ held[w] = NoTask /\ held' = [held EXCEPT ![w] = t]
              /\ Range(tasks') = Range(tasks) \ {t}
<1>1. PICK t : t = Pick(tasks)
  OBVIOUS
<1>2. /\ t \in Range(tasks) /\ t \in Tasks
      /\ Range(tasks') = Range(tasks) \ {t} /\ Distinct(tasks')
      /\ held' = [held EXCEPT ![w] = t]
  BY <1>1, PopTakesOne, QueueIn DEF TypeOK, PlaceInv, QueueInv, WorkerPop
<1>3. /\ held[w] = NoTask /\ t # NoTask
      /\ UNCHANGED <<push, ran, reported, phase>>
      /\ pc' = [pc EXCEPT ![w] = "popped"]
  BY <1>2, SetsAssumption DEF CloseInv, HoldInv, WorkerPop, At, exit, nestVars
<1>4. Pushed(t) /\ ran[t] = 0 /\ \A v \in Workers : held[v] # t
  BY <1>2 DEF PlaceInv, QueueInv
<1>5. \A v \in Workers : held'[v] = IF v = w THEN t ELSE held[v]
  BY <1>2 DEF TypeOK
<1>6. QueueInv'
  BY <1>2, <1>3, <1>4, <1>5 DEF PlaceInv, QueueInv, Pushed
<1>7. HandInv'
  <2>1. ASSUME NEW v \in Workers, held'[v] # NoTask
        PROVE  Pushed(held[v])' /\ ran'[held'[v]] = 0
    <3>1. CASE v = w
      BY <1>3, <1>4, <1>5, <3>1 DEF Pushed
    <3>2. CASE v # w
      BY <1>3, <1>5, <2>1, <3>2 DEF PlaceInv, HandInv, Pushed
    <3> QED  BY <3>1, <3>2
  <2>2. ASSUME NEW v \in Workers, pc'[v] \in {"popped", "running"}
        PROVE  held'[v] # NoTask
    BY <1>3, <1>5, <2>2 DEF PlaceInv, HandInv, TypeOK
  <2>3. ASSUME NEW u \in Workers, NEW v \in Workers, held'[u] = held'[v],
               held'[v] # NoTask
        PROVE  u = v
    BY <1>3, <1>4, <1>5, <2>3 DEF PlaceInv, HandInv
  <2> QED  BY <2>1, <2>2, <2>3 DEF HandInv
<1>8. LeftInv'
  BY <1>3 DEF PlaceInv, LeftInv, Pushed
<1> QED  BY <1>2, <1>3, <1>6, <1>7, <1>8 DEF PlaceInv

LEMMA EndPlace ==
  ASSUME TypeOK, PlaceInv, NEW w \in Workers, JobEnd(w)
  PROVE  PlaceInv'
<1>1. PICK t \in Tasks : t = held[w]
  BY DEF TypeOK, PlaceInv, HandInv, JobEnd
<1>2. t # NoTask /\ Pushed(t) /\ ran[t] = 0
  BY <1>1, SetsAssumption DEF PlaceInv, HandInv
<1>3. /\ ran' = [ran EXCEPT ![t] = @ + 1]
      /\ held' = [held EXCEPT ![w] = NoTask]
      /\ pc' = [pc EXCEPT ![w] = "idle"]
      /\ UNCHANGED <<tasks, push, reported, phase>>
  BY <1>1 DEF JobEnd, At, exit, nestVars
<1>4. t \notin Range(tasks)
  BY <1>1 DEF PlaceInv, QueueInv
<1>5. \A v \in Workers : held'[v] = IF v = w THEN NoTask ELSE held[v]
  BY <1>3 DEF TypeOK
<1>6. \A u \in Tasks : u # t => ran'[u] = ran[u]
  BY <1>3 DEF TypeOK
<1>7. \A v \in Workers : v # w => held[v] # t
  BY <1>1, <1>2 DEF PlaceInv, HandInv
<1>8. QueueInv'
  BY <1>3, <1>4, <1>5, <1>6, QueueIn, SetsAssumption DEF PlaceInv, QueueInv, Pushed
<1>9. HandInv'
  BY <1>3, <1>5, <1>6, <1>7 DEF PlaceInv, HandInv, Pushed, TypeOK
<1>10. LeftInv'
  BY <1>2, <1>3, <1>6 DEF PlaceInv, LeftInv, Pushed
<1> QED  BY <1>8, <1>9, <1>10 DEF PlaceInv

LEMMA AfterPlace ==
  ASSUME TypeOK, PlaceInv, AfterHook
  PROVE  PlaceInv'
<1>1. /\ UNCHANGED <<tasks, push, pc, held, ran>>
      /\ phase' = "done" /\ reported' = Range(tasks)
  BY DEF AfterHook, nest!CloseDone, pool
<1>2. QueueInv' /\ HandInv'
  BY <1>1 DEF PlaceInv, QueueInv, HandInv, Pushed
<1>3. LeftInv'
  BY <1>1 DEF PlaceInv, QueueInv, LeftInv, Pushed
<1> QED  BY <1>2, <1>3 DEF PlaceInv

(* The other steps move no task; nor does where the tasks are, as the        *)
(* abstract pool sees it, change with them.                                  *)
Aside == /\ UNCHANGED <<tasks, held, ran, reported>>
         /\ \A t \in Tasks : Pushed(t) => Pushed(t)'
         /\ phase = "done" => phase' = "done"
         /\ \A w \in Workers : pc'[w] \in {"popped", "running"} =>
                                 pc[w] \in {"popped", "running"}

LEMMA PushAside ==
  ASSUME TypeOK, NEW t \in Tasks,
         \/ PushRefused(t) \/ PushAdmitted(t) \/ Reserve(t) \/ ReserveFull(t)
         \/ PushBroadcast(t)
  PROVE  Aside /\ UNCHANGED <<phase, timedOut>>
<1>1. UNCHANGED <<tasks, held, ran, reported, phase, timedOut>>
  BY DEF PushRefused, PushAdmitted, Reserve, ReserveFull, PushBroadcast, pool,
         exit, nestVars
<1>2. (~Pushed(t) \/ push'[t] = "ok") /\ \A u \in Tasks : u # t => push'[u] = push[u]
  BY DEF PushRefused, PushAdmitted, Reserve, ReserveFull, PushBroadcast, Goes,
         Pushed, TypeOK
<1>3. pc' = pc \/ WakeAll
  BY DEF PushRefused, PushAdmitted, Reserve, ReserveFull, PushBroadcast, pool
<1> QED  BY <1>1, <1>2, <1>3 DEF Aside, Pushed, WakeAll, TypeOK

LEMMA WorkerAside ==
  ASSUME TypeOK, NEW w \in Workers,
         WorkerLocked(w) \/ WorkerWait(w) \/ JobStart(w)
  PROVE  Aside /\ UNCHANGED <<phase, timedOut>>
<1>1. UNCHANGED <<tasks, push, held, ran, reported, phase, timedOut>>
  BY DEF WorkerLocked, WorkerExit, WorkerTest, WorkerWait, JobStart, exit,
         nestVars, nest!Return
<1>2. \E at \in WorkerPcs : At(w, at) /\ (at \in {"popped", "running"} =>
                                            pc[w] = "popped")
  BY DEF WorkerLocked, WorkerExit, WorkerTest, WorkerWait, JobStart, WorkerPcs,
         LockPcs
<1> QED  BY <1>1, <1>2 DEF Aside, Pushed, At, TypeOK

LEMMA CallAside ==
  ASSUME TypeOK,
         \/ \E r \in Runners : RunEnter(r) \/ RunStep(r)
         \/ \E c \in Closers : CloseEnter(c) \/ CloseReturn(c)
         \/ ParentCancel \/ HookBroadcast \/ HookTimeout
  PROVE  Aside /\ UNCHANGED <<phase, timedOut>>
<1>1. ASSUME NEW r \in Runners, RunEnter(r) \/ RunStep(r)
      PROVE  Aside /\ UNCHANGED <<phase, timedOut>>
  <2>1. UNCHANGED <<tasks, push, held, ran, reported, phase, timedOut>>
    BY <1>1 DEF RunEnter, RunStep, RunCreate, RunSpawn, RunReturn, pool, calls,
                exit, nestVars, nest!Spawn, nest!SpawnRefused, nest!nestVars
  <2>2. pc' = pc \/ \E w \in Workers : At(w, "idle")
    BY <1>1 DEF RunEnter, RunStep, RunCreate, RunSpawn, RunReturn, pool
  <2> QED  BY <2>1, <2>2 DEF Aside, Pushed, At, TypeOK
<1>2. ASSUME NEW c \in Closers, CloseEnter(c) \/ CloseReturn(c)
      PROVE  Aside /\ UNCHANGED <<phase, timedOut>>
  BY <1>2 DEF CloseEnter, CloseReturn, pool, exit, nestVars, Aside, Pushed
<1>3. CASE ParentCancel \/ HookBroadcast \/ HookTimeout
  <2>1. UNCHANGED <<tasks, push, held, ran, reported, phase, timedOut>>
    BY <1>3 DEF ParentCancel, HookBroadcast, HookTimeout, nest!InheritedDone,
                pool, exit, nestVars
  <2>2. pc' = pc \/ WakeAll
    BY <1>3 DEF ParentCancel, HookBroadcast, HookTimeout, pool
  <2> QED  BY <2>1, <2>2 DEF Aside, Pushed, WakeAll, TypeOK
<1> QED  BY <1>1, <1>2, <1>3

LEMMA NestAside ==
  ASSUME TypeOK,
         \/ \E c \in Closers : CloseCancel(c)
         \/ WatcherCancel \/ BeforeHook \/ WaitWorkers \/ WaitExpires
  PROVE  Aside
BY DEF CloseCancel, WatcherCancel, BeforeHook, WaitWorkers, WaitExpires,
       nest!BeginCancel, nest!CancelDispatched, nest!Drained, nest!Expire, pool,
       exit, Aside, Pushed

LEMMA PlaceStep == TypeOK /\ CloseInv /\ PlaceInv /\ [Next]_vars => PlaceInv'
<1> SUFFICES ASSUME TypeOK, CloseInv, PlaceInv, [Next]_vars PROVE PlaceInv'
  OBVIOUS
<1>1. Aside => PlaceInv'
  BY PlaceAside DEF Aside
<1>2. UNCHANGED vars => Aside
  BY DEF vars, pool, exit, nestVars, Aside, Pushed
<1> QED
  BY <1>1, <1>2, PushAside, WorkerAside, CallAside, NestAside, EnqueuePlace,
     PopPlace, EndPlace, AfterPlace
  DEF Next, PushStep, WorkerStep, CloseStep, NestStep

SafeInv == TypeOK /\ CountInv /\ CloseInv /\ PlaceInv

LEMMA SafeInductive == Spec => []SafeInv
<1>1. Init => PlaceInv
  <2> SUFFICES ASSUME Init PROVE QueueInv /\ HandInv /\ LeftInv
    BY DEF PlaceInv
  <2>1. Range(tasks) = {} /\ Distinct(tasks)
    BY DEF Init, Range, Distinct
  <2> QED  BY <2>1 DEF Init, QueueInv, HandInv, LeftInv
<1>2. Spec => []PlaceInv
  BY <1>1, PlaceStep, CloseInductive, PTL DEF Spec
<1> QED  BY <1>2, CountInductive, CloseInductive, PTL DEF SafeInv

-----------------------------------------------------------------------------
(* The abstract pool.  Where it sees a task, in terms of the invariant.      *)
LEMMA SameCardinality == \A S : jobPool!Cardinality(S) = Cardinality(S)
BY DEF jobPool!Cardinality, Cardinality

LEMMA PlaceType == place \in [Tasks -> jobPool!Places]
BY DEF place, jobPool!Places

(* A worker holds at most one task, and one of them holds none.              *)
LEMMA FreeWorker ==
  ASSUME TypeOK, NEW w \in Workers, held[w] = NoTask
  PROVE  Cardinality(jobPool!In("run")) < Cardinality(Workers)
<1> DEFINE R == jobPool!In("run")
           B == {v \in Workers : held[v] # NoTask}
           f == [v \in B |-> held[v]]
<1>1. B \in SUBSET (Workers \ {w})
  OBVIOUS
<1>2. /\ IsFiniteSet(Workers \ {w})
      /\ Cardinality(Workers \ {w}) = Cardinality(Workers) - 1
  BY SetsAssumption, FS_RemoveElement
<1>3. IsFiniteSet(B) /\ Cardinality(B) <= Cardinality(Workers \ {w})
  BY <1>1, <1>2, FS_Subset
<1>4. \A t \in R : \E v \in B : held[v] = t
  BY SetsAssumption DEF jobPool!In, place
<1>5. \A v \in B : held[v] \in R
  BY DEF TypeOK, jobPool!In, place
<1>6. f \in Surjection(B, R)
  BY <1>4, <1>5 DEF Surjection
<1>7. IsFiniteSet(R) /\ Cardinality(R) <= Cardinality(B)
  <2> HIDE DEF R, B, f
  <2> QED  BY <1>3, <1>6, FS_Surjection
<1>8. /\ Cardinality(R) \in Nat /\ Cardinality(B) \in Nat
      /\ Cardinality(Workers) \in Nat
  <2> HIDE DEF R, B
  <2> QED  BY <1>3, <1>7, SetsAssumption, FS_CardinalityType
<1> HIDE DEF R, B
<1>9. Cardinality(R) < Cardinality(Workers)
  BY <1>2, <1>3, <1>7, <1>8
<1> QED  BY <1>9 DEF R

(* The tasks in the queue are no more than it is long.                       *)
LEMMA WaitingBound ==
  ASSUME TypeOK
  PROVE  Cardinality(jobPool!In("in")) <= Len(tasks)
<1> DEFINE n == Len(tasks)
           R == Range(tasks)
           I == jobPool!In("in")
<1>1. n \in Nat /\ DOMAIN tasks = 1..n
  BY DEF TypeOK
<1>2. tasks \in Surjection(1..n, R)
  BY <1>1 DEF TypeOK, Surjection, Range
<1>3. IsFiniteSet(1..n) /\ Cardinality(1..n) = n
  <2> HIDE DEF n
  <2> QED  BY <1>1, FS_Interval
<1>4. IsFiniteSet(R) /\ Cardinality(R) <= n
  <2> HIDE DEF n, R
  <2> QED  BY <1>2, <1>3, FS_Surjection
<1>5. I \in SUBSET R
  BY DEF jobPool!In, place
<1>6. IsFiniteSet(I) /\ Cardinality(I) <= Cardinality(R)
  <2> HIDE DEF n, R, I
  <2> QED  BY <1>4, <1>5, FS_Subset
<1>7. Cardinality(I) \in Nat /\ Cardinality(R) \in Nat
  <2> HIDE DEF n, R, I
  <2> QED  BY <1>4, <1>6, FS_CardinalityType
<1> HIDE DEF n, R, I
<1>8. Cardinality(I) <= n
  BY <1>1, <1>4, <1>6, <1>7
<1> QED  BY <1>8 DEF I, n

LEMMA PlaceSame ==
  ASSUME UNCHANGED <<tasks, held, ran, reported>>
  PROVE  place' = place
BY DEF place

LEMMA EnqueueEnters ==
  ASSUME SafeInv, NEW t \in Tasks, Enqueue(t)
  PROVE  jobPool!Enter(t)
<1>0. TypeOK /\ PlaceInv /\ CountInv
  BY DEF SafeInv
<1>1. /\ push[t] = "reserved" /\ ~Pushed(t) /\ t \in Reserved
      /\ tasks' = Append(tasks, t)
      /\ UNCHANGED <<held, ran, reported, phase, timedOut>>
  BY DEF Enqueue, Pushed, Reserved, pool, exit, nestVars
<1>2. Range(tasks') = Range(tasks) \cup {t}
  BY <1>0, <1>1, AppendAddsOne DEF TypeOK
<1>3. /\ \A w \in Workers : held[w] # t
      /\ ~(ran[t] > 0) /\ t \notin reported /\ t \notin Range(tasks)
  BY <1>0, <1>1, SetsAssumption DEF PlaceInv, QueueInv, HandInv, LeftInv, TypeOK
<1>4. place[t] = "out"
  BY <1>3 DEF place
<1>5. place' = [place EXCEPT ![t] = "in"]
  BY <1>1, <1>2, <1>3 DEF place
<1>6. MaxPending < 0 \/ Cardinality(jobPool!In("in")) < MaxPending
  <2> SUFFICES ASSUME MaxPending >= 0
               PROVE  Cardinality(jobPool!In("in")) < MaxPending
    BY OptionsAssumption
  <2>1. Cardinality(Reserved) >= 1
    <3>1. Cardinality(Reserved \ {t}) = Cardinality(Reserved) - 1
      BY <1>1, Finite, FS_RemoveElement
    <3>2. Cardinality(Reserved \ {t}) \in Nat
      BY Finite, FS_RemoveElement, FS_CardinalityType
    <3> QED  BY <3>1, <3>2, Finite
  <2>2. pending <= MaxPending
           /\ pending = Len(tasks) + Cardinality(Reserved) + Cardinality(Popped)
    BY <1>0 DEF CountInv, PendingExact, PendingBound
  <2>3. Len(tasks) \in Nat /\ pending \in Int
    BY <1>0 DEF TypeOK
  <2>4. Len(tasks) < MaxPending
    BY <2>1, <2>2, <2>3, Finite, OptionsAssumption
  <2>5. Cardinality(jobPool!In("in")) \in Nat
    <3>1. jobPool!In("in") \in SUBSET Tasks
      BY DEF jobPool!In
    <3> QED  BY <3>1, SetsAssumption, FS_Subset, FS_CardinalityType
  <2> QED  BY <1>0, <2>3, <2>4, <2>5, WaitingBound, OptionsAssumption
<1>7. UNCHANGED <<life, timedOut>>
  BY <1>1 DEF life
<1> QED  BY <1>4, <1>5, <1>6, <1>7, SameCardinality DEF jobPool!Enter, jobPool!Moves

LEMMA PopBegins ==
  ASSUME SafeInv, NEW w \in Workers, WorkerPop(w)
  PROVE  \E t \in Tasks : jobPool!Begin(t)
<1>0. TypeOK /\ PlaceInv /\ CloseInv
  BY DEF SafeInv
<1>1. PICK t \in Range(tasks) :
        /\ held[w] = NoTask /\ held' = [held EXCEPT ![w] = t]
        /\ Range(tasks') = Range(tasks) \ {t}
  BY <1>0, PopPlace
<1>2. t \in Tasks /\ t # NoTask
  BY <1>0, QueueIn, SetsAssumption
<1>3. ran[t] = 0 /\ \A v \in Workers : held[v] # t
  BY <1>0 DEF PlaceInv, QueueInv
<1>4. UNCHANGED <<ran, reported, phase, timedOut>>
  BY DEF WorkerPop, exit, nestVars
<1>5. \A v \in Workers : held'[v] = IF v = w THEN t ELSE held[v]
  BY <1>0, <1>1 DEF TypeOK
<1>6. place[t] \in {"in", "left"} /\ (place[t] = "left" => phase = "done")
  BY <1>0, <1>2, <1>3 DEF place, PlaceInv, LeftInv
<1>7. timedOut \/ phase # "done"
  BY <1>0 DEF CloseInv, GroupInv, DrainInv, WorkerPop, TypeOK
<1>8. place' = [place EXCEPT ![t] = "run"]
  <2>1. place'[t] = "run"
    BY <1>2, <1>5 DEF place
  <2>2. ASSUME NEW u \in Tasks, u # t PROVE place'[u] = place[u]
    <3>1. (\E v \in Workers : held'[v] = u) <=> (\E v \in Workers : held[v] = u)
      BY <1>1, <1>5, <2>2, SetsAssumption
    <3>2. u \in Range(tasks') <=> u \in Range(tasks)
      BY <1>1, <2>2
    <3> QED  BY <1>4, <3>1, <3>2 DEF place
  <2>3. place' \in [Tasks -> jobPool!Places] /\ place \in [Tasks -> jobPool!Places]
    <3>1. place \in [Tasks -> jobPool!Places]
      BY PlaceType
    <3>2. place' \in [Tasks -> jobPool!Places]
      BY DEF place, jobPool!Places
    <3> QED  BY <3>1, <3>2
  <2> QED  BY <2>1, <2>2, <2>3
<1>9. UNCHANGED <<life, timedOut>> /\ (life = "closed" => phase = "done")
  BY <1>4 DEF life
<1>10. Cardinality(jobPool!In("run")) < Cardinality(Workers)
  BY <1>0, <1>1, FreeWorker
<1>11. \/ place[t] = "in" /\ life # "closed"
       \/ place[t] \in {"in", "left"} /\ timedOut
  BY <1>6, <1>7, <1>9
<1> QED  BY <1>2, <1>8, <1>9, <1>10, <1>11, SameCardinality
         DEF jobPool!Begin, jobPool!Moves

LEMMA JobEnds ==
  ASSUME SafeInv, NEW w \in Workers, JobEnd(w)
  PROVE  \E t \in Tasks : jobPool!End(t)
<1>0. TypeOK /\ PlaceInv
  BY DEF SafeInv
<1>1. PICK t \in Tasks : t = held[w]
  BY <1>0 DEF TypeOK, PlaceInv, HandInv, JobEnd
<1>2. /\ ran' = [ran EXCEPT ![t] = @ + 1]
      /\ held' = [held EXCEPT ![w] = NoTask]
      /\ UNCHANGED <<tasks, reported, phase, timedOut>>
  BY <1>1 DEF JobEnd, exit, nestVars
<1>3. t # NoTask /\ \A v \in Workers : v # w => held[v] # t
  BY <1>0, <1>1, SetsAssumption DEF PlaceInv, HandInv
<1>4. \A v \in Workers : held'[v] = IF v = w THEN NoTask ELSE held[v]
  BY <1>0, <1>2 DEF TypeOK
<1>5. ran'[t] > 0 /\ \A u \in Tasks : u # t => ran'[u] = ran[u]
  BY <1>0, <1>2 DEF TypeOK
<1>6. place[t] = "run"
  BY <1>1 DEF place
<1>7. place' = [place EXCEPT ![t] = "done"]
  <2>1. place'[t] = "done"
    BY <1>3, <1>4, <1>5 DEF place
  <2>2. ASSUME NEW u \in Tasks, u # t PROVE place'[u] = place[u]
    <3>1. (\E v \in Workers : held'[v] = u) <=> (\E v \in Workers : held[v] = u)
      BY <1>1, <1>4, <2>2, SetsAssumption
    <3> QED  BY <1>2, <1>5, <2>2, <3>1 DEF place
  <2>3. place \in [Tasks -> jobPool!Places]
    BY PlaceType
  <2>4. place' \in [Tasks -> jobPool!Places]
    BY DEF place, jobPool!Places
  <2> QED  BY <2>1, <2>2, <2>3, <2>4
<1>8. UNCHANGED <<life, timedOut>>
  BY <1>2 DEF life
<1> QED  BY <1>6, <1>7, <1>8 DEF jobPool!End, jobPool!Moves

(* The steps of the nest open, close and give up; the after hook leaves all  *)
(* that is queued over.                                                      *)
LEMMA NestCloses ==
  ASSUME SafeInv,
         \/ \E c \in Closers : CloseCancel(c)
         \/ WatcherCancel \/ BeforeHook \/ WaitWorkers \/ WaitExpires
  PROVE  jobPool!Stop \/ jobPool!GiveUp \/ UNCHANGED <<life, timedOut, place>>
<1>1. place' = place
  BY NestAside, PlaceSame DEF SafeInv, Aside
<1>2. CASE WatcherCancel \/ \E c \in Closers : CloseCancel(c)
  <2>1. phase = "open" /\ phase' = "before" /\ timedOut' = timedOut
    BY <1>2 DEF CloseCancel, WatcherCancel, nest!BeginCancel
  <2> QED  BY <1>1, <2>1 DEF life, jobPool!Stop
<1>3. CASE BeforeHook \/ WaitWorkers
  <2>1. /\ phase \in {"before", "draining"} /\ phase' \in {"draining", "after"}
        /\ timedOut' = timedOut
    BY <1>3 DEF BeforeHook, WaitWorkers, nest!CancelDispatched, nest!Drained
  <2> QED  BY <1>1, <2>1 DEF life
<1>4. CASE WaitExpires
  <2>1. phase = "draining" /\ phase' = "after" /\ timedOut' = TRUE
    BY <1>4 DEF WaitExpires, nest!Expire
  <2> QED  BY <1>1, <2>1 DEF life, jobPool!GiveUp
<1> QED  BY <1>2, <1>3, <1>4

LEMMA AfterHookCloses ==
  ASSUME SafeInv, AfterHook
  PROVE  jobPool!Closed
<1>0. TypeOK /\ PlaceInv /\ CloseInv
  BY DEF SafeInv
<1>1. /\ phase = "after" /\ phase' = "done" /\ reported' = Range(tasks)
      /\ UNCHANGED <<tasks, held, ran, timedOut>>
  BY DEF AfterHook, nest!CloseDone, pool
<1>2. life = "closing" /\ life' = "closed"
  BY <1>1 DEF life
<1>3. jobPool!In("run") = {} \/ timedOut
  <2> SUFFICES ASSUME ~timedOut, NEW t \in Tasks, NEW w \in Workers, held[w] = t
               PROVE  FALSE
    BY <1>0 DEF jobPool!In, place, TypeOK
  <2>1. pc[w] \in {"popped", "running"}
    BY <1>0, SetsAssumption DEF CloseInv, HoldInv
  <2> QED  BY <1>0, <1>1, <2>1 DEF CloseInv, GroupInv, DrainInv
<1>4. reported = {}
  BY <1>0, <1>1 DEF PlaceInv, LeftInv
<1>5. \A t \in Tasks : (t \in jobPool!In("in") <=> t \in Range(tasks))
  BY <1>0, <1>4 DEF jobPool!In, place, PlaceInv, QueueInv
<1>6. place' = [t \in Tasks |-> IF t \in jobPool!In("in") THEN "left" ELSE place[t]]
  <2>1. ASSUME NEW t \in Range(tasks) PROVE place'[t] = "left"
    BY <1>0, <1>1, QueueIn DEF PlaceInv, QueueInv, place
  <2>2. ASSUME NEW t \in Tasks, t \notin Range(tasks) PROVE place'[t] = place[t]
    BY <1>1, <1>4, <2>2 DEF place
  <2>3. place' = [t \in Tasks |-> place'[t]]
    BY DEF place
  <2> QED  BY <1>5, <2>1, <2>2, <2>3
<1>7. \E S \in SUBSET jobPool!In("in") : jobPool!Leaves(S)
  BY <1>6 DEF jobPool!Leaves
<1> QED  BY <1>1, <1>2, <1>3, <1>7 DEF jobPool!Closed

(* The scheduler implements the abstract job pool: every execution, of any   *)
(* number of pushers, workers and closers, is one of JobPool's.              *)
THEOREM Implements == Spec => Contract
<1>1. Init => jobPool!PoolInit
  <2> SUFFICES ASSUME Init PROVE jobPool!PoolInit
    OBVIOUS
  <2>1. life = "open" /\ timedOut = FALSE
    BY DEF Init, nest!NestInit, life
  <2>2. place = [t \in Tasks |-> "out"]
    <3>1. Range(tasks) = {} /\ reported = {} /\ ran = [t \in Tasks |-> 0]
      BY DEF Init, Range
    <3>2. \A w \in Workers, t \in Tasks : held[w] # t
      BY SetsAssumption DEF Init
    <3> QED  BY <3>1, <3>2 DEF place
  <2> QED  BY <2>1, <2>2 DEF jobPool!PoolInit
<1>2. SafeInv /\ [Next]_vars => [jobPool!PoolNext]_(jobPool!poolVars)
  <2> SUFFICES ASSUME SafeInv, [Next]_vars
               PROVE  jobPool!PoolNext \/ UNCHANGED <<life, timedOut, place>>
    BY DEF jobPool!poolVars
  <2>1. Aside /\ UNCHANGED <<phase, timedOut>> => UNCHANGED <<life, timedOut, place>>
    BY PlaceSame DEF Aside, life
  <2>2. UNCHANGED vars => UNCHANGED <<life, timedOut, place>>
    BY PlaceSame DEF vars, pool, exit, nestVars, life
  <2>3. ASSUME NEW t \in Tasks, PushRefused(t) \/ PushAdmitted(t) \/ PushStep(t)
        PROVE  jobPool!PoolNext \/ UNCHANGED <<life, timedOut, place>>
    BY <2>1, <2>3, PushAside, EnqueueEnters DEF SafeInv, PushStep, jobPool!PoolNext
  <2>4. ASSUME NEW w \in Workers, WorkerLocked(w) \/ WorkerStep(w) \/ JobEnd(w)
        PROVE  jobPool!PoolNext \/ UNCHANGED <<life, timedOut, place>>
    BY <2>1, <2>4, WorkerAside, PopBegins, JobEnds
    DEF SafeInv, WorkerStep, jobPool!PoolNext
  <2>5. ASSUME \/ \E r \in Runners : RunEnter(r) \/ RunStep(r)
               \/ \E c \in Closers : CloseEnter(c) \/ CloseReturn(c)
               \/ ParentCancel \/ HookBroadcast \/ HookTimeout
        PROVE  UNCHANGED <<life, timedOut, place>>
    BY <2>1, <2>5, CallAside DEF SafeInv
  <2>6. ASSUME \/ \E c \in Closers : CloseCancel(c)
               \/ WatcherCancel \/ BeforeHook \/ WaitWorkers \/ WaitExpires
        PROVE  jobPool!PoolNext \/ UNCHANGED <<life, timedOut, place>>
    BY <2>6, NestCloses DEF jobPool!PoolNext
  <2>7. ASSUME AfterHook PROVE jobPool!PoolNext
    BY <2>7, AfterHookCloses DEF jobPool!PoolNext
  <2> QED  BY <2>2, <2>3, <2>4, <2>5, <2>6, <2>7 DEF Next, CloseStep, NestStep
<1> QED  BY <1>1, <1>2, SafeInductive, PTL DEF Spec, Contract, jobPool!PoolSpec
=============================================================================
