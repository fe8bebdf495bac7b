---------------------------- MODULE PipelineProofs ----------------------------
(***************************************************************************)
(* Proofs about Pipeline, for any items, stages, workers and callers.      *)
(***************************************************************************)
EXTENDS Pipeline, FiniteSetTheorems, WellFoundedInduction, TLAPS

-----------------------------------------------------------------------------
(* The types, of the control, the scheduler and the stages.                  *)
ControlOK ==
  /\ lifetime \in Lifetimes /\ stopping \in BOOLEAN
  /\ built \in {"none", "sche", "nest"} /\ run \in RunPcs
  /\ shut \in ShutPcs /\ closed \in BOOLEAN /\ cut \in 0..(N + 1)
  /\ parentDone \in BOOLEAN
  /\ closer \in [Closers -> CloserPcs]

NestOK ==
  /\ phase \in nest!Phases /\ wg \subseteq Pumps /\ dispatched \in BOOLEAN
  /\ cause \in {{}, {"closed"}, {"parent"}, {"abort"}} /\ timedOut \in BOOLEAN

ScheOK ==
  /\ queue \in Seq(Items) /\ pool \in PoolPcs /\ straggler \in BOOLEAN
  /\ work \in [Workers -> Items \cup {NoItem}]
  /\ drive \in [Workers -> DrivePcs]
  /\ outcome \in [Workers -> Outcomes \cup {"none"}]
  /\ res \in [Items -> Outcomes \cup {"none", "SCHEDULER_CANCELED"}]

StagesOK ==
  /\ ticket \in [Items -> {"none", "out", "failed"}]
  /\ slot \in [Links -> Items \cup {NoItem}]
  /\ stopped \subseteq Links
  /\ pump \in [Pumps -> PumpPcs]
  /\ hold \in [Pumps -> Items \cup {NoItem}]
  /\ passed \in [Stages -> SUBSET Items]

PushOK == push \in [Items -> PushPcs]

(* A pump has an item exactly between its pull and its send, ...             *)
HoldInv == \A k \in Pumps : IF pump[k] \in {"job", "send"} THEN hold[k] \in Items
                                                           ELSE hold[k] = NoItem

(* ... and a worker from its take to its finish, which stores an outcome.    *)
DriveInv == \A w \in Workers :
              /\ drive[w] # "idle" => work[w] \in Items
              /\ drive[w] = "finish" => outcome[w] \in Outcomes

(* A scheduler that is not running any more queues only what is settled, and *)
(* closes, but for a timeout, only when its workers are idle.                *)
PoolInv == /\ pool \in {"closing", "closed"} => \A j \in DOMAIN queue : Settled(queue[j])
           /\ straggler => pool \in {"closing", "closed"}
           /\ pool = "closed" /\ ~HasTimeout => \A w \in Workers : drive[w] = "idle"
           /\ pool = "closed" /\ ~HasTimeout => ~straggler

StageInv == StagesOK /\ HoldInv
ScheInv == ScheOK /\ DriveInv /\ PoolInv

(* What Push has accepted is queued, in the hands of a worker, or settled.   *)
InQueue(i) == \E j \in DOMAIN queue : queue[j] = i
InWork(i) == \E w \in Workers : drive[w] # "idle" /\ work[w] = i
AcceptInv == \A i \in Items : push[i] = "ok" => Settled(i) \/ InQueue(i) \/ InWork(i)

(* Nothing is accepted before Run has published, with its scheduler started. *)
RunInv == /\ lifetime = "Running" => run = "ok"
          /\ run \in {"idle", "begun", "spawning", "starting"} => pool \in {"none", "new"}
          /\ run \in {"publishing", "ok"} => pool \in {"running", "closing", "closed"}
          /\ \A i \in Items : push[i] \in {"admitted", "ok"} => run = "ok"

(* The shutdown sets lifetime first, and so outruns Run or finds a scheduler *)
(* it waits for; the nest goes on to cancel its pumps only after it.         *)
ShutInv == /\ shut # "no" => lifetime = "Closed"
           /\ shut = "join" /\ run = "ok" => pool \in {"closing", "closed"}
           /\ shut = "done" /\ run = "ok" => pool = "closed"
           /\ phase \in {"draining", "after", "done"} => shut = "done"

(* The nest counts every pump, and Close returns nil only past its wait.     *)
WaitInv == /\ \A k \in Pumps : pump[k] \in {"none", "exited"} \/ k \in wg
           /\ phase \in {"after", "done"} => timedOut \/ wg = {}
           /\ \A c \in Closers : closer[c] = "nil" => phase = "done" /\ ~timedOut

Inv == /\ ControlOK /\ NestOK /\ PushOK /\ StageInv /\ ScheInv
       /\ AcceptInv /\ RunInv /\ ShutInv /\ WaitInv

LEMMA TypeSplit ==
  TypeOK <=> ControlOK /\ NestOK /\ PushOK /\ StagesOK /\ ScheOK
BY DEF TypeOK, ControlOK, NestOK, PushOK, StagesOK, ScheOK

LEMMA InvInit == Init => Inv
<1> SUFFICES ASSUME Init PROVE Inv
  OBVIOUS
<1> USE DEF Init, nest!NestInit
<1>1. ControlOK
  <2>1. cut \in 0..(N + 1)
    BY PipelineAssumption
  <2>2. closer \in [Closers -> CloserPcs]
    BY DEF CloserPcs
  <2> QED  BY <2>1, <2>2 DEF ControlOK, Lifetimes, RunPcs, ShutPcs
<1>2. NestOK /\ PushOK
  BY DEF NestOK, nest!Phases, PushOK, PushPcs
<1>3. StageInv
  <2>1. StagesOK
    BY DEF StagesOK, PumpPcs, Stages
  <2>2. HoldInv
    BY DEF HoldInv
  <2> QED  BY <2>1, <2>2 DEF StageInv
<1>4. ScheInv
  <2>1. ScheOK /\ DriveInv
    <3>1. straggler \in BOOLEAN
      BY Zenon
    <3>2. /\ queue \in Seq(Items)
          /\ work \in [Workers -> Items \cup {NoItem}]
          /\ outcome \in [Workers -> Outcomes \cup {"none"}]
          /\ res \in [Items -> Outcomes \cup {"none", "SCHEDULER_CANCELED"}]
      OBVIOUS
    <3>3. /\ pool \in PoolPcs /\ drive \in [Workers -> DrivePcs]
          /\ \A w \in Workers : drive[w] = "idle"
      BY DEF PoolPcs, DrivePcs
    <3> QED  BY <3>1, <3>2, <3>3 DEF ScheOK, DriveInv
  <2>2. /\ pool = "none"
        /\ ~straggler
    BY Zenon
  <2>3. PoolInv
    BY <2>2 DEF PoolInv
  <2> QED  BY <2>1, <2>3 DEF ScheInv
<1>5. AcceptInv /\ RunInv /\ ShutInv /\ WaitInv
  BY DEF AcceptInv, RunInv, ShutInv, WaitInv
<1> QED  BY <1>1, <1>2, <1>3, <1>4, <1>5 DEF Inv

-----------------------------------------------------------------------------
(* What a step leaves alone stays true: of the stages, of the scheduler, of  *)
(* the rest.                                                                 *)
LEMMA StageSame == StageInv /\ UNCHANGED stages => StageInv'
BY DEF StageInv, StagesOK, HoldInv, stages

LEMMA ScheSame == ScheInv /\ UNCHANGED sche => ScheInv'
BY DEF ScheInv, ScheOK, DriveInv, PoolInv, Settled, sche

LEMMA AcceptSame == AcceptInv /\ UNCHANGED <<push, sche>> => AcceptInv'
BY DEF AcceptInv, Settled, InQueue, InWork, sche

LEMMA ControlSame == ControlOK /\ UNCHANGED <<flags, down>> => ControlOK'
BY DEF ControlOK, flags, down

LEMMA RunSame == RunInv /\ UNCHANGED <<lifetime, run, pool, push>> => RunInv'
BY DEF RunInv

LEMMA ShutSame == ShutInv /\ UNCHANGED <<shut, lifetime, run, pool, phase>> => ShutInv'
BY DEF ShutInv

LEMMA WaitSame == WaitInv /\ UNCHANGED <<pump, closer, nestVars>> => WaitInv'
BY DEF WaitInv, nestVars

LEMMA NestSame == NestOK /\ UNCHANGED nestVars => NestOK'
BY DEF NestOK, nestVars

-----------------------------------------------------------------------------
LEMMA PushInv ==
  ASSUME Inv, NEW i \in Items, PushGuard(i) \/ PushStep(i)
  PROVE  Inv'
<1>1. UNCHANGED <<flags, down, pool, straggler, work, drive, outcome, stages, nestVars>>
  BY DEF PushGuard, PushStep, PushLook, PushReady, PushRefused, PushAccepted, PushLate, sche
<1>2. ControlOK' /\ NestOK' /\ StageInv' /\ ShutInv' /\ WaitInv'
  BY <1>1, ControlSame, NestSame, StageSame, ShutSame, WaitSame
     DEF Inv, flags, down, stages, nestVars
<1>3. \E at \in PushPcs :
        /\ push' = [push EXCEPT ![i] = at]
        /\ at = "admitted" => lifetime = "Running"
        /\ at = "ok" => push[i] = "admitted"
  BY DEF PushPcs, PushGuard, PushStep, PushLook, PushReady, PushRefused, PushAccepted,
         PushLate, Goes
<1>4. PushOK'
  BY <1>3 DEF Inv, PushOK
<1>5. RunInv'
  BY <1>1, <1>3 DEF Inv, RunInv, PushOK, flags
<1>6. CASE PushGuard(i) \/ PushLook(i) \/ PushReady(i) \/ PushRefused(i)
  <2>1. UNCHANGED sche /\ \E at \in PushPcs : at # "ok" /\ push' = [push EXCEPT ![i] = at]
    BY <1>6 DEF PushGuard, PushLook, PushReady, PushRefused, Goes, PushPcs
  <2>2. AcceptInv'
    BY <2>1 DEF Inv, PushOK, AcceptInv, Settled, InQueue, InWork, sche
  <2> QED  BY <1>2, <1>4, <1>5, <2>1, <2>2, ScheSame DEF Inv
<1>7. CASE PushAccepted(i) \/ PushLate(i)
  <2>1. /\ queue' = Append(queue, i) /\ queue \in Seq(Items)
        /\ \/ pool = "running" /\ res' = res
           \/ res' = [res EXCEPT ![i] = "SCHEDULER_CANCELED"]
    BY <1>7 DEF PushAccepted, PushLate, Inv, ScheInv, ScheOK
  <2>2. /\ queue' \in Seq(Items)
        /\ \A j \in DOMAIN queue : j \in DOMAIN queue' /\ queue'[j] = queue[j]
        /\ \A j \in DOMAIN queue' : j \in DOMAIN queue \/ queue'[j] = i
        /\ \E j \in DOMAIN queue' : queue'[j] = i
    <3>1. /\ DOMAIN queue' = 1 .. (Len(queue) + 1) /\ DOMAIN queue = 1 .. Len(queue)
          /\ Len(queue) \in Nat /\ queue'[Len(queue) + 1] = i
          /\ \A j \in 1 .. Len(queue) : queue'[j] = queue[j]
      BY <2>1
    <3>2. Len(queue) + 1 \in DOMAIN queue'
      BY <3>1
    <3> QED  BY <2>1, <3>1, <3>2
  <2>3. res' \in [Items -> Outcomes \cup {"none", "SCHEDULER_CANCELED"}]
        /\ \A x \in Items : Settled(x) => Settled(x)'
    BY <2>1 DEF Inv, ScheInv, ScheOK, Settled
  <2>4. ScheInv'
    <3>1. ScheOK' /\ DriveInv'
      BY <1>1, <2>2, <2>3 DEF Inv, ScheInv, ScheOK, DriveInv
    <3>2. \A j \in DOMAIN queue : queue[j] \in Items
      BY <2>1
    <3>3. pool = "running" \/ Settled(i)'
      BY <2>1 DEF Inv, ScheInv, ScheOK, Settled
    <3> QED  BY <1>1, <2>2, <2>3, <3>1, <3>2, <3>3 DEF Inv, ScheInv, PoolInv, Settled
  <2>5. AcceptInv'
    <3> SUFFICES ASSUME NEW x \in Items, push'[x] = "ok"
                 PROVE  (Settled(x) \/ InQueue(x) \/ InWork(x))'
      BY DEF AcceptInv
    <3>1. CASE x = i
      BY <2>2, <3>1 DEF InQueue
    <3>2. CASE x # i
      <4>1. push[x] = "ok"
        BY <1>3, <3>2 DEF Inv, PushOK
      <4>2. CASE Settled(x) \/ InWork(x)
        BY <1>1, <2>3, <4>2 DEF InWork
      <4>3. CASE InQueue(x)
        BY <2>2, <4>3 DEF InQueue
      <4> QED  BY <4>1, <4>2, <4>3 DEF Inv, AcceptInv
    <3> QED  BY <3>1, <3>2
  <2> QED  BY <1>2, <1>4, <1>5, <2>4, <2>5 DEF Inv
<1> QED  BY <1>6, <1>7 DEF PushStep

-----------------------------------------------------------------------------
LEMMA WorkerInv ==
  ASSUME Inv, NEW w \in Workers, WorkerStep(w)
  PROVE  Inv'
<1>1. UNCHANGED <<flags, down, push, pool, ticket, stopped, pump, hold, passed, nestVars>>
  BY DEF WorkerStep, Take, TakeLate, DriveSent, DriveDropped, DriveEnd, Finish, stages
<1>2. ControlOK' /\ NestOK' /\ RunInv' /\ ShutInv' /\ WaitInv'
  BY <1>1, ControlSame, NestSame, RunSame, ShutSame, WaitSame
     DEF Inv, flags, down, nestVars
<1>3. PushOK'
  BY <1>1 DEF Inv, PushOK
<1> USE DEF Inv, ScheInv, ScheOK, DriveInv, PoolInv, Settled, DrivePcs, Drives
<1>4. CASE TakesHead(w) /\ (Take(w) \/ TakeLate(w))
  <2>1. /\ queue \in Seq(Items) /\ queue # <<>>
        /\ queue' = Tail(queue) /\ work' = [work EXCEPT ![w] = Head(queue)]
        /\ drive[w] = "idle" /\ UNCHANGED <<res, outcome>>
        /\ \/ pool = "running" /\ UNCHANGED straggler
           \/ straggler /\ straggler' = FALSE
    BY <1>4 DEF Take, TakeLate, TakesHead
  <2>2. drive' = [drive EXCEPT ![w] = "wait"] \/ drive' = [drive EXCEPT ![w] = "send"]
    BY <1>4 DEF TakesHead
  <2>3. /\ Head(queue) \in Items /\ Tail(queue) \in Seq(Items)
        /\ Head(queue) = queue[1]
        /\ \A j \in DOMAIN queue : j # 1 => j - 1 \in DOMAIN queue' /\ queue'[j - 1] = queue[j]
        /\ \A j \in DOMAIN queue' : j + 1 \in DOMAIN queue /\ queue'[j] = queue[j + 1]
    BY <2>1
  <2>4. ScheInv'
    <3>1. ScheOK' /\ DriveInv'
      <4>1. straggler' \in {straggler, FALSE}
        BY <1>4, Zenon DEF Take, TakeLate
      <4>2. straggler' \in BOOLEAN
        BY <4>1
      <4>3. /\ queue' \in Seq(Items)
            /\ work' \in [Workers -> Items \cup {NoItem}]
            /\ drive' \in [Workers -> DrivePcs]
            /\ DriveInv'
        BY <2>1, <2>2, <2>3
      <4> QED  BY <1>1, <2>1, <4>2, <4>3
    <3>2. ~straggler'
      <4>1. CASE pool = "running" /\ straggler' = straggler
        BY <4>1
      <4>2. CASE ~straggler'
        BY <4>2
      <4>3. (pool = "running" /\ straggler' = straggler) \/ ~straggler'
        BY <1>4, Zenon DEF Take, TakeLate
      <4> QED  BY <4>1, <4>2, <4>3
    <3>3. pool = "closed" /\ ~HasTimeout => FALSE
      BY <2>1
    <3>4. \A j \in DOMAIN queue' : Settled(queue[j + 1]) => Settled(queue[j])'
      BY <2>1, <2>3
    <3>5. pool \in {"closing", "closed"} => \A j \in DOMAIN queue' : Settled(queue[j + 1])
      BY <2>3
    <3> QED  BY <1>1, <3>1, <3>2, <3>3, <3>4, <3>5
  <2>5. AcceptInv'
    <3> SUFFICES ASSUME NEW x \in Items, push[x] = "ok"
                 PROVE  (Settled(x) \/ InQueue(x) \/ InWork(x))'
      BY <1>1 DEF AcceptInv
    <3>1. CASE Settled(x)
      BY <2>1, <3>1 DEF Settled
    <3>2. CASE InWork(x)
      BY <2>1, <2>2, <3>2 DEF InWork
    <3>3. CASE InQueue(x)
      <4>1. PICK j \in DOMAIN queue : queue[j] = x
        BY <3>3 DEF InQueue
      <4>2. CASE j = 1
        <5>1. work'[w] = x /\ drive'[w] # "idle"
          BY <2>1, <2>2, <2>3, <4>1, <4>2
        <5> QED  BY <5>1 DEF InWork
      <4>3. CASE j # 1
        BY <2>3, <4>1, <4>3 DEF InQueue
      <4> QED  BY <4>2, <4>3
    <3> QED  BY <3>1, <3>2, <3>3 DEF AcceptInv
  <2>6. StageInv'
    BY <1>4, StageSame DEF Take, TakeLate
  <2> QED  BY <1>2, <1>3, <2>4, <2>5, <2>6
<1>5. CASE DriveSent(w) \/ DriveDropped(w)
  <2>1. /\ UNCHANGED <<queue, straggler, work, outcome, res>> /\ drive[w] = "send"
        /\ drive' = [drive EXCEPT ![w] = "wait"]
    BY <1>5 DEF DriveSent, DriveDropped
  <2>2. ScheInv'
    BY <1>1, <2>1
  <2>3. AcceptInv'
    BY <1>1, <2>1 DEF AcceptInv, Settled, InQueue, InWork
  <2>4. slot' \in [Links -> Items \cup {NoItem}]
    <3>1. work[w] \in Items
      BY <2>1
    <3> QED  BY <1>5, <3>1 DEF DriveSent, DriveDropped, StageInv, StagesOK, stages
  <2>5. StageInv'
    BY <1>1, <2>4 DEF StageInv, StagesOK, HoldInv
  <2> QED  BY <1>2, <1>3, <2>2, <2>3, <2>5
<1>6. CASE DriveEnd(w)
  <2>1. PICK o \in Outcomes : outcome' = [outcome EXCEPT ![w] = o]
    BY <1>6 DEF DriveEnd
  <2>2. /\ UNCHANGED <<queue, straggler, work, res, stages>> /\ drive[w] = "wait"
        /\ drive' = [drive EXCEPT ![w] = "finish"]
    BY <1>6 DEF DriveEnd
  <2>3. ScheInv'
    BY <1>1, <2>1, <2>2
  <2>4. AcceptInv'
    BY <1>1, <2>2 DEF AcceptInv, Settled, InQueue, InWork
  <2> QED  BY <1>2, <1>3, <2>2, <2>3, <2>4, StageSame
<1>7. CASE Finish(w)
  <2>1. /\ UNCHANGED <<queue, straggler, stages>> /\ drive[w] = "finish"
        /\ work[w] \in Items /\ outcome[w] \in Outcomes
    BY <1>7 DEF Finish
  <2>2. /\ drive' = [drive EXCEPT ![w] = "idle"]
        /\ work' = [work EXCEPT ![w] = NoItem]
        /\ outcome' = [outcome EXCEPT ![w] = "none"]
    BY <1>7 DEF Finish
  <2>3. \E o \in Outcomes \cup {"SCHEDULER_CANCELED"} : res' = [res EXCEPT ![work[w]] = o]
    BY <1>7, <2>1 DEF Finish
  <2>4. ScheInv'
    BY <1>1, <2>1, <2>2, <2>3 DEF Outcomes
  <2>5. AcceptInv'
    <3> SUFFICES ASSUME NEW x \in Items, push[x] = "ok"
                 PROVE  (Settled(x) \/ InQueue(x) \/ InWork(x))'
      BY <1>1 DEF AcceptInv
    <3>1. CASE x = work[w] \/ Settled(x)
      BY <2>1, <2>3, <3>1 DEF Settled, Outcomes
    <3>2. CASE InWork(x) /\ x # work[w]
      BY <2>2, <3>2 DEF InWork
    <3>3. CASE InQueue(x)
      BY <2>1, <3>3 DEF InQueue
    <3> QED  BY <3>1, <3>2, <3>3 DEF AcceptInv
  <2> QED  BY <1>2, <1>3, <2>1, <2>4, <2>5, StageSame
<1>8. CASE TakeLate(w) /\ ~TakesHead(w)
  <2>1. UNCHANGED <<queue, work, drive, outcome, res, stages>> /\ straggler' = FALSE
    BY <1>8 DEF TakeLate
  <2>2. ScheInv'
    BY <1>1, <2>1
  <2>3. AcceptInv'
    BY <1>1, <2>1 DEF AcceptInv, Settled, InQueue, InWork
  <2> QED  BY <1>2, <1>3, <2>1, <2>2, <2>3, StageSame
<1> QED  BY <1>4, <1>5, <1>6, <1>7, <1>8 DEF WorkerStep, Take

-----------------------------------------------------------------------------
LEMMA StagesInv ==
  ASSUME Inv,
         \/ \E k \in Stages : StageStep(k) \/ JobOk(k) \/ JobFail(k)
         \/ FinalePull
         \/ \E k \in Pumps : PumpLeave(k)
         \/ \E k \in Links : LinkStop(k)
  PROVE  Inv'
<1>1. UNCHANGED <<flags, down, push, sche, phase, timedOut>>
  BY DEF StageStep, StagePull, StageSent, StageDropped, JobOk, JobFail, FinalePull,
         PumpLeave, LinkStop, nestVars, nest!Return
<1>2. ControlOK' /\ ScheInv' /\ RunInv' /\ ShutInv' /\ AcceptInv'
  BY <1>1, ControlSame, ScheSame, RunSame, ShutSame, AcceptSame
     DEF Inv, flags, down, sche
<1>3. PushOK'
  BY <1>1 DEF Inv, PushOK
<1>4. \A k \in Stages : k \in Pumps /\ k \in Links /\ k - 1 \in Links /\ k <= N
  BY PipelineAssumption DEF Stages, Pumps, Links
<1> USE DEF Inv, StageInv, StagesOK, HoldInv, PumpPcs, Pumping
<1>5. ASSUME NEW k \in Stages, StageStep(k) \/ JobOk(k) \/ JobFail(k)
      PROVE  StageInv' /\ UNCHANGED nestVars /\ \A j \in Pumps : pump[j] = "none"
                       => pump'[j] = "none"
  <2>0. k \in Pumps /\ k \in Links /\ k - 1 \in Links /\ pump[k] # "none"
    BY <1>4, <1>5 DEF StageStep, StagePull, Pull, StageSent, StageDropped, JobOk, JobFail
  <2>1. UNCHANGED nestVars /\ \A j \in Pumps : pump[j] = "none" => pump'[j] = "none"
    BY <1>5, <2>0 DEF StageStep, StagePull, Pull, StageSent, StageDropped, JobOk, JobFail
  <2>2. CASE StagePull(k)
    BY <2>0, <2>1, <2>2 DEF StagePull, Pull
  <2>3. CASE StageSent(k)
    BY <2>0, <2>1, <2>3 DEF StageSent
  <2>4. CASE StageDropped(k)
    BY <2>0, <2>1, <2>4 DEF StageDropped
  <2>5. CASE JobOk(k)
    <3>1. pump' = [pump EXCEPT ![k] = IF Canceled(k) THEN "pull" ELSE "send"]
          /\ hold' = [hold EXCEPT ![k] = IF Canceled(k) THEN NoItem ELSE hold[k]]
          /\ UNCHANGED <<ticket, slot, stopped>> /\ pump[k] = "job"
      BY <2>5 DEF JobOk
    <3>2. HoldInv' /\ pump' \in [Pumps -> PumpPcs] /\ hold' \in [Pumps -> Items \cup {NoItem}]
      BY <2>0, <3>1
    <3>3. passed' \in [Stages -> SUBSET Items]
      BY <2>0, <2>5 DEF JobOk
    <3> QED  BY <2>1, <3>1, <3>2, <3>3
  <2>6. CASE JobFail(k)
    <3>1. ticket' \in [Items -> {"none", "out", "failed"}]
      BY <2>6 DEF JobFail, Complete
    <3>2. UNCHANGED <<slot, stopped, passed>>
      BY <2>6 DEF JobFail
    <3>3. HoldInv' /\ pump' \in [Pumps -> PumpPcs] /\ hold' \in [Pumps -> Items \cup {NoItem}]
      BY <2>0, <2>6 DEF JobFail
    <3> QED  BY <2>1, <3>1, <3>2, <3>3
  <2> QED  BY <1>5, <2>2, <2>3, <2>4, <2>5, <2>6 DEF StageStep
<1>6. CASE \E k \in Stages : StageStep(k) \/ JobOk(k) \/ JobFail(k)
  <2>1. StageInv' /\ UNCHANGED nestVars /\ \A j \in Pumps : pump[j] = "none"
        => pump'[j] = "none"
    BY <1>5, <1>6
  <2>2. \A j \in Pumps : pump[j] = "exited" => pump'[j] = "exited"
    BY <1>6 DEF StageStep, StagePull, Pull, StageSent, StageDropped, JobOk, JobFail
  <2>3. WaitInv'
    BY <1>1, <2>1, <2>2 DEF WaitInv, flags, nestVars
  <2> QED  BY <1>2, <1>3, <2>1, <2>3, NestSame
<1>7. CASE FinalePull \/ \E k \in Links : LinkStop(k)
  <2>1. UNCHANGED <<pump, hold, passed, nestVars>>
    BY <1>7 DEF FinalePull, LinkStop
  <2>2. /\ ticket' \in [Items -> {"none", "out", "failed"}]
        /\ slot' \in [Links -> Items \cup {NoItem}] /\ stopped' \subseteq Links
    BY <1>7 DEF FinalePull, LinkStop, Complete, Pull
  <2>3. StageInv' /\ WaitInv'
    BY <1>1, <2>1, <2>2, WaitSame DEF flags
  <2> QED  BY <1>2, <1>3, <2>1, <2>3, NestSame
<1>8. ASSUME NEW k \in Pumps, PumpLeave(k)
      PROVE  Inv'
  <2>1. StageInv'
    BY <1>8 DEF PumpLeave
  <2>2. NestOK' /\ WaitInv'
    BY <1>1, <1>8 DEF NestOK, WaitInv, PumpLeave, nest!Return, flags
  <2> QED  BY <1>2, <1>3, <2>1, <2>2
<1> QED  BY <1>6, <1>7, <1>8

-----------------------------------------------------------------------------
LEMMA RunStepInv == Inv /\ (RunBegin \/ RunStep) => Inv'
<1> SUFFICES ASSUME Inv, RunBegin \/ RunStep PROVE Inv'
  OBVIOUS
<1>1. /\ UNCHANGED <<closer, parentDone, down, push, queue, straggler, work, drive,
                     outcome, res, ticket, slot, stopped, hold, passed>>
  BY DEF RunBegin, RunStep, RunAdmission, RunNest, RunSpawn, RunStart,
         RunStartFails, RunPublish, RunAbort, RunFail, sche, stages, flags
<1>2. PushOK' /\ AcceptInv'
  BY <1>1 DEF Inv, PushOK, AcceptInv, Settled, InQueue, InWork
<1>3. ControlOK'
  <2>1. UNCHANGED <<shut, closed, cut, parentDone, closer>>
    BY <1>1 DEF down
  <2>2. lifetime' \in Lifetimes /\ stopping' \in BOOLEAN
        /\ built' \in {"none", "sche", "nest"} /\ run' \in RunPcs
    BY DEF Inv, ControlOK, Lifetimes, RunPcs, RunBegin, RunStep, RunAdmission, RunNest,
           RunSpawn, RunStart, RunStartFails, RunPublish, RunAbort, RunFail, RunAt,
           flags
  <2> QED  BY <2>1, <2>2 DEF Inv, ControlOK
<1>4. ASSUME UNCHANGED <<pump, nestVars>>
      PROVE  StageInv' /\ WaitInv' /\ NestOK'
  BY <1>1, <1>4, WaitSame, NestSame DEF Inv, StageInv, StagesOK, HoldInv
<1>5. CASE RunBegin \/ RunNest \/ RunStartFails \/ RunFail \/ RunAbort
  <2>1. UNCHANGED <<lifetime, pump, pool>>
        /\ (run' # run => run' \notin {"publishing", "ok"} /\ run # "ok")
        /\ (run' \in {"idle", "begun", "spawning", "starting"} =>
              run \in {"idle", "begun", "spawning", "starting"})
    BY <1>5 DEF RunBegin, RunNest, RunStartFails, RunFail, RunAbort, RunAt, flags,
                stages, sche
  <2>2. ScheInv'
    BY <1>1, <2>1, ScheSame DEF Inv, sche
  <2>3. RunInv'
    BY <1>1, <2>1 DEF Inv, RunInv
  <2>4. CASE ~RunAbort
    <3>1. UNCHANGED nestVars
      BY <1>5, <2>4 DEF RunBegin, RunNest, RunStartFails, RunFail
    <3>2. ShutInv'
      BY <1>1, <2>1, <3>1 DEF Inv, ShutInv, down, nestVars
    <3> QED  BY <1>2, <1>3, <1>4, <2>1, <2>2, <2>3, <3>1, <3>2 DEF Inv
  <2>5. CASE RunAbort
    <3>1. NestOK' /\ UNCHANGED <<wg, timedOut>> /\ phase = "open" /\ phase' = "before"
      BY <2>5 DEF RunAbort, nest!BeginCancel, Inv, NestOK, nest!Phases
    <3>2. StageInv' /\ WaitInv'
      BY <1>1, <2>1, <3>1 DEF Inv, StageInv, StagesOK, HoldInv, WaitInv
    <3>3. ShutInv'
      BY <1>1, <2>1, <3>1 DEF Inv, ShutInv, down
    <3> QED  BY <1>2, <1>3, <2>2, <2>3, <3>1, <3>2, <3>3 DEF Inv
  <2> QED  BY <2>4, <2>5
<1>6. CASE RunAdmission \/ RunStart
  <2>1. /\ UNCHANGED <<lifetime, pump, nestVars>> /\ pool' \in PoolPcs
        /\ pool' \in {"new", "running"} /\ run \in {"begun", "starting"}
        /\ \/ run' = run /\ pool' = "new"
           \/ run' = "publishing" /\ pool' = "running"
    BY <1>6 DEF RunAdmission, RunStart, RunAt, PoolPcs, stages
  <2>2. ~straggler
    BY <2>1 DEF Inv, RunInv, ScheInv, PoolInv
  <2>3. ScheInv'
    BY <1>1, <2>1, <2>2 DEF Inv, ScheInv, ScheOK, DriveInv, PoolInv
  <2>4. RunInv' /\ ShutInv'
    BY <1>1, <2>1 DEF Inv, RunInv, ShutInv, down, nestVars
  <2> QED  BY <1>2, <1>3, <1>4, <2>1, <2>4, <2>3 DEF Inv
<1>7. CASE RunPublish
  <2>1. UNCHANGED <<pump, pool, nestVars>>
    BY <1>7 DEF RunPublish, stages, sche
  <2>2. ScheInv'
    BY <1>1, <2>1, ScheSame DEF Inv, sche
  <2>3. /\ run = "publishing"
        /\ \/ lifetime = "Built" /\ lifetime' = "Running" /\ run' = "ok"
           \/ lifetime # "Built" /\ lifetime' = lifetime /\ run' = "panic"
    BY <1>7 DEF RunPublish, RunAt
  <2>4. RunInv' /\ ShutInv'
    BY <1>1, <2>1, <2>3 DEF Inv, RunInv, ShutInv, down, nestVars
  <2> QED  BY <1>2, <1>3, <1>4, <2>1, <2>2, <2>4 DEF Inv
<1>8. ASSUME NEW k \in Pumps, RunSpawn(k)
      PROVE  Inv'
  <2>1. UNCHANGED <<lifetime, pool, sche>> /\ run = "spawning"
        /\ run' \in {"spawning", "starting", "aborting"}
    BY <1>8 DEF RunSpawn, RunAt, sche
  <2>2. RunInv' /\ ScheInv'
    BY <1>1, <2>1, ScheSame DEF Inv, RunInv
  <2>3. NestOK' /\ UNCHANGED <<phase, timedOut>>
    BY <1>8 DEF RunSpawn, nest!Spawn, nest!SpawnRefused, nest!nestVars, Inv, NestOK
  <2>4. ShutInv'
    BY <1>1, <2>1, <2>3 DEF Inv, ShutInv, down
  <2>5. \/ pump' = pump /\ wg' = wg
        \/ /\ pump[k] = "none" /\ pump' = [pump EXCEPT ![k] = "pull"]
           /\ wg' = wg \cup {k} /\ phase = "open"
    <3>1. pump[k] = "none"
      BY <1>8, PipelineAssumption DEF RunSpawn, Pumps
    <3> QED
      BY <1>8, <3>1 DEF RunSpawn, nest!Spawn, nest!SpawnRefused, nest!nestVars, Pumping
  <2>6. StageInv' /\ WaitInv'
    BY <1>1, <2>3, <2>5 DEF Inv, StageInv, StagesOK, HoldInv, WaitInv, PumpPcs
  <2> QED  BY <1>2, <1>3, <2>2, <2>3, <2>4, <2>6 DEF Inv
<1> QED  BY <1>5, <1>6, <1>7, <1>8 DEF RunStep

-----------------------------------------------------------------------------
(* What the scheduler's cancellation dismisses is settled.                   *)
LEMMA DismissInv ==
  ASSUME Inv, Dismiss, UNCHANGED <<push, work, drive, outcome>>
  PROVE  ScheInv' /\ AcceptInv'
<1>1. /\ pool' = "closing" /\ queue' = <<>>
      /\ res' = [i \in Items |-> IF InQueue(i) THEN "SCHEDULER_CANCELED" ELSE res[i]]
  BY DEF Dismiss, InQueue
<1>2. straggler' \in BOOLEAN
  <2>1. \/ straggler' = FALSE
        \/ straggler' = (queue # <<>> /\ \E w \in Workers : drive[w] = "idle")
    BY Zenon DEF Dismiss
  <2> QED  BY <2>1, Zenon
<1>3. ScheInv'
  BY <1>1, <1>2 DEF Inv, ScheInv, ScheOK, DriveInv, PoolInv, PoolPcs
<1>4. ASSUME NEW x \in Items, push[x] = "ok"
      PROVE  (Settled(x) \/ InQueue(x) \/ InWork(x))'
  <2>1. CASE Settled(x) \/ InQueue(x)
    BY <1>1, <2>1 DEF Settled
  <2>2. CASE InWork(x)
    BY <2>2 DEF InWork
  <2> QED  BY <1>4, <2>1, <2>2 DEF Inv, AcceptInv
<1> QED  BY <1>3, <1>4 DEF AcceptInv

LEMMA ShutdownInv == Inv /\ (ShutStep \/ PoolStep \/ PoolExpires) => Inv'
<1> SUFFICES ASSUME Inv, ShutStep \/ PoolStep \/ PoolExpires PROVE Inv'
  OBVIOUS
<1>1. /\ UNCHANGED <<stopping, built, run, closer, parentDone, push, work, drive,
                     outcome, stages, nestVars>>
  BY DEF ShutStep, PoolStep, PoolExpires, ShutBegin, ShutSignal, ShutCancel, ShutPool,
         ShutJoin, PoolCancel, PoolStop, flags, sche
<1>2. PushOK' /\ StageInv' /\ NestOK' /\ WaitInv'
  BY <1>1, StageSame, NestSame, WaitSame DEF Inv, PushOK, stages
<1>3. CASE ShutBegin
  <2>1. UNCHANGED sche /\ lifetime' = "Closed" /\ shut' = "signal" /\ UNCHANGED <<closed, cut>>
    BY <1>3 DEF ShutBegin
  <2>2. ScheInv' /\ AcceptInv'
    BY <1>1, <2>1, ScheSame, AcceptSame DEF Inv
  <2>3. ControlOK'
    BY <1>1, <2>1 DEF Inv, ControlOK, Lifetimes, ShutPcs
  <2>4. shut = "no"
    BY <1>3 DEF ShutBegin
  <2>5. RunInv' /\ ShutInv'
    BY <1>1, <2>1, <2>4 DEF Inv, RunInv, ShutInv, sche, nestVars
  <2> QED  BY <1>2, <2>2, <2>3, <2>5 DEF Inv
<1>4. CASE ShutSignal \/ ShutCancel
  <2>1. UNCHANGED <<sche, lifetime>> /\ shut # "no" /\ shut' = "cancel"
    BY <1>4 DEF ShutSignal, ShutCancel, flags
  <2>2. ScheInv' /\ AcceptInv'
    BY <1>1, <2>1, ScheSame, AcceptSame DEF Inv
  <2>3. closed' \in BOOLEAN /\ cut' \in 0..(N + 1)
    <3>1. closed \in BOOLEAN /\ cut \in 0..(N + 1)
      BY DEF Inv, ControlOK
    <3>2. CASE ShutSignal
      <4>1. closed' = (built # "none") /\ cut' = cut
        BY <3>2, Zenon DEF ShutSignal
      <4>2. closed' \in BOOLEAN
        BY <4>1, Zenon
      <4> QED  BY <3>1, <4>1, <4>2
    <3>3. CASE ShutCancel
      <4>1. closed' = closed /\ cut <= N /\ cut' = cut + 1
        BY <3>3 DEF ShutCancel
      <4> QED  BY <3>1, <4>1, PipelineAssumption
    <3> QED  BY <1>4, <3>2, <3>3
  <2>4. ControlOK'
    BY <1>1, <2>1, <2>3 DEF Inv, ControlOK, ShutPcs
  <2>5. shut \in {"signal", "cancel"}
    BY <1>4 DEF ShutSignal, ShutCancel
  <2>6. RunInv' /\ ShutInv'
    BY <1>1, <2>1, <2>5 DEF Inv, RunInv, ShutInv, sche, nestVars
  <2> QED  BY <1>2, <2>2, <2>4, <2>6 DEF Inv
<1>5. CASE ShutPool
  <2>1. /\ UNCHANGED <<lifetime, closed, cut>> /\ shut = "cancel"
        /\ \/ pool = "running" /\ Dismiss /\ shut' = "join"
           \/ /\ pool \in {"none", "new"} /\ UNCHANGED sche /\ shut' = "done"
           \/ /\ pool \notin {"none", "new", "running"} /\ UNCHANGED sche /\ shut' = "join"
    BY <1>1, <1>5 DEF ShutPool, flags, sche
  <2>2. ScheInv' /\ AcceptInv'
    BY <1>1, <2>1, DismissInv, ScheSame, AcceptSame DEF Inv
  <2>3. pool' = pool \/ (pool = "running" /\ pool' = "closing")
    BY <2>1 DEF Dismiss, sche
  <2>4. ControlOK'
    BY <1>1, <2>1 DEF Inv, ControlOK, ShutPcs
  <2>5. RunInv'
    BY <1>1, <2>1, <2>3 DEF Inv, RunInv
  <2>6. ShutInv'
    BY <1>1, <2>1, <2>3 DEF Inv, RunInv, ShutInv, nestVars, Dismiss
  <2> QED  BY <1>2, <2>2, <2>4, <2>5, <2>6 DEF Inv
<1>6. CASE ShutJoin
  <2>1. /\ UNCHANGED <<sche, lifetime, closed, cut>> /\ pool = "closed"
        /\ shut = "join" /\ shut' = "done"
    BY <1>6 DEF ShutJoin, flags
  <2>2. ScheInv' /\ AcceptInv'
    BY <1>1, <2>1, ScheSame, AcceptSame DEF Inv
  <2>3. ControlOK'
    BY <1>1, <2>1 DEF Inv, ControlOK, ShutPcs
  <2>4. RunInv' /\ ShutInv'
    BY <1>1, <2>1 DEF Inv, RunInv, ShutInv, sche, nestVars
  <2> QED  BY <1>2, <2>2, <2>3, <2>4 DEF Inv
<1>7. CASE PoolCancel
  <2>1. pool = "running" /\ Dismiss /\ UNCHANGED <<flags, down>>
    BY <1>7 DEF PoolCancel
  <2>2. ScheInv' /\ AcceptInv'
    BY <1>1, <2>1, DismissInv
  <2>3. ControlOK'
    BY <2>1, ControlSame DEF Inv
  <2>4. RunInv' /\ ShutInv'
    BY <1>1, <2>1 DEF Inv, RunInv, ShutInv, Dismiss, flags, down, nestVars
  <2> QED  BY <1>2, <2>2, <2>3, <2>4 DEF Inv
<1>8. CASE PoolStop \/ PoolExpires
  <2>1. /\ pool = "closing" /\ pool' = "closed"
        /\ UNCHANGED <<flags, down, queue, straggler, res>>
        /\ HasTimeout \/ (~straggler /\ \A w \in Workers : drive[w] = "idle")
    BY <1>8 DEF PoolStop, PoolExpires
  <2>2. ScheInv'
    BY <1>1, <2>1 DEF Inv, ScheInv, ScheOK, DriveInv, PoolInv, Settled, PoolPcs
  <2>3. AcceptInv'
    BY <1>1, <2>1 DEF Inv, AcceptInv, Settled, InQueue, InWork
  <2>4. ControlOK'
    BY <2>1, ControlSame DEF Inv
  <2>5. RunInv' /\ ShutInv'
    BY <1>1, <2>1 DEF Inv, RunInv, ShutInv, flags, down, nestVars
  <2> QED  BY <1>2, <2>2, <2>3, <2>4, <2>5 DEF Inv
<1> QED  BY <1>3, <1>4, <1>5, <1>6, <1>7, <1>8 DEF ShutStep, PoolStep

-----------------------------------------------------------------------------
LEMMA CloserInv ==
  ASSUME Inv,
         \/ ParentCancel \/ NestStep \/ StagesExpire
         \/ \E c \in Closers : CloseEnter(c) \/ CloseStep(c)
  PROVE  Inv'
<1>1. UNCHANGED <<lifetime, built, run, down, push, sche, stages>>
  BY DEF ParentCancel, NestStep, StagesExpire, WatcherCancel, HookReturns, StagesDown,
         CloseEnter, CloseStep, CloseShut, CloseCancel, CloseReturn, flags
<1>2. PushOK' /\ StageInv' /\ ScheInv' /\ AcceptInv' /\ RunInv'
  BY <1>1, StageSame, ScheSame, AcceptSame, RunSame DEF Inv, PushOK, sche
<1>3. CASE ParentCancel \/ NestStep \/ StagesExpire \/ \E c \in Closers : CloseCancel(c)
  <2> USE <1>3 DEF ParentCancel, NestStep, StagesExpire, WatcherCancel, HookReturns,
        StagesDown, CloseCancel, nest!InheritedDone, nest!BeginCancel,
        nest!CancelDispatched, nest!Drained, nest!CloseDone, nest!Expire, flags
  <2>1. UNCHANGED <<closer, stopping>> /\ parentDone' \in BOOLEAN
    BY DEF Inv, ControlOK
  <2>2. ControlOK'
    BY <1>1, <2>1 DEF Inv, ControlOK, down
  <2>3. NestOK'
    BY DEF Inv, NestOK, nest!Phases
  <2>4. ShutInv'
    BY <1>1 DEF Inv, ShutInv, down, sche
  <2>5. WaitInv'
    BY <1>1, <2>1 DEF Inv, WaitInv, stages
  <2> QED  BY <1>2, <2>2, <2>3, <2>4, <2>5 DEF Inv
<1>4. ASSUME NEW c \in Closers, CloseEnter(c) \/ CloseShut(c) \/ CloseReturn(c)
      PROVE  Inv'
  <2>1. UNCHANGED <<nestVars, parentDone>> /\ stopping' \in BOOLEAN
    BY <1>4 DEF CloseEnter, CloseShut, CloseReturn, Inv, ControlOK
  <2>2. \E at \in CloserPcs : /\ closer' = [closer EXCEPT ![c] = at]
                              /\ at = "nil" => phase = "done" /\ ~timedOut
    BY <1>4 DEF CloseEnter, CloseShut, CloseReturn, Closing, CloserPcs
  <2>3. ControlOK'
    BY <1>1, <2>1, <2>2 DEF Inv, ControlOK, down
  <2>4. NestOK' /\ ShutInv'
    BY <1>1, <2>1, NestSame, ShutSame DEF Inv, down, sche, nestVars
  <2>5. WaitInv'
    BY <1>1, <2>1, <2>2 DEF Inv, WaitInv, ControlOK, stages, nestVars
  <2> QED  BY <1>2, <2>3, <2>4, <2>5 DEF Inv
<1> QED  BY <1>3, <1>4 DEF CloseStep

LEMMA InvStep == Inv /\ [Next]_vars => Inv'
<1>1. Inv /\ UNCHANGED vars => Inv'
  <2> SUFFICES ASSUME Inv, UNCHANGED vars PROVE Inv'
    OBVIOUS
  <2>1. UNCHANGED <<flags, down, push, sche, stages, nestVars>>
    BY DEF vars
  <2>2. ControlOK' /\ NestOK' /\ StageInv' /\ ScheInv' /\ AcceptInv'
    BY <2>1, ControlSame, NestSame, StageSame, ScheSame, AcceptSame DEF Inv
  <2>3. PushOK' /\ RunInv' /\ ShutInv' /\ WaitInv'
    BY <2>1, RunSame, ShutSame, WaitSame
       DEF Inv, PushOK, flags, down, sche, stages, nestVars
  <2> QED  BY <2>2, <2>3 DEF Inv
<1> QED  BY <1>1, PushInv, WorkerInv, StagesInv, RunStepInv, ShutdownInv, CloserInv
         DEF Next

LEMMA Inductive == Spec => []Inv
<1> QED  BY InvInit, InvStep, PTL DEF Spec

(* Type correctness of the pipeline.                                         *)
THEOREM TypeCorrect == Spec => []TypeOK
<1>1. Inv => TypeOK
  BY TypeSplit DEF Inv, StageInv, ScheInv
<1> QED  BY <1>1, Inductive, PTL

(* A Close that returned nil has waited for every stage, and every accepted  *)
(* item is settled, whichever of the shutdown, Run and Push came first.      *)
THEOREM CloseHasWaited == Spec => []CloseWaits
<1>1. Inv => CloseWaits
  <2> SUFFICES ASSUME Inv, NEW c \in Closers, closer[c] = "nil"
      PROVE  /\ \A k \in Pumps : pump[k] \in {"none", "exited"} /\ hold[k] = NoItem
             /\ \A i \in Items : push[i] = "ok" =>
                  res[i] # "none" \/ (HasTimeout /\ \E w \in Workers : work[w] = i)
    BY DEF CloseWaits
  <2>1. phase = "done" /\ wg = {} /\ shut = "done"
    BY DEF Inv, WaitInv, ShutInv
  <2>2. \A k \in Pumps : pump[k] \in {"none", "exited"} /\ hold[k] = NoItem
    BY <2>1 DEF Inv, WaitInv, StageInv, HoldInv
  <2>3. ASSUME NEW i \in Items, push[i] = "ok", res[i] = "none"
        PROVE  HasTimeout /\ \E w \in Workers : work[w] = i
    <3>1. run = "ok" /\ pool = "closed"
      BY <2>1, <2>3 DEF Inv, RunInv, ShutInv
    <3>2. ~InQueue(i) /\ (~HasTimeout => \A w \in Workers : drive[w] = "idle")
      BY <2>3, <3>1 DEF Inv, ScheInv, PoolInv, Settled, InQueue
    <3>3. InWork(i)
      BY <2>3, <3>2 DEF Inv, AcceptInv, Settled
    <3> QED  BY <3>2, <3>3 DEF InWork
  <2> QED  BY <2>2, <2>3
<1> QED  BY <1>1, Inductive, PTL
-----------------------------------------------------------------------------
(* The way of an item: it is fresh until a worker has driven it in, then in  *)
(* one place of the line, and off the line with its ticket completed, or     *)
(* dropped.                                                                  *)
OffLine(i) == (\A k \in Links : slot[k] # i) /\ (\A k \in Pumps : hold[k] # i)
Fresh(i) == Passed(i) = {} /\ OffLine(i) /\ ticket[i] = "none"

(* Where an item is tells which stages it has passed, ...                    *)
LineInv ==
  /\ \A k \in Links : slot[k] # NoItem => Passed(slot[k]) = 1..k
  /\ \A k \in Pumps : hold[k] # NoItem =>
       k \in Stages /\ Passed(hold[k]) = IF pump[k] = "send" THEN 1..k ELSE Before(k)

(* ... and it is in one place only; ...                                      *)
SpotInv ==
  /\ \A j, k \in Links : slot[j] # NoItem /\ slot[j] = slot[k] => j = k
  /\ \A j, k \in Pumps : hold[j] # NoItem /\ hold[j] = hold[k] => j = k
  /\ \A j \in Links, k \in Pumps : slot[j] # NoItem => slot[j] # hold[k]

(* ... its ticket, and what was read from it, says how it left the line; ... *)
TicketInv ==
  /\ \A i \in Items : /\ ticket[i] # "none" => OffLine(i)
                      /\ ticket[i] = "out" => Passed(i) = Stages
                      /\ ticket[i] = "failed" => Passed(i) # Stages
                      /\ res[i] \in {"out", "failed"} => ticket[i] = res[i]
  /\ \A w \in Workers : drive[w] = "finish" /\ outcome[w] \in {"out", "failed"} =>
       ticket[work[w]] = outcome[w]

(* ... and before that it is queued once, and driven in by one worker.       *)
EntryInv ==
  /\ \A i \in Items : push[i] # "ok" => Fresh(i) /\ ~InQueue(i) /\ ~InWork(i)
  /\ \A i \in Items : InQueue(i) => Fresh(i) /\ ~InWork(i)
  /\ \A j, k \in DOMAIN queue : queue[j] = queue[k] => j = k
  /\ \A w \in Workers : drive[w] = "send" => Fresh(work[w])
  /\ \A v, w \in Workers :
       drive[v] # "idle" /\ drive[w] # "idle" /\ work[v] = work[w] => v = w

OnceInv == LineInv /\ SpotInv /\ TicketInv /\ EntryInv

FreshStays == \A i \in Items : Fresh(i) => Fresh(i)'

LEMMA LineSame ==
  /\ UNCHANGED <<slot, hold, pump, passed>> => (LineInv => LineInv')
  /\ UNCHANGED <<slot, hold>> => (SpotInv => SpotInv')
  /\ UNCHANGED <<ticket, slot, hold, passed>> => FreshStays
BY DEF LineInv, SpotInv, Passed, FreshStays, Fresh, OffLine

LEMMA TicketSame ==
  ASSUME TicketInv,
         UNCHANGED <<ticket, slot, hold, passed, res, drive, outcome, work>>
  PROVE  TicketInv'
BY DEF TicketInv, OffLine, Passed

(* Nothing is fresh that enters; so what keeps the fresh fresh keeps EntryInv. *)
LEMMA EntrySame ==
  ASSUME Inv, EntryInv, FreshStays, UNCHANGED <<push, queue, drive, work>>
  PROVE  EntryInv'
<1>1. \A w \in Workers : drive[w] = "send" => work[w] \in Items
  BY DEF Inv, ScheInv, DriveInv
<1> QED  BY <1>1 DEF EntryInv, FreshStays, InQueue, InWork

-----------------------------------------------------------------------------
LEMMA PushOnce ==
  ASSUME Inv, OnceInv, NEW i \in Items, PushGuard(i) \/ PushStep(i)
  PROVE  OnceInv'
<1>1. UNCHANGED <<stages, work, drive, outcome>>
  BY DEF PushGuard, PushStep, PushLook, PushReady, PushRefused, PushAccepted, PushLate, sche
<1>2. /\ LineInv' /\ SpotInv'
      /\ \A x \in Items : (Fresh(x) <=> Fresh(x)') /\ (InWork(x) <=> InWork(x)')
  BY <1>1, LineSame DEF OnceInv, stages, Fresh, OffLine, Passed, InWork
<1>3. push[i] # "ok" /\ Fresh(i) /\ ~InQueue(i) /\ ~InWork(i)
  <2>1. push[i] # "ok"
    BY DEF PushGuard, PushStep, PushLook, PushReady, PushRefused, PushAccepted, PushLate
  <2> QED  BY <2>1 DEF OnceInv, EntryInv
<1>4. \E at : push' = [push EXCEPT ![i] = at]
  BY DEF PushGuard, PushStep, PushLook, PushReady, PushRefused, PushAccepted, PushLate, Goes
<1>5. \A x \in Items : push'[x] # "ok" => push[x] # "ok"
  BY <1>3, <1>4 DEF Inv, PushOK
<1>6. \A w \in Workers : drive[w] = "send" => work[w] \in Items
  BY DEF Inv, ScheInv, DriveInv
<1>7. CASE PushGuard(i) \/ PushLook(i) \/ PushReady(i) \/ PushRefused(i)
  <2>1. UNCHANGED sche
    BY <1>7 DEF PushGuard, PushLook, PushReady, PushRefused
  <2>2. TicketInv'
    BY <1>1, <2>1, TicketSame DEF OnceInv, stages, sche
  <2>3. EntryInv'
    BY <1>1, <1>2, <1>5, <1>6, <2>1 DEF OnceInv, EntryInv, InQueue, sche
  <2> QED  BY <1>2, <2>2, <2>3 DEF OnceInv
<1>8. CASE PushAccepted(i) \/ PushLate(i)
  <2>1. /\ queue \in Seq(Items) /\ queue' = Append(queue, i) /\ push'[i] = "ok"
        /\ \A x \in Items : res'[x] \in {"out", "failed"} => res[x] = res'[x]
    BY <1>8 DEF PushAccepted, PushLate, Goes, Inv, ScheInv, ScheOK, PushOK
  <2>2. /\ DOMAIN queue' = DOMAIN queue \cup {Len(queue) + 1}
        /\ Len(queue) + 1 \notin DOMAIN queue
        /\ queue'[Len(queue) + 1] = i /\ \A j \in DOMAIN queue : queue'[j] = queue[j]
    BY <2>1
  <2>3. \A x \in Items : InQueue(x)' => InQueue(x) \/ x = i
    BY <2>2 DEF InQueue
  <2>4. \A j, k \in DOMAIN queue' : queue'[j] = queue'[k] => j = k
    BY <1>3, <2>2 DEF OnceInv, EntryInv, InQueue
  <2>5. TicketInv'
    BY <1>1, <2>1 DEF OnceInv, TicketInv, OffLine, Passed, stages
  <2>6. EntryInv'
    <3>1. \A x \in Items : push'[x] # "ok" => push[x] # "ok" /\ x # i
      BY <1>5, <2>1
    <3>2. \A x \in Items : push'[x] # "ok" => (Fresh(x) /\ ~InQueue(x) /\ ~InWork(x))'
      BY <1>2, <2>3, <3>1 DEF OnceInv, EntryInv
    <3>3. \A x \in Items : InQueue(x)' => (Fresh(x) /\ ~InWork(x))'
      BY <1>2, <1>3, <2>3 DEF OnceInv, EntryInv
    <3>4. \A w \in Workers : drive'[w] = "send" => Fresh(work[w])'
      BY <1>1, <1>2, <1>6 DEF OnceInv, EntryInv
    <3> QED  BY <1>1, <2>4, <3>2, <3>3, <3>4 DEF OnceInv, EntryInv
  <2> QED  BY <1>2, <2>5, <2>6 DEF OnceInv
<1> QED  BY <1>7, <1>8 DEF PushStep

-----------------------------------------------------------------------------
LEMMA TakeOnce ==
  ASSUME Inv, OnceInv, NEW w \in Workers, Take(w) \/ TakeLate(w), TakesHead(w)
  PROVE  OnceInv'
<1>1. /\ UNCHANGED <<stages, push, outcome, res>> /\ drive[w] = "idle"
      /\ queue' = Tail(queue) /\ work' = [work EXCEPT ![w] = queue[1]]
      /\ queue \in Seq(Items) /\ queue # <<>> /\ 1 \in DOMAIN queue /\ queue[1] \in Items
  BY DEF Take, TakeLate, TakesHead, Inv, ScheInv, ScheOK
<1>2. \E at \in {"wait", "send"} : drive' = [drive EXCEPT ![w] = at]
  BY DEF TakesHead, Drives
<1>3. drive \in [Workers -> DrivePcs] /\ work \in [Workers -> Items \cup {NoItem}]
  BY DEF Inv, ScheInv, ScheOK
<1>4. \A j \in DOMAIN queue' : j + 1 \in DOMAIN queue /\ j + 1 # 1
                               /\ queue'[j] = queue[j + 1]
  BY <1>1
<1>5. InQueue(queue[1]) /\ push[queue[1]] = "ok"
  <2>1. InQueue(queue[1])
    BY <1>1 DEF InQueue
  <2> QED  BY <1>1, <2>1 DEF OnceInv, EntryInv
<1>6. \A x \in Items : InQueue(x)' => InQueue(x) /\ x # queue[1]
  BY <1>1, <1>4 DEF InQueue, OnceInv, EntryInv
<1>7. \A x \in Items : InWork(x)' => InWork(x) \/ x = queue[1]
  BY <1>1, <1>2, <1>3 DEF InWork
<1>8. /\ LineInv' /\ SpotInv' /\ \A x \in Items : Fresh(x) <=> Fresh(x)'
  BY <1>1, LineSame DEF OnceInv, stages, Fresh, OffLine, Passed
<1>9. TicketInv'
  BY <1>1, <1>2, <1>3 DEF OnceInv, TicketInv, OffLine, Passed, stages
<1>10. EntryInv'
  <2>1. \A x \in Items : push[x] # "ok" => (Fresh(x) /\ ~InQueue(x) /\ ~InWork(x))'
    BY <1>5, <1>6, <1>7, <1>8 DEF OnceInv, EntryInv
  <2>2. \A x \in Items : InQueue(x)' => (Fresh(x) /\ ~InWork(x))'
    BY <1>6, <1>7, <1>8 DEF OnceInv, EntryInv
  <2>3. \A j, k \in DOMAIN queue' : queue'[j] = queue'[k] => j = k
    <3> SUFFICES ASSUME NEW j \in DOMAIN queue', NEW k \in DOMAIN queue',
                        queue'[j] = queue'[k]
                 PROVE  j = k
      OBVIOUS
    <3>1. j + 1 = k + 1
      BY <1>4 DEF OnceInv, EntryInv
    <3>2. j \in Nat /\ k \in Nat
      BY <1>1
    <3> QED  BY <3>1, <3>2
  <2>4. \A v \in Workers : v # w => drive'[v] = drive[v] /\ work'[v] = work[v]
    BY <1>1, <1>2, <1>3
  <2>5. work'[w] = queue[1]
    BY <1>1, <1>3
  <2>6. \A v \in Workers : drive'[v] = "send" => Fresh(work[v])'
    <3> SUFFICES ASSUME NEW v \in Workers, drive'[v] = "send"
                 PROVE  work'[v] \in Items /\ Fresh(work'[v])
      BY <1>8
    <3>1. CASE v = w
      BY <1>1, <1>5, <2>5, <3>1 DEF OnceInv, EntryInv
    <3>2. CASE v # w
      BY <2>4, <3>2 DEF OnceInv, EntryInv, Inv, ScheInv, DriveInv
    <3> QED  BY <3>1, <3>2
  <2>7. \A v \in Workers : v # w /\ drive'[v] # "idle" => work'[v] # work'[w]
    <3> SUFFICES ASSUME NEW v \in Workers, v # w, drive'[v] # "idle", work'[v] = work'[w]
                 PROVE  FALSE
      OBVIOUS
    <3>1. InWork(queue[1])
      BY <2>4, <2>5 DEF InWork
    <3> QED  BY <1>1, <1>5, <3>1 DEF OnceInv, EntryInv
  <2>8. ASSUME NEW u \in Workers, NEW v \in Workers,
               drive'[u] # "idle", drive'[v] # "idle", work'[u] = work'[v]
        PROVE  u = v
    <3>1. CASE u = w \/ v = w
      BY <2>7, <2>8, <3>1
    <3>2. CASE u # w /\ v # w
      BY <2>4, <2>8, <3>2 DEF OnceInv, EntryInv
    <3> QED  BY <3>1, <3>2
  <2> QED  BY <1>1, <2>1, <2>2, <2>3, <2>6, <2>8 DEF EntryInv
<1> QED  BY <1>8, <1>9, <1>10 DEF OnceInv

LEMMA SentOnce ==
  ASSUME Inv, OnceInv, NEW w \in Workers, DriveSent(w)
  PROVE  OnceInv'
<1> DEFINE i == work[w]
<1>1. /\ UNCHANGED <<push, queue, work, outcome, res, ticket, pump, hold, passed>>
      /\ drive[w] = "send" /\ drive' = [drive EXCEPT ![w] = "wait"]
      /\ slot[0] = NoItem /\ slot' = [slot EXCEPT ![0] = i]
  BY DEF DriveSent, Drives, Sendable
<1>2. /\ drive \in [Workers -> DrivePcs] /\ slot \in [Links -> Items \cup {NoItem}]
      /\ i \in Items /\ i # NoItem /\ 0 \in Links
  BY <1>1, PipelineAssumption
     DEF Inv, ScheInv, ScheOK, DriveInv, StageInv, StagesOK, Links
<1>3. /\ slot'[0] = i /\ drive'[w] = "wait"
      /\ \A k \in Links : k # 0 => slot'[k] = slot[k]
      /\ \A v \in Workers : v # w => drive'[v] = drive[v]
  BY <1>1, <1>2
<1>4. Fresh(i) /\ InWork(i)
  BY <1>1 DEF OnceInv, EntryInv, InWork
<1>5. LineInv'
  <2>1. Passed(i) = 1..0
    BY <1>4 DEF Fresh
  <2> QED  BY <1>1, <1>3, <2>1 DEF OnceInv, LineInv, Passed
<1>6. SpotInv'
  BY <1>1, <1>3, <1>4 DEF OnceInv, SpotInv, Fresh, OffLine
<1>7. \A x \in Items : x # i => (OffLine(x) => OffLine(x)')
  BY <1>1, <1>3 DEF OffLine
<1>8. TicketInv'
  <2>1. ASSUME NEW x \in Items, ticket'[x] # "none" PROVE OffLine(x)'
    <3>1. x # i
      BY <1>1, <1>4, <2>1 DEF Fresh
    <3> QED  BY <1>1, <1>7, <2>1, <3>1 DEF OnceInv, TicketInv
  <2>2. \A v \in Workers : drive'[v] = "finish" => drive[v] = "finish"
    BY <1>3
  <2> QED  BY <1>1, <2>1, <2>2 DEF OnceInv, TicketInv, Passed
<1>9. \A x \in Items : x # i => (Fresh(x) => Fresh(x)')
  BY <1>1, <1>7 DEF Fresh, Passed
<1>10. EntryInv'
  <2>1. \A x \in Items : (InQueue(x)' <=> InQueue(x)) /\ (InWork(x)' <=> InWork(x))
    BY <1>1, <1>3 DEF InQueue, InWork
  <2>2. \A x \in Items : push'[x] # "ok" => (Fresh(x) /\ ~InQueue(x) /\ ~InWork(x))'
    BY <1>1, <1>4, <1>9, <2>1 DEF OnceInv, EntryInv
  <2>3. \A x \in Items : InQueue(x)' => (Fresh(x) /\ ~InWork(x))'
    BY <1>4, <1>9, <2>1 DEF OnceInv, EntryInv
  <2>4. ASSUME NEW v \in Workers, drive'[v] = "send" PROVE Fresh(work[v])'
    <3>1. v # w /\ drive[v] = "send"
      BY <1>3, <2>4
    <3>2. work[v] \in Items /\ work[v] # i
      BY <1>1, <3>1 DEF OnceInv, EntryInv, Inv, ScheInv, DriveInv
    <3>3. Fresh(work[v])
      BY <3>1 DEF OnceInv, EntryInv
    <3>4. OffLine(work[v])'
      BY <1>1, <1>7, <3>2, <3>3 DEF Fresh, OffLine
    <3> QED  BY <1>1, <3>3, <3>4 DEF Fresh, Passed
  <2>5. \A v \in Workers : drive'[v] # "idle" => drive[v] # "idle"
    BY <1>1, <1>3
  <2> QED  BY <1>1, <2>2, <2>3, <2>4, <2>5 DEF OnceInv, EntryInv
<1> QED  BY <1>5, <1>6, <1>8, <1>10 DEF OnceInv

(* The other steps of a worker touch no item in the line.                    *)
LEMMA DriveOnce ==
  ASSUME Inv, OnceInv, NEW w \in Workers,
         DriveDropped(w) \/ DriveEnd(w) \/ Finish(w)
  PROVE  OnceInv'
<1>1. UNCHANGED <<stages, push, queue>> /\ drive[w] # "idle"
  BY DEF DriveDropped, DriveEnd, Finish
<1>2. LineInv' /\ SpotInv' /\ \A x \in Items : Fresh(x) <=> Fresh(x)'
  BY <1>1, LineSame DEF OnceInv, stages, Fresh, OffLine, Passed
<1>3. /\ drive \in [Workers -> DrivePcs] /\ work \in [Workers -> Items \cup {NoItem}]
      /\ outcome \in [Workers -> Outcomes \cup {"none"}]
      /\ res \in [Items -> Outcomes \cup {"none", "SCHEDULER_CANCELED"}]
      /\ work[w] \in Items
  BY <1>1 DEF Inv, ScheInv, ScheOK, DriveInv
<1>4. /\ drive'[w] # "send" /\ \A v \in Workers : v # w => drive'[v] = drive[v]
      /\ drive'[w] = "idle" \/ work'[w] = work[w]
      /\ \A v \in Workers : v # w => work'[v] = work[v] /\ outcome'[v] = outcome[v]
  BY <1>3 DEF DriveDropped, DriveEnd, Finish, Drives
<1>5. EntryInv'
  <2>1. \A x \in Items : (InQueue(x)' <=> InQueue(x)) /\ (InWork(x)' => InWork(x))
    BY <1>1, <1>4 DEF InQueue, InWork
  <2>2. \A v \in Workers : drive'[v] # "idle" => drive[v] # "idle" /\ work'[v] = work[v]
    BY <1>1, <1>4
  <2>3. ASSUME NEW v \in Workers, drive'[v] = "send" PROVE Fresh(work[v])'
    <3>1. drive[v] = "send" /\ work'[v] = work[v]
      BY <1>4, <2>3
    <3> QED  BY <1>1, <3>1 DEF OnceInv, EntryInv, Fresh, OffLine, Passed, stages
  <2> QED  BY <1>1, <1>2, <2>1, <2>2, <2>3 DEF OnceInv, EntryInv
<1>6. CASE DriveDropped(w)
  <2>1. UNCHANGED <<work, outcome, res>> /\ drive'[w] = "wait"
    BY <1>3, <1>6 DEF DriveDropped, Drives
  <2>2. TicketInv'
    BY <1>1, <1>4, <2>1 DEF OnceInv, TicketInv, OffLine, Passed, stages
  <2> QED  BY <1>2, <1>5, <2>2 DEF OnceInv
<1>7. CASE DriveEnd(w)
  <2>1. UNCHANGED <<work, res>>
    BY <1>7 DEF DriveEnd
  <2>2. outcome'[w] \in {"out", "failed"} => ticket[work[w]] = outcome'[w]
    BY <1>3, <1>7 DEF DriveEnd, TicketWait
  <2>3. TicketInv'
    BY <1>1, <1>4, <2>1, <2>2 DEF OnceInv, TicketInv, OffLine, Passed, stages
  <2> QED  BY <1>2, <1>5, <2>3 DEF OnceInv
<1>8. CASE Finish(w)
  <2>1. /\ drive[w] = "finish" /\ drive'[w] = "idle"
        /\ \/ res' = [res EXCEPT ![work[w]] = outcome[w]]
           \/ res' = [res EXCEPT ![work[w]] = "SCHEDULER_CANCELED"]
    BY <1>3, <1>8 DEF Finish, Drives
  <2>2. ASSUME NEW x \in Items, res'[x] \in {"out", "failed"}
        PROVE  ticket[x] = res'[x]
    <3>1. CASE x = work[w]
      <4>1. res'[x] = outcome[w]
        BY <1>3, <2>1, <2>2, <3>1
      <4> QED  BY <2>1, <2>2, <3>1, <4>1 DEF OnceInv, TicketInv
    <3>2. CASE x # work[w]
      <4>1. res'[x] = res[x]
        BY <1>3, <2>1, <3>2
      <4> QED  BY <2>2, <4>1 DEF OnceInv, TicketInv
    <3> QED  BY <3>1, <3>2
  <2>3. TicketInv'
    BY <1>1, <1>4, <2>1, <2>2 DEF OnceInv, TicketInv, OffLine, Passed, stages
  <2> QED  BY <1>2, <1>5, <2>3 DEF OnceInv
<1> QED  BY <1>6, <1>7, <1>8

-----------------------------------------------------------------------------
(* A pump is at a link on either side, and the finale is no stage.           *)
LEMMA StageNumbers ==
  /\ \A k \in Stages : /\ k \in Pumps /\ k \in Links /\ k - 1 \in Links
                       /\ 1..k = Before(k) \cup {k} /\ Before(k) # Stages
                       /\ k \notin Before(k) /\ 1..k \subseteq Stages
  /\ N + 1 \notin Stages /\ N \in Links /\ N + 1 \in Pumps
BY PipelineAssumption DEF Stages, Pumps, Links, Before

StageKeeps == LineInv' /\ SpotInv' /\ TicketInv' /\ FreshStays

(* A step of a stage moves the item it is about, or takes it out.            *)
LEMMA PullOnce ==
  ASSUME Inv, OnceInv, NEW k \in Stages, StagePull(k)
  PROVE  StageKeeps
<1> DEFINE i == slot[k - 1]
<1>1. /\ UNCHANGED <<sche, ticket, passed>> /\ i # NoItem /\ i \in Items
      /\ slot' = [slot EXCEPT ![k - 1] = NoItem] /\ hold' = [hold EXCEPT ![k] = i]
      /\ pump[k] = "pull" /\ pump' = [pump EXCEPT ![k] = "job"]
      /\ k \in Pumps /\ k - 1 \in Links /\ hold[k] = NoItem
  BY StageNumbers DEF StagePull, Pull, Pumping, Inv, StageInv, StagesOK, HoldInv
<1>2. /\ slot'[k - 1] = NoItem /\ \A j \in Links : j # k - 1 => slot'[j] = slot[j]
      /\ hold'[k] = i /\ \A j \in Pumps : j # k => hold'[j] = hold[j]
      /\ pump'[k] = "job" /\ \A j \in Pumps : j # k => pump'[j] = pump[j]
  BY <1>1 DEF Inv, StageInv, StagesOK
<1>3. \A x \in Items : Passed(x)' = Passed(x)
  BY <1>1 DEF Passed
<1>4. \A x \in Items : OffLine(x) => OffLine(x)'
  BY <1>1, <1>2 DEF OffLine
<1>5. Passed(i) = Before(k)
  BY <1>1 DEF OnceInv, LineInv, Before
<1>6. LineInv'
  <2>1. ASSUME NEW j \in Links, slot'[j] # NoItem PROVE Passed(slot'[j]) = 1..j
    BY <1>2, <2>1 DEF OnceInv, LineInv
  <2>2. ASSUME NEW j \in Pumps, hold'[j] # NoItem
        PROVE  j \in Stages
               /\ Passed(hold'[j]) = IF pump'[j] = "send" THEN 1..j ELSE Before(j)
    <3>1. CASE j = k
      BY <1>2, <1>5, <3>1
    <3>2. CASE j # k
      BY <1>2, <2>2, <3>2 DEF OnceInv, LineInv
    <3> QED  BY <3>1, <3>2
  <2> QED  BY <1>1, <2>1, <2>2 DEF LineInv, Passed
<1>7. SpotInv'
  BY <1>1, <1>2 DEF OnceInv, SpotInv
<1>8. TicketInv'
  BY <1>1, <1>3, <1>4 DEF OnceInv, TicketInv, sche
<1> QED  BY <1>1, <1>3, <1>4, <1>6, <1>7, <1>8 DEF StageKeeps, FreshStays, Fresh

LEMMA StageSentOnce ==
  ASSUME Inv, OnceInv, NEW k \in Stages, StageSent(k)
  PROVE  StageKeeps
<1> DEFINE i == hold[k]
<1>1. /\ UNCHANGED <<sche, ticket, passed>> /\ i # NoItem /\ i \in Items
      /\ slot[k] = NoItem /\ slot' = [slot EXCEPT ![k] = i]
      /\ hold' = [hold EXCEPT ![k] = NoItem]
      /\ pump[k] = "send" /\ pump' = [pump EXCEPT ![k] = "pull"]
      /\ k \in Pumps /\ k \in Links
  BY StageNumbers, PipelineAssumption
     DEF StageSent, Sendable, Pumping, Inv, StageInv, StagesOK, HoldInv
<1>2. /\ slot'[k] = i /\ \A j \in Links : j # k => slot'[j] = slot[j]
      /\ hold'[k] = NoItem /\ \A j \in Pumps : j # k => hold'[j] = hold[j]
      /\ \A j \in Pumps : j # k => pump'[j] = pump[j]
  BY <1>1 DEF Inv, StageInv, StagesOK
<1>3. \A x \in Items : Passed(x)' = Passed(x)
  BY <1>1 DEF Passed
<1>4. \A x \in Items : OffLine(x) => OffLine(x)'
  BY <1>1, <1>2 DEF OffLine
<1>5. Passed(i) = 1..k
  BY <1>1 DEF OnceInv, LineInv
<1>6. LineInv'
  <2>1. ASSUME NEW j \in Links, slot'[j] # NoItem PROVE Passed(slot'[j]) = 1..j
    BY <1>2, <1>5, <2>1 DEF OnceInv, LineInv
  <2>2. ASSUME NEW j \in Pumps, hold'[j] # NoItem
        PROVE  j \in Stages
               /\ Passed(hold'[j]) = IF pump'[j] = "send" THEN 1..j ELSE Before(j)
    BY <1>2, <2>2 DEF OnceInv, LineInv
  <2> QED  BY <1>1, <2>1, <2>2 DEF LineInv, Passed
<1>7. SpotInv'
  BY <1>1, <1>2 DEF OnceInv, SpotInv
<1>8. TicketInv'
  BY <1>1, <1>3, <1>4 DEF OnceInv, TicketInv, sche
<1> QED  BY <1>1, <1>3, <1>4, <1>6, <1>7, <1>8 DEF StageKeeps, FreshStays, Fresh

(* An item is lost to a canceled link: the ticket stays as it was.           *)
LEMMA DroppedOnce ==
  ASSUME Inv, OnceInv,
         \/ \E k \in Stages : StageDropped(k)
         \/ \E k \in Links : LinkStop(k)
         \/ \E k \in Pumps : PumpLeave(k)
  PROVE  StageKeeps
<1>1. UNCHANGED <<sche, ticket, passed>>
  BY DEF StageDropped, LinkStop, PumpLeave
<1>2. /\ \A j \in Links : slot'[j] = slot[j] \/ slot'[j] = NoItem
      /\ \A j \in Pumps : \/ hold'[j] = hold[j] /\ (hold[j] # NoItem => pump'[j] = pump[j])
                          \/ hold'[j] = NoItem
  BY DEF StageDropped, LinkStop, PumpLeave, Pumping, Inv, StageInv, StagesOK, HoldInv
<1>3. \A x \in Items : Passed(x)' = Passed(x)
  BY <1>1 DEF Passed
<1>4. \A x \in Items : OffLine(x) => OffLine(x)'
  BY <1>2, PipelineAssumption DEF OffLine
<1>5. LineInv'
  BY <1>1, <1>2 DEF OnceInv, LineInv, Passed
<1>6. SpotInv'
  BY <1>2, PipelineAssumption DEF OnceInv, SpotInv
<1>7. TicketInv'
  BY <1>1, <1>3, <1>4 DEF OnceInv, TicketInv, sche
<1> QED  BY <1>1, <1>3, <1>4, <1>5, <1>6, <1>7 DEF StageKeeps, FreshStays, Fresh

(* A job that succeeds counts for its stage; its item may be dropped at once. *)
LEMMA JobOkOnce ==
  ASSUME Inv, OnceInv, NEW k \in Stages, JobOk(k)
  PROVE  StageKeeps
<1>0. /\ hold \in [Pumps -> Items \cup {NoItem}] /\ k \in Pumps /\ pump[k] = "job"
      /\ hold[k] \in Items /\ hold[k] # NoItem
  BY StageNumbers, PipelineAssumption DEF JobOk, Inv, StageInv, StagesOK, HoldInv
<1> PICK i \in Items : i = hold[k]
  BY <1>0
<1>1. /\ UNCHANGED <<sche, ticket, slot>> /\ i # NoItem /\ hold[k] = i
      /\ passed' = [passed EXCEPT ![k] = passed[k] \cup {i}]
      /\ pump[k] = "job" /\ k \in Pumps
      /\ \/ hold' = hold /\ pump' = [pump EXCEPT ![k] = "send"]
         \/ hold' = [hold EXCEPT ![k] = NoItem] /\ pump' = [pump EXCEPT ![k] = "pull"]
  <2>1. hold = [hold EXCEPT ![k] = hold[k]]
    BY <1>0
  <2> QED  BY <1>0, <2>1 DEF JobOk, Pumping
<1>2. /\ \A j \in Pumps : j # k => hold'[j] = hold[j] /\ pump'[j] = pump[j]
      /\ hold'[k] = NoItem \/ (hold'[k] = i /\ pump'[k] = "send")
  BY <1>1 DEF Inv, StageInv, StagesOK
<1>3. /\ \A x \in Items : x # i => Passed(x)' = Passed(x)
      /\ Passed(i)' = Passed(i) \cup {k}
  BY <1>1 DEF Passed, Inv, StageInv, StagesOK
<1>4. \A x \in Items : OffLine(x) => OffLine(x)' /\ x # i
  BY <1>1, <1>2, PipelineAssumption DEF OffLine
<1>5. Passed(i)' = 1..k
  BY <1>1, <1>3, StageNumbers DEF OnceInv, LineInv
<1>6. LineInv'
  <2>1. ASSUME NEW j \in Links, slot'[j] # NoItem PROVE Passed(slot[j])' = 1..j
    <3>1. slot[j] \in Items /\ slot[j] # i
      BY <1>1, <2>1 DEF Inv, StageInv, StagesOK, OnceInv, SpotInv
    <3> QED  BY <1>1, <1>3, <2>1, <3>1 DEF OnceInv, LineInv, Passed
  <2>2. ASSUME NEW j \in Pumps, hold'[j] # NoItem
        PROVE  j \in Stages
               /\ Passed(hold[j])' = IF pump'[j] = "send" THEN 1..j ELSE Before(j)
    <3>1. CASE j = k
      BY <1>2, <1>5, <2>2, <3>1 DEF Passed
    <3>2. CASE j # k
      <4>1. hold'[j] = hold[j] /\ hold[j] \in Items /\ hold[j] # i
        BY <1>1, <1>2, <2>2, <3>2 DEF Inv, StageInv, StagesOK, OnceInv, SpotInv
      <4> QED  BY <1>2, <1>3, <2>2, <3>2, <4>1 DEF OnceInv, LineInv, Passed
    <3> QED  BY <3>1, <3>2
  <2> QED  BY <2>1, <2>2 DEF LineInv
<1>7. SpotInv'
  BY <1>1, <1>2 DEF OnceInv, SpotInv
<1>8. TicketInv'
  <2>1. ASSUME NEW x \in Items, ticket[x] # "none" PROVE OffLine(x)' /\ Passed(x)' = Passed(x)
    BY <1>3, <1>4, <2>1 DEF OnceInv, TicketInv
  <2> QED  BY <1>1, <2>1 DEF OnceInv, TicketInv, sche
<1> QED  BY <1>1, <1>3, <1>4, <1>6, <1>7, <1>8 DEF StageKeeps, FreshStays, Fresh

(* An item leaves the line and its ticket is completed with what it passed.  *)
LEMMA LeaveOnce ==
  ASSUME Inv, OnceInv, NEW i \in Items, NEW o \in {"out", "failed"},
         UNCHANGED <<sche, passed>>, Complete(i, o), ~OffLine(i), OffLine(i)',
         IF o = "out" THEN Passed(i) = Stages ELSE Passed(i) # Stages,
         \A j \in Links : slot'[j] = slot[j] \/ slot'[j] = NoItem,
         \A j \in Pumps : \/ hold'[j] = hold[j] /\ pump'[j] = pump[j]
                          \/ hold'[j] = NoItem
  PROVE  StageKeeps
<1>1. \A x \in Items : Passed(x)' = Passed(x)
  BY DEF Passed
<1>2. \A x \in Items : OffLine(x) => OffLine(x)' /\ x # i
  BY PipelineAssumption DEF OffLine
<1>3. ticket[i] = "none"
  BY DEF OnceInv, TicketInv
<1>4. ticket'[i] = o /\ \A x \in Items : x # i => ticket'[x] = ticket[x]
  BY <1>3 DEF Complete, Inv, StageInv, StagesOK
<1>5. LineInv'
  BY DEF OnceInv, LineInv, Passed
<1>6. SpotInv'
  BY PipelineAssumption DEF OnceInv, SpotInv
<1>7. TicketInv'
  <2>1. ASSUME NEW x \in Items
        PROVE  /\ ticket'[x] # "none" => OffLine(x)'
               /\ ticket'[x] = "out" => Passed(x)' = Stages
               /\ ticket'[x] = "failed" => Passed(x)' # Stages
               /\ res'[x] \in {"out", "failed"} => ticket'[x] = res'[x]
    <3>1. CASE x = i
      BY <1>1, <1>3, <1>4, <3>1 DEF OnceInv, TicketInv, sche
    <3>2. CASE x # i
      BY <1>1, <1>2, <1>4, <3>2 DEF OnceInv, TicketInv, sche
    <3> QED  BY <3>1, <3>2
  <2>2. ASSUME NEW w \in Workers, drive'[w] = "finish", outcome'[w] \in {"out", "failed"}
        PROVE  ticket'[work'[w]] = outcome'[w]
    <3>1. work'[w] = work[w] /\ work[w] \in Items /\ ticket[work[w]] = outcome[w]
      BY <2>2 DEF OnceInv, TicketInv, sche, Inv, ScheInv, DriveInv
    <3> QED  BY <1>3, <1>4, <2>2, <3>1 DEF sche
  <2> QED  BY <2>1, <2>2 DEF TicketInv
<1>8. FreshStays
  BY <1>1, <1>2, <1>4 DEF FreshStays, Fresh
<1> QED  BY <1>5, <1>6, <1>7, <1>8 DEF StageKeeps

LEMMA JobFailOnce ==
  ASSUME Inv, OnceInv, NEW k \in Stages, JobFail(k)
  PROVE  StageKeeps
<1>0. /\ k \in Pumps /\ pump[k] = "job" /\ hold[k] \in Items /\ hold[k] # NoItem
  BY StageNumbers, PipelineAssumption DEF JobFail, Inv, StageInv, HoldInv
<1> PICK i \in Items : i = hold[k]
  BY <1>0
<1>1. /\ UNCHANGED <<sche, passed, slot>> /\ i # NoItem /\ hold[k] = i /\ Complete(i, "failed")
      /\ hold' = [hold EXCEPT ![k] = NoItem] /\ pump' = [pump EXCEPT ![k] = "pull"]
  BY <1>0 DEF JobFail, Pumping
<1>2. hold'[k] = NoItem /\ \A j \in Pumps : j # k => hold'[j] = hold[j] /\ pump'[j] = pump[j]
  BY <1>0, <1>1 DEF Inv, StageInv, StagesOK
<1>3. ~OffLine(i)
  BY <1>0, <1>1 DEF OffLine
<1>4. OffLine(i)'
  BY <1>0, <1>1, <1>2 DEF OffLine, OnceInv, SpotInv
<1>5. Passed(i) # Stages
  BY <1>0, <1>1, StageNumbers DEF OnceInv, LineInv
<1>6. \A j \in Links : slot'[j] = slot[j] \/ slot'[j] = NoItem
  BY <1>1
<1>7. \A j \in Pumps : (hold'[j] = hold[j] /\ pump'[j] = pump[j]) \/ hold'[j] = NoItem
  BY <1>2
<1> QED  BY <1>1, <1>3, <1>4, <1>5, <1>6, <1>7, LeaveOnce

LEMMA FinaleOnce ==
  ASSUME Inv, OnceInv, FinalePull
  PROVE  StageKeeps
<1>0. N \in Links /\ (N + 1) - 1 = N /\ slot[N] # NoItem /\ slot[N] \in Items
  <2>1. N \in Links /\ (N + 1) - 1 = N
    BY PipelineAssumption, StageNumbers
  <2> QED  BY <2>1 DEF FinalePull, Pull, Inv, StageInv, StagesOK
<1> PICK i \in Items : i = slot[N]
  BY <1>0
<1>1. /\ UNCHANGED <<sche, passed, hold, pump>> /\ i # NoItem /\ slot[N] = i
      /\ Complete(i, "out") /\ slot' = [slot EXCEPT ![N] = NoItem]
  BY <1>0 DEF FinalePull, Pull
<1>2. slot'[N] = NoItem /\ \A j \in Links : j # N => slot'[j] = slot[j]
  BY <1>0, <1>1 DEF Inv, StageInv, StagesOK
<1>3. ~OffLine(i)
  BY <1>0, <1>1 DEF OffLine
<1>4. OffLine(i)'
  BY <1>0, <1>1, <1>2 DEF OffLine, OnceInv, SpotInv
<1>5. Passed(i) = Stages
  BY <1>0, <1>1 DEF OnceInv, LineInv, Stages
<1>6. \A j \in Links : slot'[j] = slot[j] \/ slot'[j] = NoItem
  BY <1>2
<1>7. \A j \in Pumps : (hold'[j] = hold[j] /\ pump'[j] = pump[j]) \/ hold'[j] = NoItem
  BY <1>1
<1> QED  BY <1>1, <1>3, <1>4, <1>5, <1>6, <1>7, LeaveOnce

-----------------------------------------------------------------------------
LEMMA StagesOnce ==
  ASSUME Inv, OnceInv,
         \/ \E k \in Stages : StageStep(k) \/ JobOk(k) \/ JobFail(k)
         \/ FinalePull
         \/ \E k \in Pumps : PumpLeave(k)
         \/ \E k \in Links : LinkStop(k)
  PROVE  OnceInv'
<1>1. UNCHANGED <<push, sche>>
  BY DEF StageStep, StagePull, StageSent, StageDropped, JobOk, JobFail, FinalePull,
         PumpLeave, LinkStop
<1>2. StageKeeps
  BY PullOnce, StageSentOnce, DroppedOnce, JobOkOnce, JobFailOnce, FinaleOnce
     DEF StageStep
<1>3. EntryInv'
  BY <1>1, <1>2, EntrySame DEF OnceInv, StageKeeps, sche
<1> QED  BY <1>2, <1>3 DEF OnceInv, StageKeeps

(* Whatever else happens spawns a pump, which has nothing in its hands, or   *)
(* dismisses the queue.                                                      *)
LEMMA RestOnce ==
  ASSUME Inv, OnceInv,
         \/ RunBegin \/ RunStep \/ ParentCancel \/ ShutStep
         \/ PoolStep \/ PoolExpires \/ NestStep \/ StagesExpire
         \/ \E c \in Closers : CloseEnter(c) \/ CloseStep(c)
         \/ UNCHANGED vars
  PROVE  OnceInv'
<1>1. UNCHANGED <<push, work, drive, outcome, ticket, slot, hold, passed>>
  BY DEF RunBegin, RunStep, RunAdmission, RunNest, RunSpawn, RunStart, RunStartFails,
         RunPublish, RunAbort, RunFail, ParentCancel, ShutStep, ShutBegin, ShutSignal,
         ShutCancel, ShutPool, ShutJoin, PoolStep, PoolCancel, PoolStop, PoolExpires,
         NestStep, WatcherCancel, HookReturns, StagesDown, StagesExpire, CloseEnter,
         CloseStep, CloseShut, CloseCancel, CloseReturn, vars, sche, stages
<1>2. \A k \in Pumps : hold[k] # NoItem => pump'[k] = pump[k]
  <2>1. pump' = pump \/ \E k \in Pumps : RunSpawn(k)
    BY DEF RunBegin, RunStep, RunAdmission, RunNest, RunStart, RunStartFails,
         RunPublish, RunAbort, RunFail, ParentCancel, ShutStep, ShutBegin, ShutSignal,
         ShutCancel, ShutPool, ShutJoin, PoolStep, PoolCancel, PoolStop, PoolExpires,
         NestStep, WatcherCancel, HookReturns, StagesDown, StagesExpire, CloseEnter,
         CloseStep, CloseShut, CloseCancel, CloseReturn, vars, stages
  <2>2. ASSUME NEW k \in Pumps, RunSpawn(k), NEW j \in Pumps, hold[j] # NoItem
        PROVE  pump'[j] = pump[j]
    <3>1. pump[k] = "none"
      BY <2>2, PipelineAssumption DEF RunSpawn, Pumps
    <3>2. hold[k] = NoItem
      BY <3>1 DEF Inv, StageInv, HoldInv
    <3> QED  BY <2>2, <3>2 DEF RunSpawn, Pumping, Inv, StageInv, StagesOK
  <2> QED  BY <2>1, <2>2
<1>3. /\ UNCHANGED <<queue, res>>
      \/ /\ queue' = <<>>
         /\ res' = [i \in Items |-> IF InQueue(i) THEN "SCHEDULER_CANCELED" ELSE res[i]]
  <2>1. UNCHANGED <<queue, res>> \/ Dismiss
    BY DEF RunBegin, RunStep, RunAdmission, RunNest, RunSpawn, RunStart, RunStartFails,
         RunPublish, RunAbort, RunFail, ParentCancel, ShutStep, ShutBegin, ShutSignal,
         ShutCancel, ShutPool, ShutJoin, PoolStep, PoolCancel, PoolStop, PoolExpires,
         NestStep, WatcherCancel, HookReturns, StagesDown, StagesExpire, CloseEnter,
         CloseStep, CloseShut, CloseCancel, CloseReturn, vars, sche
  <2> QED  BY <2>1 DEF Dismiss, InQueue
<1>4. LineInv'
  BY <1>1, <1>2 DEF OnceInv, LineInv, Passed
<1>5. SpotInv' /\ FreshStays
  BY <1>1, LineSame DEF OnceInv
<1>6. \A x \in Items : res'[x] \in {"out", "failed"} => res[x] = res'[x]
  BY <1>3
<1>7. TicketInv'
  BY <1>1, <1>6 DEF OnceInv, TicketInv, OffLine, Passed
<1>8. EntryInv'
  <2>1. CASE UNCHANGED queue
    BY <1>1, <1>5, <2>1, EntrySame DEF OnceInv
  <2>2. CASE queue' = <<>>
    <3>1. DOMAIN queue' = {} /\ \A x \in Items : ~InQueue(x)'
      BY <2>2 DEF InQueue
    <3>2. \A x \in Items : InWork(x)' <=> InWork(x)
      BY <1>1 DEF InWork
    <3>3. \A w \in Workers : drive[w] = "send" => work[w] \in Items
      BY DEF Inv, ScheInv, DriveInv
    <3> QED  BY <1>1, <1>5, <3>1, <3>2, <3>3 DEF OnceInv, EntryInv, FreshStays
  <2> QED  BY <1>3, <2>1, <2>2
<1> QED  BY <1>4, <1>5, <1>7, <1>8 DEF OnceInv

LEMMA OnceInit == Init => OnceInv
<1> SUFFICES ASSUME Init PROVE OnceInv
  OBVIOUS
<1>1. /\ \A k \in Links : slot[k] = NoItem
      /\ \A k \in Pumps : hold[k] = NoItem
      /\ \A i \in Items : Passed(i) = {} /\ ticket[i] = "none" /\ res[i] = "none"
      /\ \A w \in Workers : drive[w] = "idle"
      /\ DOMAIN queue = {}
  BY DEF Init, Passed, Stages
<1>2. \A i \in Items : Fresh(i) /\ ~InQueue(i) /\ ~InWork(i)
  BY <1>1, PipelineAssumption DEF Fresh, OffLine, InQueue, InWork
<1>3. LineInv /\ SpotInv
  BY <1>1 DEF LineInv, SpotInv
<1>4. TicketInv /\ EntryInv
  BY <1>1, <1>2 DEF TicketInv, EntryInv
<1> QED  BY <1>3, <1>4 DEF OnceInv

LEMMA OnceInductive == Spec => [](Inv /\ OnceInv)
<1>1. Inv /\ OnceInv /\ [Next]_vars => OnceInv'
  <2> SUFFICES ASSUME Inv, OnceInv, [Next]_vars PROVE OnceInv'
    OBVIOUS
  <2>1. ASSUME NEW w \in Workers, WorkerStep(w) PROVE OnceInv'
    <3>1. CASE TakeLate(w) /\ ~TakesHead(w)
      <4>1. UNCHANGED <<stages, push, work, queue, drive, outcome, res>>
        BY <3>1 DEF TakeLate
      <4> QED  BY <4>1, LineSame, TicketSame, EntrySame DEF OnceInv, stages
    <3> QED  BY <2>1, <3>1, TakeOnce, SentOnce, DriveOnce DEF WorkerStep, Take
  <2> QED  BY <2>1, PushOnce, StagesOnce, RestOnce DEF Next
<1> QED  BY <1>1, InvInit, OnceInit, InvStep, PTL DEF Spec

(* In at most one place: one link, or one pair of hands, or neither.         *)
LEMMA AtMostOne ==
  ASSUME NEW S, \A x, y \in S : x = y
  PROVE  Cardinality(S) \in {0, 1} /\ (S = {} => Cardinality(S) = 0)
<1>1. CASE S = {}
  BY <1>1, FS_EmptySet
<1>2. CASE S # {}
  <2>1. PICK x : x \in S
    BY <1>2
  <2>2. S = {x}
    BY <2>1
  <2> QED  BY <1>2, <2>2, FS_Singleton
<1> QED  BY <1>1, <1>2

(* An item goes through the stages once and in their order, is in one place  *)
(* at most, and its Result is an output only after the last of them and a    *)
(* failure only off the line: for any number of stages, items and workers,   *)
(* whoever is canceled meanwhile.                                            *)
THEOREM ItemsPassOnce == Spec => []Once
<1>1. Inv /\ OnceInv => Once
  <2> SUFFICES ASSUME Inv, OnceInv, NEW i \in Items
      PROVE  /\ \A k \in Links : slot[k] = i => Passed(i) = 1..k
             /\ \A k \in Stages : hold[k] = i =>
                  Passed(i) = IF pump[k] = "send" THEN 1..k ELSE Before(k)
             /\ Cardinality({k \in Links : slot[k] = i})
                  + Cardinality({k \in Pumps : hold[k] = i}) <= 1
             /\ "out" \in {ticket[i], res[i]} => Passed(i) = Stages
             /\ "failed" \in {ticket[i], res[i]} =>
                  /\ Passed(i) # Stages
                  /\ i \notin {slot[k] : k \in Links} \cup {hold[k] : k \in Pumps}
    BY DEF Once
  <2>1. i # NoItem
    BY PipelineAssumption
  <2>2. \A k \in Links : slot[k] = i => Passed(i) = 1..k
    BY <2>1 DEF OnceInv, LineInv
  <2>3. \A k \in Stages : hold[k] = i =>
          Passed(i) = IF pump[k] = "send" THEN 1..k ELSE Before(k)
    BY <2>1, StageNumbers DEF OnceInv, LineInv
  <2>4. Cardinality({k \in Links : slot[k] = i})
          + Cardinality({k \in Pumps : hold[k] = i}) <= 1
    <3> DEFINE L == {k \in Links : slot[k] = i}
               P == {k \in Pumps : hold[k] = i}
    <3>1. /\ \A x, y \in L : x = y
          /\ \A x, y \in P : x = y
          /\ L = {} \/ P = {}
      BY <2>1 DEF OnceInv, SpotInv
    <3>2. /\ Cardinality(L) \in {0, 1} /\ (L = {} => Cardinality(L) = 0)
          /\ Cardinality(P) \in {0, 1} /\ (P = {} => Cardinality(P) = 0)
      <4> HIDE DEF L, P
      <4> QED  BY <3>1, AtMostOne
    <3> QED  BY <3>1, <3>2
  <2>5. "out" \in {ticket[i], res[i]} => Passed(i) = Stages
    BY DEF OnceInv, TicketInv
  <2>6. "failed" \in {ticket[i], res[i]} => ticket[i] = "failed"
    BY DEF OnceInv, TicketInv
  <2>7. "failed" \in {ticket[i], res[i]} =>
          /\ Passed(i) # Stages
          /\ i \notin {slot[k] : k \in Links} \cup {hold[k] : k \in Pumps}
    BY <2>6 DEF OnceInv, TicketInv, OffLine
  <2> QED  BY <2>2, <2>3, <2>4, <2>5, <2>7
<1> QED  BY <1>1, OnceInductive, PTL

-----------------------------------------------------------------------------
(* While nothing has canceled the pipeline, no link is canceled, no pump has *)
(* left, and the scheduler is running once Run has started it.               *)
Quiet == ~stopping /\ ~parentDone /\ run \notin {"aborting", "failed"}
QuietInv ==
  Quiet => /\ phase = "open" /\ ~dispatched
           /\ shut = "no" /\ cut = 0 /\ stopped = {}
           /\ pool \notin {"closing", "closed"}
           /\ \A c \in Closers : closer[c] = "idle"
           /\ \A k \in Pumps : pump[k] # "exited"
           /\ run \in {"starting", "publishing", "ok"} => \A k \in Pumps : pump[k] # "none"

(* And then no item is lost: one that a worker waits for and whose ticket is *)
(* open is in the line.                                                      *)
LostInv ==
  Quiet => \A w \in Workers :
             drive[w] = "wait" /\ ticket[work[w]] = "none" => ~OffLine(work[w])

LEMMA QuietStays == [Next]_vars /\ Quiet' => Quiet
BY DEF Quiet, Next, PushGuard, PushStep, PushLook, PushReady, PushRefused, PushAccepted,
       PushLate, WorkerStep, Take, TakeLate, TakesHead, DriveSent, DriveDropped, DriveEnd,
       Finish, StageStep, StagePull,
       StageSent, StageDropped, JobOk, JobFail, FinalePull, PumpLeave, LinkStop, RunBegin,
       RunStep, RunAdmission, RunNest, RunSpawn, RunStart, RunStartFails, RunPublish,
       RunAbort, RunFail, RunAt, ParentCancel, ShutStep, ShutBegin, ShutSignal, ShutCancel,
       ShutPool, ShutJoin, PoolStep, PoolCancel, PoolStop, PoolExpires, NestStep,
       WatcherCancel, HookReturns, StagesDown, StagesExpire, CloseEnter, CloseStep,
       CloseShut, CloseCancel, CloseReturn, vars, flags

LEMMA QuietStep ==
  ASSUME Inv, QuietInv, [Next]_vars
  PROVE  QuietInv'
<1> SUFFICES ASSUME Quiet' PROVE QuietInv'
  BY DEF QuietInv
<1>1. /\ phase = "open" /\ ~dispatched
      /\ shut = "no" /\ cut = 0 /\ stopped = {} /\ pool \notin {"closing", "closed"}
      /\ \A c \in Closers : closer[c] = "idle"
      /\ \A k \in Pumps : pump[k] # "exited"
      /\ run \in {"starting", "publishing", "ok"} => \A k \in Pumps : pump[k] # "none"
      /\ ~stopping /\ ~parentDone /\ run \notin {"aborting", "failed"}
  BY QuietStays DEF QuietInv, Quiet
<1>2. ~stopping' /\ ~parentDone' /\ run' \notin {"aborting", "failed"}
  BY DEF Quiet
<1>3. CASE \/ \E i \in Items : PushGuard(i) \/ PushStep(i)
           \/ \E w \in Workers : WorkerStep(w)
           \/ FinalePull
           \/ UNCHANGED vars
  <2>1. UNCHANGED <<flags, down, pool, stopped, pump, nestVars>>
    BY <1>3 DEF PushGuard, PushStep, PushLook, PushReady, PushRefused, PushAccepted, PushLate,
         WorkerStep, Take, TakeLate, TakesHead, DriveSent, DriveDropped, DriveEnd, Finish,
         FinalePull, vars, sche, stages
  <2> QED  BY <1>1, <2>1 DEF QuietInv, flags, down, nestVars
<1>4. CASE \/ \E k \in Stages : StageStep(k) \/ JobOk(k) \/ JobFail(k)
           \/ \E k \in Pumps : PumpLeave(k)
           \/ \E k \in Links : LinkStop(k)
  <2>1. ~\E k \in Pumps : PumpLeave(k)
    BY <1>1 DEF PumpLeave
  <2>2. ~\E k \in Links : LinkStop(k)
    BY <1>1 DEF LinkStop, Canceled, Links
  <2>3. PICK k \in Stages : StageStep(k) \/ JobOk(k) \/ JobFail(k)
    BY <1>4, <2>1, <2>2
  <2>4. UNCHANGED <<flags, down, pool, stopped, nestVars>>
    BY <2>3 DEF StageStep, StagePull, StageSent, StageDropped, JobOk, JobFail, sche
  <2>5. \E at \in {"pull", "job", "send"} : pump' = [pump EXCEPT ![k] = at]
    BY <2>3 DEF StageStep, StagePull, StageSent, StageDropped, JobOk, JobFail, Pumping
  <2>6. \A j \in Pumps : pump'[j] # "exited" /\ (pump[j] # "none" => pump'[j] # "none")
    BY <1>1, <2>5 DEF Inv, StageInv, StagesOK
  <2> QED  BY <1>1, <2>4, <2>6 DEF QuietInv, flags, down, nestVars
<1>5. CASE RunBegin \/ RunStep
  <2>1. UNCHANGED <<closer, down, stopped>> /\ ~RunAbort
    BY <1>1, <1>5 DEF RunBegin, RunStep, RunAdmission, RunNest, RunSpawn, RunStart,
         RunStartFails, RunPublish, RunAbort, RunFail, stages, flags
  <2>2. UNCHANGED <<phase, dispatched>>
    BY <1>5, <2>1 DEF RunBegin, RunStep, RunAdmission, RunNest, RunSpawn, RunStart,
         RunStartFails, RunPublish, RunFail, nest!Spawn, nest!SpawnRefused, nestVars,
         nest!nestVars
  <2>3. pool' \notin {"closing", "closed"}
    BY <1>1, <1>5 DEF RunBegin, RunStep, RunAdmission, RunNest, RunSpawn, RunStart,
         RunStartFails, RunPublish, RunAbort, RunFail, sche
  <2>4. CASE \E k \in Pumps : RunSpawn(k)
    <3>1. PICK k \in Pumps : RunSpawn(k)
      BY <2>4
    <3>2. /\ pump' = [pump EXCEPT ![k] = "pull"] /\ run = "spawning"
          /\ run' = IF k = N + 1 THEN "starting" ELSE run
          /\ \A j \in Pumps : pump[j] = "none" <=> j >= k
      BY <1>2, <3>1 DEF RunSpawn, Pumping, RunAt
    <3>3. \A j \in Pumps : pump'[j] # "exited"
      BY <1>1, <3>2 DEF Inv, StageInv, StagesOK
    <3>4. ASSUME k = N + 1, NEW j \in Pumps PROVE pump'[j] # "none"
      <4>1. j = k \/ ~(j >= k)
        BY <3>4, PipelineAssumption DEF Pumps
      <4> QED  BY <3>2, <4>1 DEF Inv, StageInv, StagesOK
    <3> QED  BY <1>1, <2>1, <2>2, <2>3, <3>2, <3>3, <3>4 DEF QuietInv, down
  <2>5. CASE ~\E k \in Pumps : RunSpawn(k)
    <3>1. UNCHANGED pump
      BY <1>5, <2>5 DEF RunBegin, RunStep, RunAdmission, RunNest, RunStart,
         RunStartFails, RunPublish, RunAbort, RunFail, stages
    <3>2. run' \in {"starting", "publishing", "ok"} => run \in {"starting", "publishing", "ok"}
      BY <1>5, <2>5 DEF RunBegin, RunStep, RunAdmission, RunNest, RunStart,
         RunStartFails, RunPublish, RunAbort, RunFail, RunAt, flags
    <3> QED  BY <1>1, <2>1, <2>2, <2>3, <3>1, <3>2 DEF QuietInv, down
  <2> QED  BY <2>4, <2>5
<1>6. CASE \/ ParentCancel \/ ShutStep \/ PoolStep \/ PoolExpires \/ NestStep \/ StagesExpire
           \/ \E c \in Closers : CloseEnter(c) \/ CloseStep(c)
  <2> USE <1>1, <1>2
  <2>1. ~ParentCancel /\ ~PoolStep /\ ~PoolExpires
    BY DEF ParentCancel, PoolStep, PoolCancel, PoolStop, PoolExpires
  <2>2. ~ShutStep
    BY DEF ShutStep, ShutBegin, ShutSignal, ShutCancel, ShutPool, ShutJoin
  <2>3. ~NestStep /\ ~StagesExpire
    BY DEF NestStep, WatcherCancel, HookReturns, StagesDown, StagesExpire, nest!Drained,
           nest!CloseDone, nest!Expire
  <2>4. ~\E c \in Closers : CloseEnter(c) \/ CloseStep(c)
    BY DEF CloseEnter, CloseStep, CloseShut, CloseCancel, CloseReturn
  <2> QED  BY <1>6, <2>1, <2>2, <2>3, <2>4
<1> QED  BY <1>3, <1>4, <1>5, <1>6 DEF Next

(* An item leaves the line with its ticket completed, or not at all.         *)
LEMMA LostStep ==
  ASSUME Inv, OnceInv, QuietInv, LostInv, [Next]_vars
  PROVE  LostInv'
<1> SUFFICES ASSUME Quiet', NEW w \in Workers, drive'[w] = "wait",
                    ticket'[work'[w]] = "none", OffLine(work[w])'
             PROVE  FALSE
  BY DEF LostInv
<1>1. /\ cut = 0 /\ stopped = {} /\ Quiet
      /\ \A v \in Workers :
           drive[v] = "wait" /\ ticket[work[v]] = "none" => ~OffLine(work[v])
  BY QuietStays DEF LostInv, QuietInv
<1>2. /\ drive \in [Workers -> DrivePcs] /\ work \in [Workers -> Items \cup {NoItem}]
      /\ ticket \in [Items -> {"none", "out", "failed"}]
      /\ slot \in [Links -> Items \cup {NoItem}] /\ hold \in [Pumps -> Items \cup {NoItem}]
      /\ \A v \in Workers : drive[v] # "idle" => work[v] \in Items
  BY DEF Inv, ScheInv, ScheOK, DriveInv, StageInv, StagesOK
<1>3. \A k \in Nat : ~Canceled(k)
  BY <1>1 DEF Canceled
<1>4. CASE \E v \in Workers : WorkerStep(v)
  <2>1. PICK v \in Workers : WorkerStep(v)
    BY <1>4
  <2>2. CASE v = w
    <3>1. DriveSent(w)
      <4>1. ~DriveDropped(w) /\ ~DriveEnd(w) /\ ~Finish(w)
        BY <1>2, <1>3 DEF DriveDropped, DriveEnd, Finish, Drives
      <4>2. ~Take(w) /\ ~TakeLate(w)
        BY <1>2, <1>3 DEF Take, TakeLate, TakesHead, Drives
      <4> QED  BY <2>1, <2>2, <4>1, <4>2 DEF WorkerStep
    <3>2. 0 \in Links /\ slot'[0] = work'[w]
      BY <1>2, <3>1, PipelineAssumption DEF DriveSent, Links
    <3> QED  BY <3>2 DEF OffLine
  <2>3. CASE v # w
    <3>1. drive[w] = "wait" /\ work'[w] = work[w] /\ UNCHANGED <<ticket, hold>>
      BY <1>2, <2>1, <2>3 DEF WorkerStep, Take, TakeLate, TakesHead, DriveSent,
                              DriveDropped, DriveEnd, Finish, Drives, stages
    <3>2. \A k \in Links : slot[k] = work[w] => slot'[k] = work[w]
      <4>1. work[w] # NoItem
        BY <1>2, <3>1, PipelineAssumption
      <4>2. slot' = slot \/ (slot[0] = NoItem /\ slot' = [slot EXCEPT ![0] = work[v]])
        BY <2>1 DEF WorkerStep, Take, TakeLate, TakesHead, DriveSent, DriveDropped,
                    DriveEnd, Finish, Sendable, stages
      <4> QED  BY <1>2, <4>1, <4>2
    <3>3. ~OffLine(work[w])
      BY <1>1, <3>1
    <3> QED  BY <3>1, <3>2, <3>3 DEF OffLine
  <2> QED  BY <2>2, <2>3
<1>5. ASSUME UNCHANGED <<work, drive>>,
             \A i \in Items : ticket[i] = ticket'[i] \/ ticket'[i] # "none",
             \A k \in Links : slot[k] = work[w] =>
               ~OffLine(work[w])' \/ ticket'[work[w]] # "none",
             \A k \in Pumps : hold[k] = work[w] =>
               ~OffLine(work[w])' \/ ticket'[work[w]] # "none"
      PROVE  FALSE
  BY <1>1, <1>2, <1>5 DEF OffLine
<1>6. CASE UNCHANGED <<work, drive, ticket, slot, hold>>
  BY <1>5, <1>6 DEF OffLine
<1>7. CASE \E k \in Stages : StageStep(k) \/ JobOk(k) \/ JobFail(k)
  <2>1. PICK k \in Stages : StageStep(k) \/ JobOk(k) \/ JobFail(k)
    BY <1>7
  <2>2. /\ k \in Pumps /\ k \in Links /\ k - 1 \in Links /\ k \in Nat
        /\ UNCHANGED <<work, drive>>
    BY <2>1, StageNumbers, PipelineAssumption
       DEF StageStep, StagePull, StageSent, StageDropped, JobOk, JobFail, sche, Stages
  <2>3. work[w] \in Items /\ work[w] # NoItem
    BY <1>2, <2>2, PipelineAssumption
  <2>4. CASE StagePull(k)
    <3>1. /\ ticket' = ticket /\ hold[k] = NoItem /\ hold' = [hold EXCEPT ![k] = slot[k - 1]]
          /\ slot' = [slot EXCEPT ![k - 1] = NoItem]
      BY <2>2, <2>4 DEF StagePull, Pull, Inv, StageInv, HoldInv
    <3> QED  BY <1>2, <1>5, <2>2, <2>3, <3>1 DEF OffLine
  <2>5. CASE StageSent(k)
    <3>1. /\ ticket' = ticket /\ hold' = [hold EXCEPT ![k] = NoItem]
          /\ slot[k] = NoItem /\ slot' = [slot EXCEPT ![k] = hold[k]]
      BY <2>5 DEF StageSent, Sendable
    <3> QED  BY <1>2, <1>5, <2>2, <2>3, <3>1 DEF OffLine
  <2>6. CASE JobOk(k)
    <3>1. UNCHANGED <<ticket, slot>> /\ hold' = [hold EXCEPT ![k] = hold[k]]
      BY <1>3, <2>2, <2>6 DEF JobOk
    <3>2. hold' = hold
      BY <1>2, <3>1
    <3> QED  BY <1>6, <2>2, <3>1, <3>2
  <2>7. CASE JobFail(k)
    <3>1. /\ slot' = slot /\ hold' = [hold EXCEPT ![k] = NoItem]
          /\ Complete(hold[k], "failed") /\ hold[k] \in Items
      BY <2>2, <2>7 DEF JobFail, Inv, StageInv, HoldInv
    <3>2. /\ ticket'[hold[k]] # "none"
          /\ \A i \in Items : ticket'[i] = ticket[i] \/ ticket'[i] # "none"
      BY <1>2, <3>1 DEF Complete
    <3> QED  BY <1>2, <1>5, <2>2, <2>3, <3>1, <3>2 DEF OffLine
  <2>8. ~StageDropped(k)
    BY <1>3, <2>2 DEF StageDropped
  <2> QED  BY <2>1, <2>4, <2>5, <2>6, <2>7, <2>8 DEF StageStep
<1>8. CASE FinalePull
  <2>1. (N + 1) - 1 = N /\ N \in Links
    BY PipelineAssumption, StageNumbers
  <2>2. /\ UNCHANGED <<work, drive, hold>> /\ slot[N] \in Items
        /\ slot' = [slot EXCEPT ![N] = NoItem] /\ Complete(slot[N], "out")
    BY <1>2, <1>8, <2>1 DEF FinalePull, Pull, sche
  <2>3. /\ ticket'[slot[N]] # "none"
        /\ \A i \in Items : ticket'[i] = ticket[i] \/ ticket'[i] # "none"
    BY <1>2, <2>2 DEF Complete
  <2> QED  BY <1>2, <1>5, <2>1, <2>2, <2>3 DEF OffLine
<1>9. CASE (\E k \in Pumps : PumpLeave(k)) \/ (\E k \in Links : LinkStop(k))
  <2>1. ~\E k \in Links : LinkStop(k)
    BY <1>3 DEF LinkStop, Links
  <2> QED  BY <1>6, <1>9, <2>1 DEF PumpLeave, sche
<1>10. CASE \E i \in Items : PushGuard(i) \/ PushStep(i)
  BY <1>6, <1>10 DEF PushGuard, PushStep, PushLook, PushReady, PushRefused,
                     PushAccepted, PushLate, sche, stages
<1>11. CASE \/ RunBegin \/ RunStep \/ ParentCancel \/ ShutStep
            \/ PoolStep \/ PoolExpires \/ NestStep \/ StagesExpire
            \/ \E c \in Closers : CloseEnter(c) \/ CloseStep(c)
            \/ UNCHANGED vars
  <2>1. UNCHANGED <<work, drive, ticket, slot, hold>>
    BY <1>11
       DEF RunBegin, RunStep, RunAdmission, RunNest, RunSpawn, RunStart, RunStartFails,
         RunPublish, RunAbort, RunFail, ParentCancel, ShutStep, ShutBegin, ShutSignal,
         ShutCancel, ShutPool, ShutJoin, PoolStep, PoolCancel, PoolStop, PoolExpires,
         NestStep, WatcherCancel, HookReturns, StagesDown, StagesExpire, CloseEnter,
         CloseStep, CloseShut, CloseCancel, CloseReturn, vars, sche, stages
  <2> QED  BY <1>6, <2>1
<1> QED  BY <1>4, <1>7, <1>8, <1>9, <1>10, <1>11 DEF Next

LEMMA QuietInit == Init => QuietInv /\ LostInv
<1> SUFFICES ASSUME Init PROVE QuietInv /\ LostInv
  OBVIOUS
<1>1. QuietInv
  BY DEF Init, QuietInv, nest!NestInit
<1>2. LostInv
  BY DEF Init, LostInv
<1> QED  BY <1>1, <1>2

LEMMA QuietInductive == Spec => [](Inv /\ OnceInv /\ QuietInv /\ LostInv)
<1>1. Init => QuietInv /\ LostInv
  BY QuietInit
<1>2. Inv /\ OnceInv /\ QuietInv /\ LostInv /\ [Next]_vars => QuietInv' /\ LostInv'
  BY QuietStep, LostStep
<1> QED  BY <1>1, <1>2, OnceInductive, PTL DEF Spec

-----------------------------------------------------------------------------
(* Of the links that hold an item one is the furthest.                       *)
LEMMA LeastNumber ==
  ASSUME NEW S, S \subseteq Nat, S # {}
  PROVE  \E x \in S : \A y \in S : x <= y
<1>1. PICK x \in S : \A y \in S : ~(<<y, x>> \in OpToRel(<, Nat))
  BY NatLessThanWellFounded, WFMin, Zenon
<1>2. x \in Nat /\ \A y \in S : y \in Nat
  OBVIOUS
<1>3. \A y \in S : ~(y < x)
  BY <1>1, <1>2 DEF OpToRel
<1>4. \A y \in S : x <= y
  BY <1>2, <1>3
<1> QED  BY <1>4

LEMMA FurthestLink ==
  ASSUME NEW S, S \subseteq Links, S # {}
  PROVE  \E k \in S : \A j \in S : j <= k
<1> DEFINE D == {N - k : k \in S}
<1>1. \A k \in S : k \in 0..N
  BY DEF Links
<1>2. D \subseteq Nat
  BY <1>1, PipelineAssumption
<1>3. D # {}
  OBVIOUS
<1>4. PICK d \in D : \A e \in D : d <= e
  <2> HIDE DEF D
  <2> QED  BY <1>2, <1>3, LeastNumber
<1>5. PICK k \in S : d = N - k
  OBVIOUS
<1>6. \A j \in S : N - k <= N - j
  BY <1>4, <1>5
<1>7. \A j \in S : j <= k
  BY <1>1, <1>6, PipelineAssumption
<1> QED  BY <1>7

(* If no pump can go on the line is empty: the pump behind the furthest link *)
(* that holds an item could pull it, or finds room to send its own on.       *)
LEMMA LineMoves ==
  ASSUME Inv, OnceInv, QuietInv, Quiet, run = "ok", \A k \in Pumps : ~PumpFlows(k)
  PROVE  (\A k \in Links : slot[k] = NoItem) /\ (\A k \in Pumps : hold[k] = NoItem)
<1>1. stopped = {} /\ \A k \in Pumps : pump[k] \in {"pull", "send"}
  <2>1. stopped = {} /\ \A k \in Pumps : pump[k] \notin {"none", "exited"}
    BY DEF QuietInv
  <2>2. \A k \in Pumps : pump[k] \in PumpPcs /\ pump[k] # "job"
    BY DEF PumpFlows, Inv, StageInv, StagesOK
  <2> QED  BY <2>1, <2>2 DEF PumpPcs
<1>2. pump[N + 1] = "pull" /\ N + 1 \in Pumps
  <2>1. N + 1 \in Pumps /\ N + 1 \notin Stages
    BY StageNumbers
  <2>2. hold[N + 1] = NoItem
    BY <2>1 DEF OnceInv, LineInv
  <2> QED  BY <1>1, <2>1, <2>2, PipelineAssumption DEF Inv, StageInv, HoldInv
<1>3. ASSUME NEW k \in Links, slot[k] # NoItem, \A j \in Links : slot[j] # NoItem => j <= k
      PROVE  FALSE
  <2>1. k + 1 \in Pumps /\ (k + 1) - 1 = k
    BY PipelineAssumption DEF Links, Pumps
  <2>2. pump[k + 1] = "send"
    BY <1>1, <1>3, <2>1 DEF PumpFlows
  <2>3. k + 1 \in Links /\ ~(k + 1 <= k)
    BY <1>2, <2>2, PipelineAssumption DEF Links
  <2>4. Sendable(k + 1)
    BY <1>1, <1>3, <2>3 DEF Sendable
  <2> QED  BY <2>1, <2>2, <2>4 DEF PumpFlows
<1>4. \A k \in Links : slot[k] = NoItem
  <2> DEFINE S == {k \in Links : slot[k] # NoItem}
  <2>1. S = {}
    <3>1. ASSUME S # {} PROVE \E k \in S : \A j \in S : j <= k
      <4>1. S \subseteq Links
        OBVIOUS
      <4> HIDE DEF S
      <4> QED  BY <3>1, <4>1, FurthestLink
    <3> QED  BY <1>3, <3>1
  <2> QED  BY <2>1
<1>5. ASSUME NEW k \in Pumps, pump[k] = "send" PROVE FALSE
  <2>1. k \in Links
    BY <1>5, <1>2, PipelineAssumption DEF Pumps, Links
  <2> QED  BY <1>1, <1>4, <1>5, <2>1 DEF Sendable, PumpFlows
<1>6. \A k \in Pumps : hold[k] = NoItem
  BY <1>1, <1>5 DEF Inv, StageInv, HoldInv
<1> QED  BY <1>4, <1>6

(* The pipeline never locks: for any numbers of items, stages and workers,   *)
(* and any bound on the queue, somebody can go on with an accepted item that *)
(* has no Result, as long as nothing has canceled the pipeline.              *)
THEOREM SomebodyGoesOn == Spec => []NeverStuck
<1>1. Inv /\ OnceInv /\ QuietInv /\ LostInv => NeverStuck
  <2> SUFFICES ASSUME Inv, OnceInv, QuietInv, LostInv,
                      Workers # {}, ~stopping, ~parentDone,
                      NEW i \in Items, push[i] = "ok", ~Settled(i),
                      \A w \in Workers : ~WorkerFlows(w),
                      \A k \in Pumps : ~PumpFlows(k)
               PROVE  FALSE
    BY DEF NeverStuck
  <2>1. run = "ok" /\ Quiet
    BY DEF Inv, RunInv, Quiet
  <2>2. pool = "running"
    BY <2>1 DEF Inv, RunInv, QuietInv
  <2>3. \A x \in Items : OffLine(x)
    BY <2>1, LineMoves, PipelineAssumption DEF OffLine
  <2>4. \A w \in Workers : drive[w] = "idle"
    <3> SUFFICES ASSUME NEW w \in Workers, drive[w] # "idle" PROVE FALSE
      OBVIOUS
    <3>1. drive[w] \in {"send", "wait"} /\ work[w] \in Items
      BY DEF WorkerFlows, Inv, ScheInv, ScheOK, DriveInv, DrivePcs
    <3>2. CASE drive[w] = "send"
      <4>1. Sendable(0)
        BY <2>1, LineMoves, PipelineAssumption DEF Sendable, QuietInv, Links
      <4> QED  BY <3>2, <4>1 DEF WorkerFlows
    <3>3. CASE drive[w] = "wait"
      BY <2>1, <2>3, <3>1, <3>3 DEF WorkerFlows, LostInv
    <3> QED  BY <3>1, <3>2, <3>3
  <2>5. queue # <<>>
    <3>1. InQueue(i)
      BY <2>4 DEF Inv, AcceptInv, InWork
    <3> QED  BY <3>1 DEF InQueue
  <2> QED  BY <2>2, <2>4, <2>5 DEF WorkerFlows
<1> QED  BY <1>1, QuietInductive, PTL
=============================================================================
