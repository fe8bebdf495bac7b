--------------------------- MODULE ObserverProofs ----------------------------
(***************************************************************************)
(* Proofs about Observer for any sets of senders, waiters and reasons.     *)
(*                                                                         *)
(* The double-checked creation of the done channel is right because of     *)
(* ChanInv: there is at most one channel, everybody who has one has that   *)
(* one, and it is among the closed ones from the step that records the     *)
(* cause.                                                                  *)
(***************************************************************************)
EXTENDS Observer, FiniteSetTheorems, TLAPS

ChanInv ==
  /\ \A p \in Callers : ch[p] # NoChan => ch[p] = done
  /\ \A p \in Callers : pc[p] = "select" => ch[p] # NoChan
  /\ closed \subseteq {ClosedCh, done}
  /\ done = NoChan => err = NoErr
  /\ done # NoChan => (done \in closed <=> err # NoErr)

IInv == TypeOK /\ ChanInv

-----------------------------------------------------------------------------
(* The model starts within its types, and every step stays within them.      *)
LEMMA TypeInit == Init => TypeOK
BY CallersAssumption DEF Init, TypeOK, Callers, Chans, Waiting, PumpPcs

LEMMA TypeStep == TypeOK /\ [Next]_vars => TypeOK'
<1> SUFFICES ASSUME TypeOK, [Next]_vars PROVE TypeOK'
  OBVIOUS
<1> USE CallersAssumption DEF TypeOK, Waiting, Ended, PumpPcs
<1>1. ASSUME NEW p \in Callers, LoadDone(p) PROVE TypeOK'
  BY <1>1 DEF LoadDone, Goto, Chans
<1>2. ASSUME NEW p \in Callers, MakeDone(p) PROVE TypeOK'
  BY <1>2 DEF MakeDone, Goto, Chans
<1>3. ASSUME NEW r \in Reasons, CancelCause(r) PROVE TypeOK'
  BY <1>3 DEF CancelCause, Cause, Chans
<1>4. ASSUME NEW v \in Values, SendTest(v) \/ SendDropped(v) PROVE TypeOK'
  BY <1>4 DEF SendTest, SendDropped, Goto, Callers
<1>5. ASSUME NEW v \in Values, Accept(v) PROVE TypeOK'
  BY <1>5 DEF Accept, Callers
<1>6. ASSUME NEW w \in Watchers, Watch(w) \/ WatchWakes(w) PROVE TypeOK'
  BY <1>6 DEF Watch, WatchWakes, Goto, Callers
<1>7. ASSUME Deliver PROVE TypeOK'
  BY <1>7 DEF Deliver, Goto, Callers
<1>8. ASSUME PumpStops PROVE TypeOK'
  BY <1>8 DEF PumpStops, Goto, Callers
<1>9. CASE UNCHANGED vars
  BY <1>9 DEF vars
<1> QED  BY <1>1, <1>2, <1>3, <1>4, <1>5, <1>6, <1>7, <1>8, <1>9 DEF Next

(* Every variable keeps its type for any number of concurrent callers.       *)
THEOREM TypeCorrect == Spec => []TypeOK
BY TypeInit, TypeStep, PTL DEF Spec

-----------------------------------------------------------------------------
(* No step makes a second done channel, hands out another one, or separates  *)
(* the recorded cause from the closing.                                      *)
LEMMA ChanStep == IInv /\ [Next]_vars => ChanInv'
<1> SUFFICES ASSUME IInv, [Next]_vars PROVE ChanInv'
  OBVIOUS
<1> USE CallersAssumption, ReasonsAssumption DEF IInv, TypeOK, ChanInv
<1>1. ASSUME NEW p \in Callers, LoadDone(p) PROVE ChanInv'
  BY <1>1 DEF LoadDone, Goto
<1>2. ASSUME NEW p \in Callers, MakeDone(p) PROVE ChanInv'
  <2>1. CASE done = NoChan
    <3>1. done' = p /\ p \notin closed /\ err = NoErr
      BY <1>2, <2>1 DEF MakeDone, Chans
    <3>2. \A q \in Callers : ch'[q] # NoChan => q = p /\ ch'[q] = p
      BY <1>2, <2>1, <3>1 DEF MakeDone
    <3> QED  BY <1>2, <2>1, <3>1, <3>2 DEF MakeDone, Goto, Chans
  <2>2. CASE done # NoChan
    BY <1>2, <2>2 DEF MakeDone, Goto
  <2> QED  BY <2>1, <2>2
<1>3. ASSUME NEW r \in Reasons, CancelCause(r) PROVE ChanInv'
  <2>1. err' # NoErr
    BY <1>3 DEF CancelCause, Cause
  <2>2. done' # NoChan /\ done' \in closed'
    BY <1>3 DEF CancelCause, Chans
  <2>3. \A p \in Callers : ch'[p] # NoChan => ch'[p] = done'
    BY <1>3 DEF CancelCause
  <2> QED  BY <1>3, <2>1, <2>2, <2>3 DEF CancelCause
<1>4. ASSUME NEW v \in Values, SendTest(v) \/ SendDropped(v) PROVE ChanInv'
  BY <1>4 DEF SendTest, SendDropped, Goto, Callers
<1>5. ASSUME NEW v \in Values, Accept(v) PROVE ChanInv'
  BY <1>5 DEF Accept, Callers
<1>6. ASSUME NEW w \in Watchers, Watch(w) \/ WatchWakes(w) PROVE ChanInv'
  BY <1>6 DEF Watch, WatchWakes, Goto, Callers
<1>7. ASSUME Deliver PROVE ChanInv'
  BY <1>7 DEF Deliver, Goto, Callers
<1>8. ASSUME PumpStops PROVE ChanInv'
  BY <1>8 DEF PumpStops, Goto, Callers
<1>9. CASE UNCHANGED vars
  BY <1>9 DEF vars
<1> QED  BY <1>1, <1>2, <1>3, <1>4, <1>5, <1>6, <1>7, <1>8, <1>9 DEF Next

LEMMA Inductive == Spec => []IInv
<1>1. Init => IInv
  BY TypeInit, CallersAssumption DEF Init, IInv, ChanInv
<1>2. IInv /\ [Next]_vars => IInv'
  BY TypeStep, ChanStep DEF IInv
<1> QED  BY <1>1, <1>2, PTL DEF Spec

(* Done hands out one channel, closed exactly when Err is set.               *)
THEOREM OneChannel == Spec => []OneSignal
<1>1. IInv => OneSignal
  BY DEF IInv, ChanInv, OneSignal
<1> QED  BY Inductive, <1>1, PTL

-----------------------------------------------------------------------------
(* The values in the line: what was sent and not yet read is in the pump, or *)
(* was there when it stopped.                                                *)
LineInv ==
  /\ Cardinality(Passed) = Len(got)
  /\ Passed \subseteq SentValues
  /\ pc[Pump] # "stopped" => SentValues \ Passed = {slot} \ {NoValue}
  /\ pc[Pump] = "stopped" => \E v : SentValues \ Passed \subseteq {v}

LEMMA LineSame ==
  ASSUME LineInv, UNCHANGED <<slot, got>>, SentValues' = SentValues,
         pc'[Pump] = "stopped" <=> pc[Pump] = "stopped"
  PROVE  LineInv'
BY DEF LineInv, Passed

(* One more value has been read.                                             *)
LEMMA PassedGrows ==
  ASSUME TypeOK, NEW v \in Values, got' = Append(got, v)
  PROVE  /\ Passed' = Passed \cup {v}
         /\ Len(got') = Len(got) + 1 /\ Len(got) \in Nat
         /\ IsFiniteSet(Passed) /\ Cardinality(Passed) \in Nat
         /\ v \notin Passed => Cardinality(Passed') = Cardinality(Passed) + 1
<1>1. got \in Seq(Values) /\ Len(got) \in Nat
  BY DEF TypeOK
<1>2. /\ Len(got') = Len(got) + 1
      /\ \A i \in 1..Len(got) : got'[i] = got[i]
      /\ got'[Len(got) + 1] = v
  BY <1>1
<1>3. Passed' = Passed \cup {v}
  <2>1. 1..Len(got') = 1..Len(got) \cup {Len(got) + 1}
    BY <1>1, <1>2
  <2> QED  BY <1>2, <2>1 DEF Passed
<1>4. Passed \in SUBSET Values
  BY <1>1 DEF Passed
<1>5. IsFiniteSet(Passed)
  BY <1>4, CallersAssumption, FS_Subset
<1>6. Cardinality(Passed) \in Nat
  BY <1>5, FS_CardinalityType
<1>7. v \notin Passed => Cardinality(Passed') = Cardinality(Passed) + 1
  BY <1>3, <1>5, FS_AddElement
<1> QED  BY <1>1, <1>2, <1>3, <1>5, <1>6, <1>7

LEMMA LineStep == IInv /\ LineInv /\ [Next]_vars => LineInv'
<1> SUFFICES ASSUME TypeOK, ChanInv, LineInv, [Next]_vars PROVE LineInv'
  BY DEF IInv
<1> USE CallersAssumption DEF Callers, Goto
<1>1. ASSUME NEW p \in Callers, LoadDone(p) \/ MakeDone(p) PROVE LineInv'
  <2>1. UNCHANGED <<slot, got>> /\ pc[p] # "sent" /\ pc[p] # "stopped"
    BY <1>1 DEF LoadDone, MakeDone
  <2>2. \E at : pc' = [pc EXCEPT ![p] = at] /\ at # "sent" /\ at # "stopped"
    BY <1>1 DEF LoadDone, MakeDone
  <2>3. SentValues' = SentValues /\ (pc'[Pump] = "stopped" <=> pc[Pump] = "stopped")
    BY <2>1, <2>2 DEF TypeOK, SentValues
  <2> QED  BY <2>1, <2>3, LineSame
<1>2. ASSUME NEW r \in Reasons, CancelCause(r) PROVE LineInv'
  BY <1>2, LineSame DEF CancelCause, SentValues
<1>3. ASSUME NEW v \in Values, SendTest(v) \/ SendDropped(v) PROVE LineInv'
  <2>1. SentValues' = SentValues /\ pc'[Pump] = pc[Pump]
    BY <1>3 DEF SendTest, SendDropped, TypeOK, SentValues
  <2> QED  BY <1>3, <2>1, LineSame DEF SendTest, SendDropped
<1>4. ASSUME NEW v \in Values, Accept(v) PROVE LineInv'
  <2>1. /\ slot = NoValue /\ slot' = v /\ v # NoValue
        /\ pc[Pump] # "stopped" /\ pc'[Pump] # "stopped"
    BY <1>4 DEF Accept, TypeOK
  <2>2. SentValues' = SentValues \cup {v} /\ v \notin SentValues
    BY <1>4 DEF Accept, TypeOK, SentValues
  <2>3. got' = got /\ Passed' = Passed
    BY <1>4 DEF Accept, Passed
  <2> QED  BY <2>1, <2>2, <2>3 DEF LineInv
<1>5. ASSUME NEW w \in Watchers, Watch(w) \/ WatchWakes(w) PROVE LineInv'
  <2>1. SentValues' = SentValues /\ pc'[Pump] = pc[Pump]
    BY <1>5 DEF Watch, WatchWakes, TypeOK, SentValues
  <2> QED  BY <1>5, <2>1, LineSame DEF Watch, WatchWakes
<1>6. ASSUME Deliver PROVE LineInv'
  <2>1. /\ slot \in Values /\ slot' = NoValue /\ got' = Append(got, slot)
        /\ pc[Pump] # "stopped" /\ pc'[Pump] # "stopped"
    BY <1>6 DEF Deliver, TypeOK
  <2>2. SentValues' = SentValues
    BY <1>6 DEF Deliver, TypeOK, SentValues
  <2>3. slot \in SentValues /\ slot \notin Passed
    BY <2>1 DEF LineInv
  <2>4. /\ Passed' = Passed \cup {slot}
        /\ Cardinality(Passed') = Len(got')
    BY <2>1, <2>3, PassedGrows DEF LineInv
  <2> QED  BY <2>1, <2>2, <2>3, <2>4 DEF LineInv
<1>7. ASSUME PumpStops PROVE LineInv'
  <2>1. /\ got' = got /\ Passed' = Passed
        /\ pc[Pump] # "stopped" /\ pc'[Pump] = "stopped"
    BY <1>7 DEF PumpStops, TypeOK, Passed
  <2>2. SentValues' = SentValues
    BY <1>7 DEF PumpStops, TypeOK, SentValues
  <2> QED  BY <2>1, <2>2 DEF LineInv
<1>8. CASE UNCHANGED vars
  BY <1>8, LineSame DEF vars, SentValues
<1> QED  BY <1>1, <1>2, <1>3, <1>4, <1>5, <1>6, <1>7, <1>8 DEF Next

(* A Send is taken only by a pump with empty hands, when all that was sent   *)
(* before has been read; and reading only appends.                           *)
LEMMA OrderStep == TypeOK /\ LineInv /\ [Next]_vars => [InOrder]_vars
<1> SUFFICES ASSUME TypeOK, LineInv, Next PROVE InOrder
  OBVIOUS
<1> USE CallersAssumption DEF Callers, Goto
<1>1. CASE \E v \in Values : Accept(v)
  <2>1. slot = NoValue /\ got' = got /\ pc[Pump] # "stopped"
    BY <1>1 DEF Accept, TypeOK
  <2>2. SentValues \subseteq Passed
    BY <2>1 DEF LineInv
  <2> QED  BY <2>1, <2>2 DEF InOrder, TypeOK
<1>2. CASE Deliver
  <2>1. got \in Seq(Values) /\ slot \in Values /\ got' = Append(got, slot)
    BY <1>2 DEF Deliver, TypeOK
  <2>2. Len(got) <= Len(got') /\ \A i \in 1..Len(got) : got'[i] = got[i]
    BY <2>1
  <2>3. SentValues' = SentValues
    BY <1>2 DEF Deliver, TypeOK, SentValues
  <2> QED  BY <2>2, <2>3 DEF InOrder
<1>3. CASE ~Deliver /\ \A v \in Values : ~Accept(v)
  <2>1. got' = got
    BY <1>3 DEF Next, LoadDone, MakeDone, CancelCause, SendTest, SendDropped, Watch,
                WatchWakes, PumpStops
  <2>2. \A v \in Values : (pc'[v] = "sent") <=> (pc[v] = "sent")
    BY <1>3 DEF Next, LoadDone, MakeDone, CancelCause, SendTest, SendDropped, Watch,
                WatchWakes, PumpStops, TypeOK
  <2>3. Len(got) \in Nat /\ SentValues' = SentValues
    BY <2>2 DEF TypeOK, SentValues
  <2> QED  BY <2>1, <2>3 DEF InOrder
<1> QED  BY <1>1, <1>2, <1>3

(* What the pump took from Send is read, once and in the order of the Sends, *)
(* or is the one value that it holds or held when it stopped.                *)
THEOREM NothingIsLost == Spec => NothingVanishes
<1>1. Init => LineInv
  <2> SUFFICES ASSUME Init PROVE LineInv
    OBVIOUS
  <2>1. SentValues = {} /\ Passed = {} /\ Len(got) = 0 /\ pc[Pump] = "load"
    BY CallersAssumption DEF Init, SentValues, Passed, Callers
  <2> QED  BY <2>1, FS_EmptySet DEF Init, LineInv
<1>2. LineInv => OnceEach
  <2> SUFFICES ASSUME LineInv, pc[Pump] = "stopped"
               PROVE  Cardinality(SentValues \ Passed) <= 1
    BY DEF LineInv, OnceEach
  <2>1. PICK v : SentValues \ Passed \subseteq {v}
    BY DEF LineInv
  <2>2. SentValues \ Passed = {} \/ SentValues \ Passed = {v}
    BY <2>1
  <2>3. Cardinality({}) = 0 /\ Cardinality({v}) = 1
    BY FS_EmptySet, FS_Singleton
  <2>4. CASE SentValues \ Passed = {}
    BY <2>3, <2>4
  <2>5. CASE SentValues \ Passed = {v}
    BY <2>3, <2>5
  <2> QED  BY <2>2, <2>4, <2>5
<1>3. IInv => TypeOK
  BY DEF IInv
<1>4. Spec => []LineInv
  BY <1>1, LineStep, Inductive, PTL DEF Spec
<1>5. OnceEach' /\ [InOrder]_vars => [OnceEach' /\ InOrder]_vars
  OBVIOUS
<1> QED  BY <1>2, <1>3, <1>4, <1>5, OrderStep, Inductive, PTL DEF Spec, NothingVanishes

-----------------------------------------------------------------------------
(* A step of the code is a step of the contract, or changes nothing in it.   *)
LEMMA ContractStep ==
  IInv /\ [Next]_vars => [line!ContractNext]_(line!contractVars)
<1> SUFFICES ASSUME IInv, [Next]_vars
             PROVE  line!ContractNext \/ UNCHANGED line!contractVars
  BY DEF line!contractVars
<1> USE CallersAssumption DEF IInv, TypeOK
<1>1. ASSUME NEW p \in Callers, LoadDone(p) \/ MakeDone(p)
      PROVE  UNCHANGED line!contractVars
  BY <1>1 DEF LoadDone, MakeDone, Goto, line!contractVars, Callers
<1>2. ASSUME NEW r \in Reasons, CancelCause(r) PROVE line!ContractNext
  <2>1. line!Cancel(Cause(r))
    BY <1>2 DEF CancelCause, line!Cancel
  <2> QED  BY <2>1 DEF line!ContractNext
<1>3. ASSUME NEW v \in Values, SendTest(v) \/ SendDropped(v)
      PROVE  UNCHANGED line!contractVars
  BY <1>3 DEF SendTest, SendDropped, Goto, line!contractVars, Callers
<1>4. ASSUME NEW v \in Values, Accept(v) PROVE line!ContractNext
  <2>1. line!Accept(v)
    BY <1>4 DEF Accept, line!Accept, Callers
  <2> QED  BY <2>1 DEF line!ContractNext
<1>5. ASSUME NEW w \in Watchers, Watch(w) \/ WatchWakes(w)
      PROVE  UNCHANGED line!contractVars
  BY <1>5 DEF Watch, WatchWakes, Goto, line!contractVars, Callers
<1>6. ASSUME Deliver PROVE line!ContractNext
  <2>1. slot \in Values /\ got' = got \o <<slot>>
    BY <1>6 DEF Deliver
  <2>2. line!Deliver
    BY <1>6, <2>1 DEF Deliver, Goto, line!Deliver, Callers
  <2> QED  BY <2>2 DEF line!ContractNext
<1>7. ASSUME PumpStops PROVE line!ContractNext
  <2>1. err # NoErr
    BY <1>7 DEF PumpStops, ChanInv, Callers
  <2>2. line!Stop
    BY <1>7, <2>1 DEF PumpStops, Goto, line!Stop, Callers
  <2> QED  BY <2>2 DEF line!ContractNext
<1>8. CASE UNCHANGED vars
  BY <1>8 DEF vars, line!contractVars
<1> QED  BY <1>1, <1>2, <1>3, <1>4, <1>5, <1>6, <1>7, <1>8 DEF Next

(* The code keeps the safety part of ObserverContract.                       *)
THEOREM KeepsContract ==
  Spec => line!ContractInit /\ [][line!ContractNext]_(line!contractVars)
<1>1. Init => line!ContractInit
  BY CallersAssumption DEF Init, line!ContractInit, Callers
<1>2. IInv /\ [Next]_vars => [line!ContractNext]_(line!contractVars)
  BY ContractStep
<1> QED  BY <1>1, <1>2, Inductive, PTL DEF Spec
=============================================================================
