---------------------------- MODULE SubjectProofs ----------------------------
(***************************************************************************)
(* Proofs about Subject, for any subscribers, senders and causes.          *)
(***************************************************************************)
EXTENDS Subject, TLAPS

-----------------------------------------------------------------------------
(* The types, of the subject, the sends and the observers.                   *)
SubjectOK == /\ serr \in Causes \cup {NoErr}
             /\ subs \subseteq Observers
             /\ cascading \in BOOLEAN
             /\ cascade \subseteq subs
             /\ sub \in [Observers -> SubPcs]

SendsOK == /\ sent \in [Senders -> Nat]
           /\ todo \in [Senders -> SUBSET Observers]
           /\ cur \in [Senders -> Observers \cup {NoObserver}]

ObserversOK == /\ err \in [Observers -> Causes \cup {NoErr}]
               /\ slot \in [Observers -> (Senders \X Nat) \cup {NoValue}]
               /\ got \in [Observers -> Seq(Senders \X Nat)]
               /\ stopped \in [Observers -> BOOLEAN]

(* The cancellation that is under way holds s.mu, so nobody is registered or *)
(* forgotten meanwhile; and a value in flight is one of Values.              *)
WalkInv == /\ cascading => serr # NoErr
           /\ ~cascading => cascade = {}
           /\ \A o \in Observers : sub[o] = "refused" => serr # NoErr

SentInv == \A s \in Senders : /\ sent[s] <= Rounds
                              /\ cur[s] # NoObserver \/ todo[s] # {} => sent[s] > 0

(* Whoever is subscribed is registered until the subject is canceled, and    *)
(* then in the walk until it is canceled itself.                             *)
ReachInv ==
  \A o \in Observers :
    /\ sub[o] = "watched" /\ serr = NoErr => o \in subs
    /\ sub[o] = "watched" /\ serr # NoErr => o \in cascade \/ err[o] # NoErr
    /\ sub[o] = "ended" => err[o] # NoErr

StateInv == TypeOK /\ WalkInv /\ SentInv /\ ReachInv

Parts == SubjectOK /\ SendsOK /\ ObserversOK /\ WalkInv /\ SentInv /\ ReachInv

LEMMA PartsSplit == (StateInv <=> Parts) /\ (StateInv' <=> Parts')
BY DEF StateInv, Parts, TypeOK, SubjectOK, SendsOK, ObserversOK

LEMMA StateInit == Init => StateInv
<1> SUFFICES ASSUME Init PROVE Parts
  BY PartsSplit
<1> USE DEF Init
<1>1. SubjectOK /\ SendsOK
  BY DEF SubjectOK, SendsOK, SubPcs
<1>2. ObserversOK
  BY DEF ObserversOK
<1>3. WalkInv /\ SentInv /\ ReachInv
  BY SubjectAssumption DEF WalkInv, SentInv, ReachInv
<1> QED  BY <1>1, <1>2, <1>3 DEF Parts

-----------------------------------------------------------------------------
(* An observer is canceled with a cause, and stays canceled.                 *)
LEMMA Cancels ==
  ASSUME ObserversOK, NEW o \in Observers, NEW c \in Causes, CancelObserver(o, c)
  PROVE  /\ err' \in [Observers -> Causes \cup {NoErr}]
         /\ err'[o] # NoErr
         /\ \A p \in Observers : err[p] # NoErr => err'[p] = err[p]
         /\ \A p \in Observers : p # o => err'[p] = err[p]
BY SubjectAssumption DEF ObserversOK, CancelObserver, CauseAfter

LEMMA ObserverState ==
  ASSUME StateInv, NEW o \in Observers,
         Deliver(o) \/ PumpStops(o) \/ \E c \in OwnerCauses : OwnerCancels(o, c)
  PROVE  StateInv'
<1> SUFFICES ASSUME Parts PROVE Parts'
  BY PartsSplit
<1>1. UNCHANGED <<subjectVars, sendVars>>
  BY DEF Deliver, PumpStops, OwnerCancels
<1>2. SubjectOK' /\ SendsOK' /\ WalkInv' /\ SentInv'
  BY <1>1 DEF Parts, SubjectOK, SendsOK, WalkInv, SentInv, subjectVars, sendVars
<1>3. CASE \E c \in OwnerCauses : OwnerCancels(o, c)
  <2>1. PICK c \in OwnerCauses : OwnerCancels(o, c)
    BY <1>3
  <2>2. /\ err' \in [Observers -> Causes \cup {NoErr}]
        /\ \A p \in Observers : err[p] # NoErr => err'[p] # NoErr
    BY <2>1, Cancels DEF Parts, OwnerCancels, Causes
  <2>3. ObserversOK'
    BY <2>1, <2>2 DEF Parts, ObserversOK, OwnerCancels
  <2>4. ReachInv'
    BY <1>1, <2>2 DEF Parts, ReachInv, subjectVars
  <2> QED  BY <1>2, <2>3, <2>4 DEF Parts
<1>4. CASE Deliver(o) \/ PumpStops(o)
  <2>1. err' = err
    BY <1>4 DEF Deliver, PumpStops
  <2>2. ReachInv'
    BY <1>1, <2>1 DEF Parts, ReachInv, subjectVars
  <2>3. slot' \in [Observers -> (Senders \X Nat) \cup {NoValue}]
    BY <1>4 DEF Parts, ObserversOK, Deliver, PumpStops
  <2>4. stopped' \in [Observers -> BOOLEAN]
    BY <1>4 DEF Parts, ObserversOK, Deliver, PumpStops
  <2>5. got' \in [Observers -> Seq(Senders \X Nat)]
    <3>1. CASE Deliver(o)
      <4>1. slot[o] \in Senders \X Nat /\ got[o] \in Seq(Senders \X Nat)
        BY <3>1 DEF Parts, ObserversOK, Deliver
      <4>2. Append(got[o], slot[o]) \in Seq(Senders \X Nat)
        BY <4>1
      <4> QED  BY <3>1, <4>2 DEF Parts, ObserversOK, Deliver
    <3>2. CASE PumpStops(o)
      BY <3>2 DEF Parts, ObserversOK, PumpStops
    <3> QED  BY <1>4, <3>1, <3>2
  <2> QED  BY <1>2, <2>1, <2>2, <2>3, <2>4, <2>5 DEF Parts, ObserversOK
<1> QED  BY <1>3, <1>4

LEMMA SendState ==
  ASSUME StateInv, NEW s \in Senders,
         \/ SendBegin(s)
         \/ \E o \in Observers : SendNext(s, o) \/ SendAccepted(s, o) \/ SendDropped(s, o)
  PROVE  StateInv'
<1> SUFFICES ASSUME Parts PROVE Parts'
  BY PartsSplit
<1>1. UNCHANGED <<subjectVars, err, got, stopped>>
  BY DEF SendBegin, SendNext, SendAccepted, SendDropped, observerVars
<1>2. SubjectOK' /\ WalkInv' /\ ReachInv'
  BY <1>1 DEF Parts, SubjectOK, WalkInv, ReachInv, subjectVars
<1>3. CASE SendBegin(s)
  <2>1. sent[s] + 1 <= Rounds /\ sent[s] + 1 > 0
    BY <1>3, SubjectAssumption DEF Parts, SendsOK, SendBegin, Values
  <2>2. SendsOK'
    BY <1>3 DEF Parts, SubjectOK, SendsOK, SendBegin
  <2>3. SentInv'
    BY <1>3, <2>1, <2>2 DEF Parts, SendsOK, SentInv, SendBegin
  <2>4. ObserversOK'
    BY <1>3 DEF Parts, ObserversOK, SendBegin, observerVars
  <2> QED  BY <1>2, <2>2, <2>3, <2>4 DEF Parts
<1>4. ASSUME NEW o \in Observers, SendNext(s, o)
      PROVE  Parts'
  <2>1. SendsOK' /\ SentInv'
    BY <1>4 DEF Parts, SendsOK, SentInv, SendNext
  <2>2. ObserversOK'
    BY <1>4 DEF Parts, ObserversOK, SendNext, observerVars
  <2> QED  BY <1>2, <2>1, <2>2 DEF Parts
<1>5. ASSUME NEW o \in Observers, SendAccepted(s, o) \/ SendDropped(s, o)
      PROVE  Parts'
  <2>1. cur' = [cur EXCEPT ![s] = NoObserver] /\ UNCHANGED <<sent, todo>>
    BY <1>5 DEF SendAccepted, SendDropped
  <2>2. SendsOK' /\ SentInv'
    BY <2>1 DEF Parts, SendsOK, SentInv
  <2>3. slot' \in [Observers -> (Senders \X Nat) \cup {NoValue}]
    <3>1. <<s, sent[s]>> \in Senders \X Nat
      BY DEF Parts, SendsOK
    <3>2. CASE SendAccepted(s, o)
      BY <3>1, <3>2 DEF Parts, ObserversOK, SendAccepted
    <3>3. CASE SendDropped(s, o)
      BY <3>3 DEF Parts, ObserversOK, SendDropped, observerVars
    <3> QED  BY <1>5, <3>2, <3>3
  <2> QED  BY <1>1, <1>2, <2>2, <2>3 DEF Parts, ObserversOK
<1> QED  BY <1>3, <1>4, <1>5

LEMMA SubscribeState ==
  ASSUME StateInv, NEW o \in Observers,
         Subscribe(o) \/ CancelRefused(o) \/ Forget(o)
  PROVE  StateInv'
<1> SUFFICES ASSUME Parts PROVE Parts'
  BY PartsSplit
<1>1. UNCHANGED <<serr, cascading, cascade, sendVars, slot, got, stopped>>
  BY DEF Subscribe, CancelRefused, Forget, observerVars
<1>2. SendsOK' /\ SentInv'
  BY <1>1 DEF Parts, SendsOK, SentInv, sendVars
<1> USE DEF Parts, SubjectOK, WalkInv, ReachInv, SubPcs
<1>3. CASE Subscribe(o)
  <2>1. ObserversOK'
    BY <1>3 DEF ObserversOK, Subscribe, observerVars
  <2>2. SubjectOK' /\ WalkInv'
    BY <1>3 DEF Subscribe
  <2>3. ReachInv'
    BY <1>3 DEF Subscribe, observerVars
  <2> QED  BY <1>2, <2>1, <2>2, <2>3
<1>4. CASE CancelRefused(o)
  <2>1. serr \in Causes
    BY <1>4 DEF CancelRefused
  <2>2. /\ err' \in [Observers -> Causes \cup {NoErr}] /\ err'[o] # NoErr
        /\ \A p \in Observers : err[p] # NoErr => err'[p] = err[p]
    BY <1>4, <2>1, Cancels DEF CancelRefused
  <2>3. ObserversOK'
    BY <1>1, <2>2 DEF ObserversOK
  <2>4. SubjectOK' /\ WalkInv'
    BY <1>4 DEF CancelRefused
  <2>5. ReachInv'
    BY <1>4, <2>2 DEF CancelRefused
  <2> QED  BY <1>2, <2>3, <2>4, <2>5
<1>5. CASE Forget(o)
  <2>1. ObserversOK'
    BY <1>5 DEF ObserversOK, Forget, observerVars
  <2>2. SubjectOK' /\ WalkInv'
    BY <1>5 DEF Forget
  <2>3. ReachInv'
    BY <1>5 DEF Forget, observerVars
  <2> QED  BY <1>2, <2>1, <2>2, <2>3
<1> QED  BY <1>3, <1>4, <1>5

LEMMA CancelState ==
  ASSUME StateInv,
         \/ \E c \in SubjectCauses : CancelBegin(c)
         \/ \E o \in Observers : CancelNext(o)
         \/ CancelEnd
  PROVE  StateInv'
<1> SUFFICES ASSUME Parts PROVE Parts'
  BY PartsSplit
<1>1. UNCHANGED <<sub, sendVars, slot, got, stopped>>
  BY DEF CancelBegin, CancelNext, CancelEnd, observerVars
<1>2. SendsOK' /\ SentInv'
  BY <1>1 DEF Parts, SendsOK, SentInv, sendVars
<1> USE DEF Parts, SubjectOK, WalkInv, ReachInv
<1>3. ASSUME NEW c \in SubjectCauses, CancelBegin(c)
      PROVE  Parts'
  <2>0. c \in Causes /\ c # NoErr
    BY SubjectAssumption DEF Causes
  <2>1. ObserversOK'
    BY <1>3 DEF ObserversOK, CancelBegin, observerVars
  <2>2. SubjectOK' /\ WalkInv' /\ ReachInv'
    BY <1>3, <2>0 DEF CancelBegin, observerVars
  <2> QED  BY <1>2, <2>1, <2>2
<1>4. ASSUME NEW o \in Observers, CancelNext(o)
      PROVE  Parts'
  <2>1. serr \in Causes
    BY <1>4 DEF CancelNext
  <2>2. /\ err' \in [Observers -> Causes \cup {NoErr}] /\ err'[o] # NoErr
        /\ \A p \in Observers : err[p] # NoErr => err'[p] = err[p]
    BY <1>4, <2>1, Cancels DEF CancelNext
  <2>3. ObserversOK'
    BY <1>1, <2>2 DEF ObserversOK
  <2>4. SubjectOK' /\ WalkInv' /\ ReachInv'
    BY <1>4, <2>2 DEF CancelNext
  <2> QED  BY <1>2, <2>3, <2>4
<1>5. CASE CancelEnd
  <2>1. ObserversOK'
    BY <1>5 DEF ObserversOK, CancelEnd, observerVars
  <2>2. SubjectOK' /\ WalkInv' /\ ReachInv'
    BY <1>5 DEF CancelEnd, observerVars
  <2> QED  BY <1>2, <2>1, <2>2
<1> QED  BY <1>3, <1>4, <1>5

LEMMA StateStep == StateInv /\ [Next]_vars => StateInv'
<1>1. StateInv /\ UNCHANGED vars => StateInv'
  BY DEF StateInv, TypeOK, WalkInv, SentInv, ReachInv, vars, subjectVars,
         sendVars, observerVars
<1> QED  BY <1>1, ObserverState, SendState, SubscribeState, CancelState DEF Next

LEMMA StateInductive == Spec => []StateInv
<1> QED  BY StateInit, StateStep, PTL DEF Spec

(* Type correctness of the subject and its subscribers.                      *)
THEOREM TypeCorrect == Spec => []TypeOK
<1>1. StateInv => TypeOK
  BY DEF StateInv
<1> QED  BY <1>1, StateInductive, PTL

(* No subscriber slips between a concurrent Subscribe and CancelCause.       *)
THEOREM CancelReachesAll == Spec => []CancelReaches
<1>1. StateInv => CancelReaches
  BY DEF StateInv, WalkInv, ReachInv, CancelReaches
<1> QED  BY <1>1, StateInductive, PTL

-----------------------------------------------------------------------------
(* Every step of the subject is, for every subscriber, a step of the         *)
(* observers' contract or none at all.                                       *)
LEMMA CancelIsContract ==
  ASSUME StateInv, NEW o \in Observers, NEW p \in Observers, NEW c \in Causes,
         CancelObserver(o, c), UNCHANGED <<slot, got, stopped>>
  PROVE  Kept(p)
<1>1. err \in [Observers -> Causes \cup {NoErr}]
  BY DEF StateInv, TypeOK
<1>2. CASE p = o /\ err[p] = NoErr
  <2>1. line(p)!Cancel(c)
    BY <1>1, <1>2 DEF line!Cancel, CancelObserver, CauseAfter
  <2> QED  BY <2>1 DEF Kept, line!ContractNext
<1>3. CASE p # o \/ err[p] # NoErr
  BY <1>1, <1>3 DEF Kept, line!contractVars, CancelObserver, CauseAfter
<1> QED  BY <1>2, <1>3

LEMMA KeptStep == StateInv /\ [Next]_vars => \A o \in Observers : Kept(o)
<1> SUFFICES ASSUME StateInv, [Next]_vars, NEW p \in Observers PROVE Kept(p)
  OBVIOUS
<1>0. TypeOK /\ WalkInv /\ SentInv
  BY DEF StateInv
<1>1. ASSUME NEW o \in Observers, NEW c \in OwnerCauses, OwnerCancels(o, c)
      PROVE  Kept(p)
  BY <1>1, CancelIsContract DEF OwnerCancels, Causes
<1>2. ASSUME NEW o \in Observers, CancelRefused(o) \/ CancelNext(o)
      PROVE  Kept(p)
  <2>1. serr \in Causes
    BY <1>0, <1>2 DEF TypeOK, WalkInv, CancelRefused, CancelNext
  <2> QED  BY <1>2, <2>1, CancelIsContract DEF CancelRefused, CancelNext
<1>3. ASSUME NEW o \in Observers, Deliver(o)
      PROVE  Kept(p)
  <2>1. CASE p = o
    <3>1. line(p)!Deliver
      BY <1>0, <1>3, <2>1 DEF TypeOK, Deliver, line!Deliver
    <3> QED  BY <3>1 DEF Kept, line!ContractNext
  <2>2. CASE p # o
    BY <1>0, <1>3, <2>2 DEF TypeOK, Deliver, Kept, line!contractVars
  <2> QED  BY <2>1, <2>2
<1>4. ASSUME NEW o \in Observers, PumpStops(o)
      PROVE  Kept(p)
  <2>1. CASE p = o
    <3>1. line(p)!Stop
      BY <1>0, <1>4, <2>1 DEF TypeOK, PumpStops, line!Stop
    <3> QED  BY <3>1 DEF Kept, line!ContractNext
  <2>2. CASE p # o
    BY <1>0, <1>4, <2>2 DEF TypeOK, PumpStops, Kept, line!contractVars
  <2> QED  BY <2>1, <2>2
<1>5. ASSUME NEW s \in Senders, NEW o \in Observers, SendAccepted(s, o)
      PROVE  Kept(p)
  <2>1. CASE p = o
    <3>1. cur[s] # NoObserver
      BY <1>5, SubjectAssumption DEF SendAccepted
    <3>2. <<s, sent[s]>> \in Values
      BY <1>0, <3>1, SubjectAssumption DEF TypeOK, SentInv, Values
    <3>3. line(p)!Accept(<<s, sent[s]>>)
      BY <1>0, <1>5, <2>1 DEF TypeOK, SendAccepted, line!Accept
    <3> QED  BY <3>2, <3>3 DEF Kept, line!ContractNext
  <2>2. CASE p # o
    BY <1>0, <1>5, <2>2 DEF TypeOK, SendAccepted, Kept, line!contractVars
  <2> QED  BY <2>1, <2>2
<1>6. CASE UNCHANGED observerVars
  BY <1>6 DEF observerVars, Kept, line!contractVars
<1> QED
  BY <1>1, <1>2, <1>3, <1>4, <1>5, <1>6
  DEF Next, vars, SendBegin, SendNext, SendDropped, Subscribe, Forget,
      CancelBegin, CancelEnd

(* The subject makes no step an observer's contract does not allow.          *)
THEOREM KeepsContracts == Spec => ContractsKept
<1>1. Spec => [][\A o \in Observers : Kept(o)]_vars
  BY KeptStep, StateInductive, PTL DEF Spec
<1> QED  BY <1>1, PTL DEF ContractsKept
-----------------------------------------------------------------------------
(* What an observer has seen of a sender: only what that sender has begun to *)
(* send, the last one not while it is due; in order, the value in the slot   *)
(* after all it got; with no hole; and, while it is not canceled or a Send   *)
(* is blocked on it, all the sender has sent since the first.  Whoever has   *)
(* seen a value, or will, is subscribed.                                     *)
BoundInv ==
  \A o \in Observers, s \in Senders, k \in Nat : <<s, k>> \in Seen(o) =>
    k > 0 /\ k <= sent[s] /\ (Due(o, s) => k < sent[s])

OrderInv ==
  \A o \in Observers : \A i \in DOMAIN got[o] :
    /\ \A j \in DOMAIN got[o] :
         i < j /\ got[o][i][1] = got[o][j][1] => got[o][i][2] < got[o][j][2]
    /\ slot[o] # NoValue /\ got[o][i][1] = slot[o][1] => got[o][i][2] < slot[o][2]

HoleInv ==
  \A o \in Observers, s \in Senders, k, j, l \in Nat :
    <<s, k>> \in Seen(o) /\ <<s, l>> \in Seen(o) /\ k <= j /\ j <= l =>
      <<s, j>> \in Seen(o)

UpToInv ==
  \A o \in Observers, s \in Senders, k, j \in Nat :
    /\ err[o] = NoErr \/ (cur[s] = o /\ ~stopped[o])
    /\ <<s, k>> \in Seen(o) /\ k <= j /\ j <= sent[s]
    => <<s, j>> \in Seen(o) \/ (j = sent[s] /\ Due(o, s))

CopyInv == /\ \A o \in Observers, s \in Senders : cur[s] = o => o \notin todo[s]
           /\ \A o \in Observers : stopped[o] => err[o] # NoErr /\ slot[o] = NoValue

KnownInv ==
  \A o \in Observers :
    o \in subs \/ Seen(o) # {} \/ (\E s \in Senders : Due(o, s)) =>
      sub[o] \in {"watched", "ended"}

GapInv == BoundInv /\ OrderInv /\ HoleInv /\ UpToInv /\ CopyInv /\ KnownInv

LEMMA GapInit == Init => GapInv
<1> SUFFICES ASSUME Init PROVE GapInv
  OBVIOUS
<1>1. \A o \in Observers : Seen(o) = {} /\ \A s \in Senders : ~Due(o, s)
  BY SubjectAssumption DEF Init, Seen, Due
<1>2. BoundInv /\ HoleInv /\ UpToInv /\ KnownInv
  BY <1>1 DEF Init, BoundInv, HoleInv, UpToInv, KnownInv
<1>3. OrderInv /\ CopyInv
  BY SubjectAssumption DEF Init, OrderInv, CopyInv
<1> QED  BY <1>2, <1>3 DEF GapInv

(* What is seen changes only when a Send is accepted or a pump stops.        *)
LEMMA SeenSame ==
  ASSUME UNCHANGED <<slot, got>>
  PROVE  \A p \in Observers : Seen(p)' = Seen(p)
BY DEF Seen

LEMMA DueSame ==
  ASSUME UNCHANGED sendVars
  PROVE  \A p \in Observers, s \in Senders : Due(p, s)' = Due(p, s)
BY DEF Due, sendVars

LEMMA DeliverSeen ==
  ASSUME TypeOK, NEW o \in Observers, Deliver(o)
  PROVE  \A p \in Observers : Seen(p)' = Seen(p)
<1> SUFFICES ASSUME NEW p \in Observers PROVE Seen(p)' = Seen(p)
  OBVIOUS
<1>1. CASE p = o
  <2>1. got[o] \in Seq(Senders \X Nat) /\ slot[o] \in Senders \X Nat
    BY DEF TypeOK, Deliver
  <2>2. got'[o] = Append(got[o], slot[o]) /\ slot'[o] = NoValue
    BY DEF TypeOK, Deliver
  <2>3. /\ DOMAIN got'[o] = DOMAIN got[o] \cup {Len(got[o]) + 1}
        /\ \A i \in DOMAIN got[o] : got'[o][i] = got[o][i]
        /\ got'[o][Len(got[o]) + 1] = slot[o]
    BY <2>1, <2>2
  <2>4. {got'[o][i] : i \in DOMAIN got'[o]}
          = {got[o][i] : i \in DOMAIN got[o]} \cup {slot[o]}
    BY <2>3
  <2>5. slot[o] # NoValue
    BY DEF Deliver
  <2> QED  BY <1>1, <2>2, <2>4, <2>5 DEF Seen
<1>2. CASE p # o
  BY <1>2 DEF TypeOK, Deliver, Seen
<1> QED  BY <1>1, <1>2

LEMMA AcceptedSeen ==
  ASSUME TypeOK, NEW s \in Senders, NEW o \in Observers, SendAccepted(s, o)
  PROVE  /\ Seen(o)' = Seen(o) \cup {<<s, sent[s]>>}
         /\ \A p \in Observers : p # o => Seen(p)' = Seen(p)
<1>1. <<s, sent[s]>> # NoValue
  BY ValuesAssumption DEF TypeOK
<1>2. slot'[o] = <<s, sent[s]>> /\ slot[o] = NoValue /\ got' = got
  BY DEF TypeOK, SendAccepted
<1>3. Seen(o)' = Seen(o) \cup {<<s, sent[s]>>}
  BY <1>1, <1>2 DEF Seen
<1>4. \A p \in Observers : p # o => slot'[p] = slot[p]
  BY DEF TypeOK, SendAccepted
<1>5. \A p \in Observers : p # o => Seen(p)' = Seen(p)
  BY <1>2, <1>4 DEF Seen
<1> QED  BY <1>3, <1>5

LEMMA StopsSeen ==
  ASSUME TypeOK, NEW o \in Observers, PumpStops(o)
  PROVE  /\ Seen(o)' = Seen(o) \ ({slot[o]} \ {got[o][i] : i \in DOMAIN got[o]})
         /\ \A p \in Observers : p # o => Seen(p)' = Seen(p)
<1>1. slot'[o] = NoValue /\ got' = got
  BY DEF TypeOK, PumpStops
<1>2. \A i \in DOMAIN got[o] : got[o][i] # NoValue
  BY ValuesAssumption DEF TypeOK
<1>3. Seen(o)' = Seen(o) \ ({slot[o]} \ {got[o][i] : i \in DOMAIN got[o]})
  BY <1>1, <1>2 DEF Seen
<1>4. \A p \in Observers : p # o => slot'[p] = slot[p]
  BY DEF TypeOK, PumpStops
<1>5. \A p \in Observers : p # o => Seen(p)' = Seen(p)
  BY <1>1, <1>4 DEF Seen
<1> QED  BY <1>3, <1>5

(* Steps that concern neither the sends nor what the observers hold.         *)
LEMMA GapAside ==
  ASSUME StateInv, GapInv, UNCHANGED <<sendVars, slot, got, stopped>>,
         \A p \in Observers : err[p] # NoErr => err'[p] # NoErr,
         \A p \in Observers : sub[p] \in {"watched", "ended"} =>
                                sub'[p] \in {"watched", "ended"},
         \A p \in subs' \ subs : sub'[p] = "watched"
  PROVE  GapInv'
<1>1. \A p \in Observers : Seen(p)' = Seen(p)
  BY SeenSame
<1>2. \A p \in Observers, s \in Senders : Due(p, s)' = Due(p, s)
  BY DueSame
<1>3. BoundInv'
  BY <1>1, <1>2 DEF GapInv, BoundInv, sendVars
<1>4. OrderInv'
  BY DEF GapInv, OrderInv
<1>5. HoleInv'
  BY <1>1 DEF GapInv, HoleInv
<1>6. UpToInv'
  BY <1>1, <1>2 DEF GapInv, UpToInv, sendVars
<1>7. CopyInv'
  BY DEF GapInv, CopyInv, sendVars
<1>8. KnownInv'
  BY <1>1, <1>2 DEF GapInv, KnownInv
<1> QED  BY <1>3, <1>4, <1>5, <1>6, <1>7, <1>8 DEF GapInv

LEMMA DeliverGap ==
  ASSUME StateInv, GapInv, NEW o \in Observers, Deliver(o)
  PROVE  GapInv'
<1>0. TypeOK
  BY DEF StateInv
<1>1. \A p \in Observers : Seen(p)' = Seen(p)
  BY <1>0, DeliverSeen
<1>2. \A p \in Observers, s \in Senders : Due(p, s)' = Due(p, s)
  BY DueSame DEF Deliver
<1>3. BoundInv'
  BY <1>1, <1>2 DEF GapInv, BoundInv, sendVars, Deliver
<1>4. OrderInv'
  <2> SUFFICES ASSUME NEW p \in Observers, NEW i \in DOMAIN got'[p]
               PROVE  /\ \A j \in DOMAIN got'[p] :
                           i < j /\ got'[p][i][1] = got'[p][j][1] =>
                             got'[p][i][2] < got'[p][j][2]
                      /\ slot'[p] # NoValue /\ got'[p][i][1] = slot'[p][1] =>
                           got'[p][i][2] < slot'[p][2]
    BY DEF OrderInv
  <2>1. CASE p = o
    <3>1. got[o] \in Seq(Senders \X Nat) /\ slot[o] \in Senders \X Nat
      BY <1>0 DEF TypeOK, Deliver
    <3>2. got'[o] = Append(got[o], slot[o]) /\ slot'[o] = NoValue
      BY <1>0 DEF TypeOK, Deliver
    <3>3. /\ DOMAIN got'[o] = DOMAIN got[o] \cup {Len(got[o]) + 1}
          /\ \A j \in DOMAIN got[o] : /\ got'[o][j] = got[o][j]
                                      /\ j \in Nat /\ j <= Len(got[o])
          /\ got'[o][Len(got[o]) + 1] = slot[o]
      BY <3>1, <3>2
    <3>4. slot[o] # NoValue
      BY DEF Deliver
    <3>5. ASSUME NEW j \in DOMAIN got'[o], i < j, got'[o][i][1] = got'[o][j][1]
          PROVE  got'[o][i][2] < got'[o][j][2]
      <4>1. i \in DOMAIN got[o]
        BY <2>1, <3>1, <3>3, <3>5
      <4>2. CASE j \in DOMAIN got[o]
        BY <3>3, <3>5, <4>1, <4>2 DEF GapInv, OrderInv
      <4>3. CASE j = Len(got[o]) + 1
        BY <3>3, <3>4, <3>5, <4>1, <4>3 DEF GapInv, OrderInv
      <4> QED  BY <3>3, <4>2, <4>3
    <3> QED  BY <2>1, <3>2, <3>5
  <2>2. CASE p # o
    BY <1>0, <2>2 DEF TypeOK, Deliver, GapInv, OrderInv
  <2> QED  BY <2>1, <2>2
<1>5. HoleInv'
  BY <1>1 DEF GapInv, HoleInv
<1>6. UpToInv'
  BY <1>1, <1>2 DEF GapInv, UpToInv, sendVars, Deliver
<1>7. CopyInv'
  BY <1>0 DEF GapInv, CopyInv, sendVars, Deliver, TypeOK
<1>8. KnownInv'
  BY <1>1, <1>2 DEF GapInv, KnownInv, Deliver, subjectVars
<1> QED  BY <1>3, <1>4, <1>5, <1>6, <1>7, <1>8 DEF GapInv

(* A pump that stops drops the last value its observer has seen.             *)
LEMMA StopsGap ==
  ASSUME StateInv, GapInv, NEW o \in Observers, PumpStops(o)
  PROVE  GapInv'
<1>0. TypeOK
  BY DEF StateInv
<1>1. \A p \in Observers : Seen(p)' \subseteq Seen(p)
  BY <1>0, StopsSeen
<1>2. \A p \in Observers : p # o => Seen(p)' = Seen(p)
  BY <1>0, StopsSeen
<1>3. \A p \in Observers, s \in Senders : Due(p, s)' = Due(p, s)
  BY DueSame DEF PumpStops
<1>4. stopped'[o] /\ err[o] # NoErr /\ err' = err /\ slot'[o] = NoValue
  BY <1>0 DEF TypeOK, PumpStops
<1>5. \A p \in Observers : p # o => stopped'[p] = stopped[p] /\ slot'[p] = slot[p]
  BY <1>0 DEF TypeOK, PumpStops
<1>6. BoundInv'
  BY <1>1, <1>3 DEF GapInv, BoundInv, sendVars, PumpStops
<1>7. OrderInv'
  BY <1>4, <1>5 DEF GapInv, OrderInv, PumpStops
<1>8. HoleInv'
  <2> SUFFICES ASSUME NEW s \in Senders, NEW k \in Nat, NEW j \in Nat, NEW l \in Nat,
                      <<s, k>> \in Seen(o)', <<s, l>> \in Seen(o)', k <= j, j <= l
               PROVE  <<s, j>> \in Seen(o)'
    BY <1>2 DEF GapInv, HoleInv
  <2>1. <<s, j>> \in Seen(o)
    BY <1>1 DEF GapInv, HoleInv
  <2>2. <<s, l>> \in {got[o][i] : i \in DOMAIN got[o]}
    BY <1>0, StopsSeen DEF Seen
  <2>3. PICK i \in DOMAIN got[o] : got[o][i] = <<s, l>>
    BY <2>2
  <2>4. ASSUME slot[o] = <<s, j>> PROVE FALSE
    <3>1. slot[o] # NoValue
      BY <2>4, ValuesAssumption
    <3>2. l < j
      BY <2>3, <2>4, <3>1 DEF GapInv, OrderInv
    <3> QED  BY <3>2
  <2> QED  BY <1>0, <2>1, <2>4, StopsSeen
<1>9. UpToInv'
  BY <1>2, <1>3, <1>4, <1>5 DEF GapInv, UpToInv, sendVars, PumpStops
<1>10. CopyInv'
  BY <1>4, <1>5 DEF GapInv, CopyInv, sendVars, PumpStops
<1>11. KnownInv'
  BY <1>1, <1>3 DEF GapInv, KnownInv, PumpStops, subjectVars
<1> QED  BY <1>6, <1>7, <1>8, <1>9, <1>10, <1>11 DEF GapInv

(* A new Send is due to everyone who has seen a value and is not canceled:   *)
(* the copy of s.subs holds them all.                                        *)
LEMMA BeginGap ==
  ASSUME StateInv, GapInv, NEW s \in Senders, SendBegin(s)
  PROVE  GapInv'
<1>0. TypeOK
  BY DEF StateInv
<1>1. \A p \in Observers : Seen(p)' = Seen(p)
  BY SeenSame DEF SendBegin, observerVars
<1>2. /\ sent' = [sent EXCEPT ![s] = @ + 1] /\ sent[s] \in Nat
      /\ todo'[s] = IF serr = NoErr THEN subs ELSE {}
      /\ \A u \in Senders : u # s => todo'[u] = todo[u]
      /\ cur' = cur /\ cur[s] = NoObserver /\ todo[s] = {}
  BY <1>0 DEF TypeOK, SendBegin, Idle
<1>3. \A p \in Observers, u \in Senders : u # s => Due(p, u)' = Due(p, u)
  BY <1>2 DEF Due
<1>4. \A p \in Observers : Due(p, s)' => p \in subs
  BY <1>2, SubjectAssumption DEF Due
<1>5. \A p \in Observers : ~Due(p, s)
  BY <1>2, SubjectAssumption DEF Due
<1>6. BoundInv'
  <2> SUFFICES ASSUME NEW p \in Observers, NEW u \in Senders, NEW k \in Nat,
                      <<u, k>> \in Seen(p)
               PROVE  k > 0 /\ k <= sent'[u] /\ (Due(p, u)' => k < sent'[u])
    BY <1>1 DEF BoundInv
  <2>1. k > 0 /\ k <= sent[u] /\ (Due(p, u) => k < sent[u])
    BY DEF GapInv, BoundInv
  <2>2. CASE u = s
    BY <1>0, <1>2, <2>1, <2>2 DEF TypeOK
  <2>3. CASE u # s
    BY <1>0, <1>2, <1>3, <2>1, <2>3 DEF TypeOK
  <2> QED  BY <2>2, <2>3
<1>7. OrderInv'
  BY DEF GapInv, OrderInv, SendBegin, observerVars
<1>8. HoleInv'
  BY <1>1 DEF GapInv, HoleInv
<1>9. UpToInv'
  <2> SUFFICES ASSUME NEW p \in Observers, NEW u \in Senders,
                      NEW k \in Nat, NEW j \in Nat,
                      err[p] = NoErr \/ (cur[u] = p /\ ~stopped[p]),
                      <<u, k>> \in Seen(p), k <= j, j <= sent'[u]
               PROVE  <<u, j>> \in Seen(p) \/ (j = sent'[u] /\ Due(p, u)')
    BY <1>1 DEF UpToInv, SendBegin, observerVars
  <2>1. CASE u # s
    BY <1>0, <1>2, <1>3, <2>1 DEF TypeOK, GapInv, UpToInv
  <2>2. CASE u = s /\ j <= sent[s]
    BY <1>5, <2>2 DEF GapInv, UpToInv
  <2>3. CASE u = s /\ j = sent[s] + 1
    <3>1. err[p] = NoErr
      BY <1>2, <2>3, SubjectAssumption
    <3>2. sub[p] \in {"watched", "ended"}
      BY DEF GapInv, KnownInv
    <3>3. sub[p] = "watched" /\ serr = NoErr /\ p \in subs
      BY <3>1, <3>2 DEF StateInv, ReachInv, WalkInv, SendBegin
    <3>4. Due(p, s)'
      BY <1>2, <3>3 DEF Due
    <3> QED  BY <1>0, <1>2, <2>3, <3>4 DEF TypeOK
  <2> QED  BY <1>0, <1>2, <2>1, <2>2, <2>3 DEF TypeOK
<1>10. CopyInv'
  BY <1>2, SubjectAssumption DEF GapInv, CopyInv, SendBegin, observerVars
<1>11. KnownInv'
  BY <1>1, <1>3, <1>4 DEF GapInv, KnownInv, SendBegin, subjectVars
<1> QED  BY <1>6, <1>7, <1>8, <1>9, <1>10, <1>11 DEF GapInv

LEMMA NextGap ==
  ASSUME StateInv, GapInv, NEW s \in Senders, NEW o \in Observers, SendNext(s, o)
  PROVE  GapInv'
<1>0. TypeOK
  BY DEF StateInv
<1>1. \A p \in Observers : Seen(p)' = Seen(p)
  BY SeenSame DEF SendNext, observerVars
<1>2. /\ todo' = [todo EXCEPT ![s] = @ \ {o}]
      /\ cur' = [cur EXCEPT ![s] = IF err[o] = NoErr THEN o ELSE NoObserver]
      /\ cur[s] = NoObserver /\ o \in todo[s]
      /\ UNCHANGED <<sent, err, slot, got, stopped, sub, subs>>
  BY DEF SendNext, observerVars, subjectVars
<1>3. \A p \in Observers, u \in Senders : Due(p, u)' => Due(p, u)
  BY <1>0, <1>2, SubjectAssumption DEF TypeOK, Due
<1>4. \A p \in Observers, u \in Senders : err[p] = NoErr => Due(p, u)' = Due(p, u)
  BY <1>0, <1>2, SubjectAssumption DEF TypeOK, Due
<1>5. \A p \in Observers, u \in Senders :
        cur'[u] = p => err[p] = NoErr \/ (u # s /\ cur[u] = p)
  BY <1>0, <1>2, SubjectAssumption DEF TypeOK
<1>6. \A p \in Observers, u \in Senders : cur'[u] = p => Due(p, u)' = Due(p, u)
  BY <1>3 DEF Due
<1>7. BoundInv'
  BY <1>1, <1>2, <1>3 DEF GapInv, BoundInv
<1>8. OrderInv'
  BY <1>2 DEF GapInv, OrderInv
<1>9. HoleInv'
  BY <1>1 DEF GapInv, HoleInv
<1>10. UpToInv'
  <2> SUFFICES ASSUME NEW p \in Observers, NEW u \in Senders,
                      NEW k \in Nat, NEW j \in Nat,
                      err[p] = NoErr \/ (cur'[u] = p /\ ~stopped[p]),
                      <<u, k>> \in Seen(p), k <= j, j <= sent[u]
               PROVE  <<u, j>> \in Seen(p) \/ (j = sent[u] /\ Due(p, u)')
    BY <1>1, <1>2 DEF UpToInv
  <2>1. err[p] = NoErr \/ (cur[u] = p /\ ~stopped[p])
    BY <1>5
  <2>2. Due(p, u)' = Due(p, u)
    BY <1>4, <1>6
  <2> QED  BY <2>1, <2>2 DEF GapInv, UpToInv
<1>11. CopyInv'
  BY <1>0, <1>2, SubjectAssumption DEF TypeOK, GapInv, CopyInv
<1>12. KnownInv'
  BY <1>1, <1>2, <1>3 DEF GapInv, KnownInv
<1> QED  BY <1>7, <1>8, <1>9, <1>10, <1>11, <1>12 DEF GapInv

LEMMA DroppedGap ==
  ASSUME StateInv, GapInv, NEW s \in Senders, NEW o \in Observers, SendDropped(s, o)
  PROVE  GapInv'
<1>0. TypeOK
  BY DEF StateInv
<1>1. \A p \in Observers : Seen(p)' = Seen(p)
  BY SeenSame DEF SendDropped, observerVars
<1>2. /\ cur' = [cur EXCEPT ![s] = NoObserver] /\ cur[s] = o /\ err[o] # NoErr
      /\ UNCHANGED <<sent, todo, err, slot, got, stopped, sub, subs>>
  BY DEF SendDropped, observerVars, subjectVars
<1>3. \A p \in Observers, u \in Senders : Due(p, u)' => Due(p, u)
  BY <1>0, <1>2, SubjectAssumption DEF TypeOK, Due
<1>4. \A p \in Observers, u \in Senders :
        u # s \/ p # o => Due(p, u)' = Due(p, u)
  BY <1>0, <1>2, SubjectAssumption DEF TypeOK, Due
<1>5. \A p \in Observers, u \in Senders : cur'[u] = p => u # s /\ cur[u] = p
  BY <1>0, <1>2, SubjectAssumption DEF TypeOK
<1>6. BoundInv'
  BY <1>1, <1>2, <1>3 DEF GapInv, BoundInv
<1>7. OrderInv'
  BY <1>2 DEF GapInv, OrderInv
<1>8. HoleInv'
  BY <1>1 DEF GapInv, HoleInv
<1>9. UpToInv'
  BY <1>1, <1>2, <1>4, <1>5 DEF GapInv, UpToInv
<1>10. CopyInv'
  BY <1>2, <1>5 DEF GapInv, CopyInv
<1>11. KnownInv'
  BY <1>1, <1>2, <1>3 DEF GapInv, KnownInv
<1> QED  BY <1>6, <1>7, <1>8, <1>9, <1>10, <1>11 DEF GapInv

(* The value a pump accepts is its sender's last and goes after all others.  *)
LEMMA AcceptedGap ==
  ASSUME StateInv, GapInv, NEW s \in Senders, NEW o \in Observers, SendAccepted(s, o)
  PROVE  GapInv'
<1>0. TypeOK
  BY DEF StateInv
<1>1. Seen(o)' = Seen(o) \cup {<<s, sent[s]>>}
  BY <1>0, AcceptedSeen
<1>2. \A p \in Observers : p # o => Seen(p)' = Seen(p)
  BY <1>0, AcceptedSeen
<1>3. /\ cur' = [cur EXCEPT ![s] = NoObserver] /\ cur[s] = o /\ ~stopped[o]
      /\ slot[o] = NoValue /\ slot'[o] = <<s, sent[s]>>
      /\ \A p \in Observers : p # o => slot'[p] = slot[p]
      /\ UNCHANGED <<sent, todo, err, got, stopped, sub, subs>>
      /\ sent[s] \in Nat
  BY <1>0 DEF TypeOK, SendAccepted, subjectVars
<1>4. \A p \in Observers, u \in Senders :
        u # s \/ p # o => Due(p, u)' = Due(p, u)
  BY <1>0, <1>3, SubjectAssumption DEF TypeOK, Due
<1>5. Due(o, s) /\ ~Due(o, s)'
  BY <1>0, <1>3, SubjectAssumption DEF TypeOK, Due, GapInv, CopyInv
<1>6. \A u \in Senders, k \in Nat :
        <<u, k>> \in Seen(o)' => <<u, k>> \in Seen(o) \/ (u = s /\ k = sent[s])
  BY <1>1
<1>7. sent[s] > 0
  BY <1>3, SubjectAssumption DEF StateInv, SentInv
<1>8. BoundInv'
  <2> SUFFICES ASSUME NEW p \in Observers, NEW u \in Senders, NEW k \in Nat,
                      <<u, k>> \in Seen(p)'
               PROVE  k > 0 /\ k <= sent[u] /\ (Due(p, u)' => k < sent[u])
    BY <1>3 DEF BoundInv
  <2>1. CASE p # o
    BY <1>2, <1>4, <2>1 DEF GapInv, BoundInv
  <2>2. CASE p = o /\ u # s
    BY <1>4, <1>6, <2>2 DEF GapInv, BoundInv
  <2>3. CASE p = o /\ u = s
    BY <1>3, <1>5, <1>6, <1>7, <2>3 DEF GapInv, BoundInv
  <2> QED  BY <2>1, <2>2, <2>3
<1>9. OrderInv'
  <2>1. ASSUME NEW i \in DOMAIN got[o], got[o][i][1] = s
        PROVE  got[o][i][2] < sent[s]
    <3>1. got[o][i] \in Senders \X Nat
      BY <1>0 DEF TypeOK
    <3>2. PICK k \in Nat : got[o][i] = <<s, k>>
      BY <2>1, <3>1
    <3>3. <<s, k>> \in Seen(o)
      BY <3>2 DEF Seen
    <3> QED  BY <1>5, <3>2, <3>3 DEF GapInv, BoundInv
  <2> QED  BY <1>3, <2>1 DEF GapInv, OrderInv
<1>10. HoleInv'
  <2> SUFFICES ASSUME NEW u \in Senders, NEW k \in Nat, NEW j \in Nat, NEW l \in Nat,
                      <<u, k>> \in Seen(o)', <<u, l>> \in Seen(o)', k <= j, j <= l
               PROVE  <<u, j>> \in Seen(o)'
    BY <1>2 DEF GapInv, HoleInv
  <2>1. CASE <<u, l>> \in Seen(o) /\ <<u, k>> \in Seen(o)
    BY <1>1, <2>1 DEF GapInv, HoleInv
  <2>2. CASE u = s /\ l = sent[s] /\ <<u, k>> \in Seen(o)
    BY <1>1, <1>3, <2>2 DEF GapInv, UpToInv
  <2>3. CASE u = s /\ k = sent[s] /\ <<u, l>> \in Seen(o)
    BY <1>5, <2>3 DEF GapInv, BoundInv
  <2>4. CASE u = s /\ k = sent[s] /\ l = sent[s]
    BY <1>1, <2>4
  <2> QED  BY <1>6, <2>1, <2>2, <2>3, <2>4
<1>11. UpToInv'
  <2> SUFFICES ASSUME NEW p \in Observers, NEW u \in Senders,
                      NEW k \in Nat, NEW j \in Nat,
                      err[p] = NoErr \/ (cur'[u] = p /\ ~stopped[p]),
                      <<u, k>> \in Seen(p)', k <= j, j <= sent[u]
               PROVE  <<u, j>> \in Seen(p)' \/ (j = sent[u] /\ Due(p, u)')
    BY <1>3 DEF UpToInv
  <2>0. err[p] = NoErr \/ (cur[u] = p /\ ~stopped[p])
    BY <1>0, <1>3, SubjectAssumption DEF TypeOK
  <2>1. CASE p # o
    BY <1>2, <1>4, <2>0, <2>1 DEF GapInv, UpToInv
  <2>2. CASE p = o /\ u # s
    BY <1>1, <1>4, <1>6, <2>0, <2>2 DEF GapInv, UpToInv
  <2>3. CASE p = o /\ u = s
    BY <1>1, <1>3, <1>6, <2>0, <2>3 DEF GapInv, UpToInv
  <2> QED  BY <2>1, <2>2, <2>3
<1>12. CopyInv'
  BY <1>0, <1>3, SubjectAssumption DEF TypeOK, GapInv, CopyInv
<1>13. KnownInv'
  <2>1. sub[o] \in {"watched", "ended"}
    BY <1>5 DEF GapInv, KnownInv
  <2>2. \A p \in Observers : (\E u \in Senders : Due(p, u)') =>
                                \E u \in Senders : Due(p, u)
    BY <1>4, <1>5
  <2> QED  BY <1>2, <1>3, <2>1, <2>2 DEF GapInv, KnownInv
<1> QED  BY <1>8, <1>9, <1>10, <1>11, <1>12, <1>13 DEF GapInv

LEMMA GapStep == StateInv /\ GapInv /\ [Next]_vars => GapInv'
<1> SUFFICES ASSUME StateInv, GapInv, [Next]_vars PROVE GapInv'
  OBVIOUS
<1>0. TypeOK /\ Parts
  BY PartsSplit DEF StateInv
<1>1. ASSUME NEW o \in Observers, NEW c \in OwnerCauses, OwnerCancels(o, c)
      PROVE  GapInv'
  <2>1. \A p \in Observers : err[p] # NoErr => err'[p] # NoErr
    BY <1>0, <1>1, Cancels DEF Parts, OwnerCancels, Causes
  <2> QED  BY <1>1, <2>1, GapAside DEF OwnerCancels, subjectVars
<1>2. ASSUME NEW o \in Observers, CancelRefused(o) \/ CancelNext(o)
      PROVE  GapInv'
  <2>1. serr \in Causes
    BY <1>0, <1>2 DEF TypeOK, WalkInv, Parts, CancelRefused, CancelNext
  <2>2. \A p \in Observers : err[p] # NoErr => err'[p] # NoErr
    BY <1>0, <1>2, <2>1, Cancels DEF Parts, CancelRefused, CancelNext
  <2>3. \A p \in Observers : sub[p] \in {"watched", "ended"} =>
                               sub'[p] \in {"watched", "ended"}
    BY <1>0, <1>2 DEF TypeOK, CancelRefused, CancelNext
  <2>4. subs' = subs /\ UNCHANGED <<sendVars, slot, got, stopped>>
    BY <1>2 DEF CancelRefused, CancelNext
  <2> QED  BY <2>2, <2>3, <2>4, GapAside
<1>3. ASSUME NEW o \in Observers, Subscribe(o) \/ Forget(o)
      PROVE  GapInv'
  <2>1. \A p \in Observers : sub[p] \in {"watched", "ended"} =>
                               sub'[p] \in {"watched", "ended"}
    BY <1>0, <1>3 DEF TypeOK, Subscribe, Forget
  <2>2. \A p \in subs' \ subs : sub'[p] = "watched"
    BY <1>0, <1>3 DEF TypeOK, Subscribe, Forget
  <2>3. UNCHANGED <<sendVars, err, slot, got, stopped>>
    BY <1>3 DEF Subscribe, Forget, observerVars
  <2> QED  BY <2>1, <2>2, <2>3, GapAside
<1>4. CASE CancelEnd \/ (\E c \in SubjectCauses : CancelBegin(c)) \/ UNCHANGED vars
  <2>1. /\ UNCHANGED <<sub, sendVars, err, slot, got, stopped>>
        /\ subs' \subseteq subs
    BY <1>4 DEF CancelEnd, CancelBegin, vars, observerVars, subjectVars
  <2> QED  BY <2>1, GapAside
<1> QED
  BY <1>1, <1>2, <1>3, <1>4, DeliverGap, StopsGap, BeginGap, NextGap, DroppedGap,
     AcceptedGap DEF Next

LEMMA GapInductive == Spec => [](StateInv /\ GapInv)
<1> QED  BY StateInit, StateStep, GapInit, GapStep, PTL DEF Spec

LEMMA GapIsNoGap == StateInv /\ GapInv => NoGap
<1> SUFFICES ASSUME StateInv, GapInv, NEW o \in Observers, NEW s \in Senders
             PROVE  /\ \A i, j \in DOMAIN got[o] :
                         i < j /\ got[o][i][1] = s /\ got[o][j][1] = s =>
                           /\ got[o][i][2] < got[o][j][2]
                           /\ \A k \in got[o][i][2]..got[o][j][2] :
                                <<s, k>> \in Range(got[o])
                    /\ err[o] = NoErr =>
                         \A k \in 1..sent[s] : <<s, k>> \in Seen(o) =>
                           \A j \in k..sent[s] :
                             <<s, j>> \in Seen(o) \/ (j = sent[s] /\ Due(o, s))
  BY DEF NoGap
<1>0. TypeOK /\ sent[s] \in Nat
  BY DEF StateInv, TypeOK
<1>1. ASSUME NEW i \in DOMAIN got[o], NEW j \in DOMAIN got[o], i < j,
             got[o][i][1] = s, got[o][j][1] = s
      PROVE  /\ got[o][i][2] < got[o][j][2]
             /\ \A k \in got[o][i][2]..got[o][j][2] : <<s, k>> \in Range(got[o])
  <2>1. got[o][i][2] < got[o][j][2]
    BY <1>1 DEF GapInv, OrderInv
  <2>2. got[o][i] \in Senders \X Nat /\ got[o][j] \in Senders \X Nat
    BY <1>0 DEF TypeOK
  <2>3. PICK m \in Nat : got[o][i] = <<s, m>>
    BY <1>1, <2>2
  <2>4. PICK n \in Nat : got[o][j] = <<s, n>>
    BY <1>1, <2>2
  <2>5. ASSUME NEW k \in m..n PROVE <<s, k>> \in Range(got[o])
    <3>1. <<s, m>> \in Seen(o) /\ <<s, n>> \in Seen(o)
      BY <2>3, <2>4 DEF Seen
    <3>2. k \in Nat /\ m <= k /\ k <= n
      OBVIOUS
    <3>3. <<s, k>> \in Seen(o)
      BY <3>1, <3>2 DEF GapInv, HoleInv
    <3>4. ASSUME slot[o] = <<s, k>> PROVE FALSE
      <4>1. slot[o] # NoValue
        BY <3>2, <3>4, ValuesAssumption
      <4>2. got[o][j][2] < slot[o][2]
        <5>1. got[o][j][1] = slot[o][1]
          BY <2>4, <3>4
        <5> QED  BY <4>1, <5>1 DEF GapInv, OrderInv
      <4> QED  BY <2>4, <3>2, <3>4, <4>2
    <3> QED  BY <3>3, <3>4 DEF Seen, Range
  <2> QED  BY <2>1, <2>3, <2>4, <2>5
<1>2. ASSUME err[o] = NoErr, NEW k \in 1..sent[s], <<s, k>> \in Seen(o),
             NEW j \in k..sent[s]
      PROVE  <<s, j>> \in Seen(o) \/ (j = sent[s] /\ Due(o, s))
  <2>1. k \in Nat /\ j \in Nat /\ k <= j /\ j <= sent[s]
    BY <1>0
  <2> QED  BY <1>2, <2>1 DEF GapInv, UpToInv
<1> QED  BY <1>1, <1>2

(* Whatever the observers' speed and however many senders there are, no      *)
(* observer sees a hole in what one sender has sent.                         *)
THEOREM NoHoles == Spec => []NoGap
<1> QED  BY GapInductive, GapIsNoGap, PTL
=============================================================================
