------------------------------- MODULE Subject -------------------------------
(***************************************************************************)
(* pkg/chanx/subject.go: Send copies the set of subscribers under s.mu and *)
(* then blocks on them one after the other, CancelCause cancels them all   *)
(* while it holds s.mu, and a goroutine per subscriber forgets it when it  *)
(* is done.  The subscribers are observers that keep ObserverContract; its *)
(* variables are functions on Observers here.                              *)
(***************************************************************************)
EXTENDS Integers, Sequences, FiniteSets, Functions

CONSTANTS Observers,    \* the subscribers, each subscribed at most once
          Senders,      \* goroutines that call Send, one call after another
          Rounds,       \* how many values they send together
          SubjectCauses,  \* what the subject's CancelCause may record,
          OwnerCauses,    \* and an observer's (nil is ErrCompleted)
          NoErr, NoValue, NoObserver

Causes == SubjectCauses \cup OwnerCauses

ASSUME SubjectAssumption ==
  /\ NoObserver \notin Observers
  /\ Rounds \in Nat
  /\ NoErr \notin Causes

Values == Senders \X (1..Rounds)         \* who sends it, as which of its own
ASSUME ValuesAssumption == NoValue \notin Senders \X Nat

VARIABLES serr,         \* s.err
          subs,         \* s.subs
          cascading,    \* CancelCause holds s.mu
          cascade,      \* the subscribers it has still to cancel
          sub,          \* where the Subscribe call and its goroutine are
          sent,         \* how many Send calls each sender has begun
          todo,         \* the rest of the subscribers its Send has copied
          cur,          \* the one its Send is blocked on
          err, slot, got, stopped               \* the observers

subjectVars == <<serr, subs, cascading, cascade, sub>>
sendVars == <<sent, todo, cur>>
observerVars == <<err, slot, got, stopped>>
vars == <<subjectVars, sendVars, observerVars>>

SubPcs == {"new", "refused", "watched", "ended"}

Init ==
  /\ serr = NoErr
  /\ subs = {}
  /\ cascading = FALSE
  /\ cascade = {}
  /\ sub = [o \in Observers |-> "new"]
  /\ sent = [s \in Senders |-> 0]
  /\ todo = [s \in Senders |-> {}]
  /\ cur = [s \in Senders |-> NoObserver]
  /\ err = [o \in Observers |-> NoErr]
  /\ slot = [o \in Observers |-> NoValue]
  /\ got = [o \in Observers |-> <<>>]
  /\ stopped = [o \in Observers |-> FALSE]

-----------------------------------------------------------------------------
(* The observer's own steps: CancelCause keeps the first cause; the pump     *)
(* hands its value to a reader, or stops once it is canceled.                *)
CauseAfterOverwrite(o, c) == c                  \* mutant: the last cause wins
CauseAfter(o, c) == IF err[o] = NoErr THEN c ELSE err[o]
CancelObserver(o, c) == err' = [err EXCEPT ![o] = CauseAfter(o, c)]

OwnerCancels(o, c) ==
  /\ err[o] = NoErr
  /\ CancelObserver(o, c)
  /\ UNCHANGED <<subjectVars, sendVars, slot, got, stopped>>

Deliver(o) ==
  /\ slot[o] # NoValue
  /\ got' = [got EXCEPT ![o] = Append(@, slot[o])]
  /\ slot' = [slot EXCEPT ![o] = NoValue]
  /\ UNCHANGED <<subjectVars, sendVars, err, stopped>>

PumpStops(o) ==
  /\ err[o] # NoErr
  /\ ~stopped[o]
  /\ stopped' = [stopped EXCEPT ![o] = TRUE]
  /\ slot' = [slot EXCEPT ![o] = NoValue]
  /\ UNCHANGED <<subjectVars, sendVars, err, got>>

-----------------------------------------------------------------------------
(* Send: under s.mu it is refused or copies the subscribers ...              *)
Idle(s) == cur[s] = NoObserver /\ todo[s] = {}

Sending == FoldFunction(+, 0, sent) < Rounds            \* bounds the sends

SendBegin(s) ==
  /\ Idle(s) /\ Sending /\ <<s, sent[s] + 1>> \in Values
  /\ ~cascading
  /\ sent' = [sent EXCEPT ![s] = @ + 1]
  /\ todo' = [todo EXCEPT ![s] = IF serr = NoErr THEN subs ELSE {}]
  /\ UNCHANGED <<subjectVars, cur, observerVars>>

(* ... then it sends to them in any order: a canceled one returns at once,   *)
SendNext(s, o) ==
  /\ cur[s] = NoObserver /\ o \in todo[s]
  /\ todo' = [todo EXCEPT ![s] = @ \ {o}]
  /\ cur' = [cur EXCEPT ![s] = IF err[o] = NoErr THEN o ELSE NoObserver]
  /\ UNCHANGED <<subjectVars, sent, observerVars>>

(* another one blocks until its pump takes the value or it is canceled.      *)
SendAccepted(s, o) ==
  /\ cur[s] = o
  /\ ~stopped[o] /\ slot[o] = NoValue
  /\ slot' = [slot EXCEPT ![o] = <<s, sent[s]>>]
  /\ cur' = [cur EXCEPT ![s] = NoObserver]
  /\ UNCHANGED <<subjectVars, sent, todo, err, got, stopped>>

SendDroppedBusy(s, o) ==    \* mutant: a busy observer is passed over
  /\ cur[s] = o
  /\ err[o] # NoErr \/ slot[o] # NoValue
  /\ cur' = [cur EXCEPT ![s] = NoObserver]
  /\ UNCHANGED <<subjectVars, sent, todo, observerVars>>

SendDroppedNever(s, o) ==   \* mutant: a blocked Send does not watch Done
  /\ cur[s] = o
  /\ err[o] # NoErr /\ ~stopped[o] /\ slot[o] = NoValue
  /\ cur' = [cur EXCEPT ![s] = NoObserver]
  /\ UNCHANGED <<subjectVars, sent, todo, observerVars>>

SendDropped(s, o) ==
  /\ cur[s] = o
  /\ err[o] # NoErr
  /\ cur' = [cur EXCEPT ![s] = NoObserver]
  /\ UNCHANGED <<subjectVars, sent, todo, observerVars>>

-----------------------------------------------------------------------------
(* Subscribe: refused after a cancellation, and then the observer is         *)
(* canceled after s.mu is released; else it is registered.                   *)
SubscribeLate(o) ==         \* mutant: s.err is not tested
  /\ sub[o] = "new" /\ ~cascading
  /\ sub' = [sub EXCEPT ![o] = "watched"]
  /\ subs' = subs \cup {o}
  /\ UNCHANGED <<serr, cascading, cascade, sendVars, observerVars>>

Subscribe(o) ==
  /\ sub[o] = "new" /\ ~cascading
  /\ IF serr = NoErr
     THEN /\ subs' = subs \cup {o}
          /\ sub' = [sub EXCEPT ![o] = "watched"]
     ELSE /\ sub' = [sub EXCEPT ![o] = "refused"]
          /\ UNCHANGED subs
  /\ UNCHANGED <<serr, cascading, cascade, sendVars, observerVars>>

CancelRefused(o) ==
  /\ sub[o] = "refused"
  /\ CancelObserver(o, serr)
  /\ sub' = [sub EXCEPT ![o] = "ended"]
  /\ UNCHANGED <<serr, subs, cascading, cascade, sendVars, slot, got, stopped>>

(* The goroutine Subscribe starts: it waits for Done and forgets o.          *)
Forget(o) ==
  /\ sub[o] = "watched" /\ err[o] # NoErr
  /\ ~cascading
  /\ sub' = [sub EXCEPT ![o] = "ended"]
  /\ subs' = subs \ {o}
  /\ UNCHANGED <<serr, cascading, cascade, sendVars, observerVars>>

(* CancelCause: one critical section, but its effects on the observers are   *)
(* seen one by one.                                                          *)
CancelBegin(c) ==
  /\ serr = NoErr
  /\ serr' = c
  /\ cascading' = TRUE
  /\ cascade' = subs
  /\ UNCHANGED <<subs, sub, sendVars, observerVars>>

CancelNext(o) ==
  /\ o \in cascade
  /\ cascade' = cascade \ {o}
  /\ CancelObserver(o, serr)
  /\ UNCHANGED <<serr, subs, cascading, sub, sendVars, slot, got, stopped>>

CancelEndLocked ==          \* mutant: s.mu is not released
  /\ cascading /\ cascade = {}
  /\ subs' = {}
  /\ UNCHANGED <<serr, cascading, cascade, sub, sendVars, observerVars>>

CancelEnd ==
  /\ cascading /\ cascade = {}
  /\ cascading' = FALSE
  /\ subs' = {}
  /\ UNCHANGED <<serr, cascade, sub, sendVars, observerVars>>

-----------------------------------------------------------------------------
Next ==
  \/ \E o \in Observers, c \in OwnerCauses : OwnerCancels(o, c)
  \/ \E o \in Observers : Deliver(o) \/ PumpStops(o)
  \/ \E s \in Senders : SendBegin(s)
  \/ \E s \in Senders, o \in Observers :
       SendNext(s, o) \/ SendAccepted(s, o) \/ SendDropped(s, o)
  \/ \E o \in Observers : Subscribe(o) \/ CancelRefused(o) \/ Forget(o)
  \/ \E c \in SubjectCauses : CancelBegin(c)
  \/ \E o \in Observers : CancelNext(o)
  \/ CancelEnd

Spec == Init /\ [][Next]_vars

(* Goroutines are scheduled; calls need not be made and nobody need read.    *)
Scheduling ==
  /\ \A o \in Observers : /\ WF_vars(PumpStops(o))
                          /\ WF_vars(CancelRefused(o))
                          /\ WF_vars(Forget(o))
                          /\ WF_vars(CancelNext(o))
  /\ \A s \in Senders, o \in Observers : /\ WF_vars(SendNext(s, o))
                                         /\ SF_vars(SendAccepted(s, o))
                                         /\ WF_vars(SendDropped(s, o))
  /\ WF_vars(CancelEnd)

FairSpec == Spec /\ Scheduling
AllAreRead == \A o \in Observers : WF_vars(Deliver(o))

-----------------------------------------------------------------------------
TypeOK ==
  /\ serr \in Causes \cup {NoErr}
  /\ subs \subseteq Observers
  /\ cascading \in BOOLEAN
  /\ cascade \subseteq subs
  /\ sub \in [Observers -> SubPcs]
  /\ sent \in [Senders -> Nat]
  /\ todo \in [Senders -> SUBSET Observers]
  /\ cur \in [Senders -> Observers \cup {NoObserver}]
  /\ err \in [Observers -> Causes \cup {NoErr}]
  /\ slot \in [Observers -> (Senders \X Nat) \cup {NoValue}]
  /\ got \in [Observers -> Seq(Senders \X Nat)]
  /\ stopped \in [Observers -> BOOLEAN]

(* Once a cancellation of the subject has returned, every observer whose     *)
(* Subscribe has returned is canceled: none slips between the cancellation's *)
(* walk over s.subs and a concurrent registration (subject.go:37-62,         *)
(* 88-110).                                                                  *)
CancelReaches ==
  serr # NoErr /\ ~cascading =>
    \A o \in Observers : sub[o] \in {"watched", "ended"} => err[o] # NoErr

(* What an observer gets from one sender has no hole: from the first value   *)
(* it sees on it sees, in their order, that sender's values to the last, or  *)
(* to the one before while the last Send has yet to reach it - however slow  *)
(* the observer and whatever the other senders do, until it is canceled      *)
(* (subject.go:64-80).                                                       *)
Seen(o) == {got[o][i] : i \in DOMAIN got[o]} \cup ({slot[o]} \ {NoValue})
Due(o, s) == o \in todo[s] \/ cur[s] = o
NoGap ==
  \A o \in Observers, s \in Senders :
    /\ \A i, j \in DOMAIN got[o] :
         i < j /\ got[o][i][1] = s /\ got[o][j][1] = s =>
           /\ got[o][i][2] < got[o][j][2]
           /\ \A k \in got[o][i][2]..got[o][j][2] : <<s, k>> \in Range(got[o])
    /\ err[o] = NoErr =>
         \A k \in 1..sent[s] : <<s, k>> \in Seen(o) =>
           \A j \in k..sent[s] :
             <<s, j>> \in Seen(o) \/ (j = sent[s] /\ Due(o, s))

(* Every subscriber is an observer that keeps its contract; in particular    *)
(* the subject's cancellation does not replace a cause an observer already   *)
(* has (subject.go:55-57, 90-93; observer.go:93-98).                         *)
line(o) == INSTANCE ObserverContract
             WITH err <- err[o], slot <- slot[o],
                  got <- got[o], stopped <- stopped[o]
Kept(o) == line(o)!ContractNext \/ UNCHANGED line(o)!contractVars
ContractsKept == [][\A o \in Observers : Kept(o)]_vars

(* After the subject is canceled no Send stays blocked, although no observer *)
(* is read any more (subject.go:55-57, observer.go:69-72).                   *)
CancelFreesSenders == (serr # NoErr) ~> \A s \in Senders : Idle(s)

(* In the end every canceled observer is forgotten, and its goroutine has    *)
(* ended, also when the whole subject is canceled meanwhile                  *)
(* (subject.go:103-109).                                                     *)
CanceledForgotten ==
  <>[](\A o \in Observers :
         err[o] # NoErr /\ sub[o] # "new" => o \notin subs /\ sub[o] = "ended")

(* A Send that has copied an observer delivers to it, unless it is canceled, *)
(* as long as all observers are read: in the end nothing is due to an        *)
(* observer that was not canceled, and what it got from a sender ends with   *)
(* that sender's last value (subject.go:71-79).                              *)
From(o, s) == SelectSeq(got[o], LAMBDA v : v[1] = s)
Delivers ==
  AllAreRead =>
    <>[](\A o \in Observers, s \in Senders :
           err[o] = NoErr =>
             /\ ~Due(o, s) /\ slot[o] = NoValue
             /\ From(o, s) # <<>> =>
                  From(o, s)[Len(From(o, s))][2] = sent[s])
=============================================================================
