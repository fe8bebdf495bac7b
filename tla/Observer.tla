------------------------------ MODULE Observer -------------------------------
(***************************************************************************)
(* pkg/chanx/observer.go: an observer with its pump goroutine, the Send    *)
(* calls that feed it, goroutines that wait for Done, and the goroutine    *)
(* that reads Value.                                                       *)
(*                                                                         *)
(* o.mu guards short sections that wait for nothing, so each is one step.  *)
(* The read of o.done without the lock is a step of its own: the done      *)
(* channel is made by whoever asks for it first, or is the shared closedch *)
(* when nobody asked before the cancellation.  A select is one step, taken *)
(* when one of its cases is ready; it may take either of two ready ones.   *)
(***************************************************************************)
EXTENDS Integers, Sequences, FiniteSets

CONSTANTS Values,       \* what is sent, one Send call for each value
          Watchers,     \* goroutines that wait for Done
          Reasons,      \* what CancelCause is given
          NilReason,    \* CancelCause(nil)
          Completed,    \* ErrCompleted
          Pump,         \* the goroutine NewNotifiableObserver starts
          NoErr, NoValue, NoChan, ClosedCh

Callers == Values \cup Watchers \cup {Pump}     \* who calls Done
Chans == Callers \cup {ClosedCh}                \* a channel is named by its maker

ASSUME CallersAssumption ==
  /\ IsFiniteSet(Values) /\ NoValue \notin Values
  /\ Values \cap Watchers = {}
  /\ Pump \notin Values \cup Watchers
  /\ ClosedCh \notin Callers /\ NoChan \notin Chans
ASSUME ReasonsAssumption == NoErr \notin Reasons \cup {Completed}

VARIABLES err,          \* o.err
          done,         \* o.done
          closed,       \* the channels that are closed
          pc,           \* where each caller is
          ch,           \* the channel each caller got from Done
          slot,         \* the value the pump took from in
          got           \* the values read from Value, in order

vars == <<err, done, closed, pc, ch, slot, got>>

Waiting == {"load", "make", "select"}
Ended == {"refused", "sent", "dropped", "woken", "stopped"}

Init ==
  /\ err = NoErr
  /\ done = NoChan
  /\ closed = {ClosedCh}
  /\ pc = [p \in Callers |-> IF p = Pump THEN "load" ELSE "idle"]
  /\ ch = [p \in Callers |-> NoChan]
  /\ slot = NoValue
  /\ got = <<>>

Goto(p, at) == pc' = [pc EXCEPT ![p] = at]

-----------------------------------------------------------------------------
(* Done: the read without the lock, then the second look under the lock.     *)
LoadDone(p) ==
  /\ pc[p] = "load"
  /\ ch' = [ch EXCEPT ![p] = done]
  /\ Goto(p, IF done = NoChan THEN "make" ELSE "select")
  /\ UNCHANGED <<err, done, closed, slot, got>>

MakeDoneUnchecked(p) ==     \* mutant: no second Load under the lock
  /\ pc[p] = "make"
  /\ done' = p
  /\ ch' = [ch EXCEPT ![p] = done']
  /\ Goto(p, "select")
  /\ UNCHANGED <<err, closed, slot, got>>

MakeDone(p) ==
  /\ pc[p] = "make"
  /\ done' = IF done = NoChan THEN p ELSE done
  /\ ch' = [ch EXCEPT ![p] = done']
  /\ Goto(p, "select")
  /\ UNCHANGED <<err, closed, slot, got>>

(* CancelCause: only the first has an effect.                                *)
Cause(r) == IF r = NilReason THEN Completed ELSE r

CancelCauseUnlatched(r) ==  \* mutant: closedch is not stored when done is nil
  /\ err = NoErr
  /\ err' = Cause(r)
  /\ closed' = closed \cup ({done} \ {NoChan})
  /\ UNCHANGED <<done, pc, ch, slot, got>>

CancelCause(r) ==
  /\ err = NoErr
  /\ err' = Cause(r)
  /\ done' = IF done = NoChan THEN ClosedCh ELSE done
  /\ closed' = closed \cup {done'}
  /\ UNCHANGED <<pc, ch, slot, got>>

-----------------------------------------------------------------------------
(* Send: refused after a cancellation, else it asks for Done and selects.    *)
SendTest(v) ==
  /\ pc[v] = "idle"
  /\ Goto(v, IF err = NoErr THEN "load" ELSE "refused")
  /\ UNCHANGED <<err, done, closed, ch, slot, got>>

Watch(w) ==
  /\ pc[w] = "idle"
  /\ Goto(w, "load")
  /\ UNCHANGED <<err, done, closed, ch, slot, got>>

(* The pump's first select meets a Send: the pump goes on to its second.     *)
AcceptBusy(v) ==            \* mutant: the pump reads in while it holds a value
  /\ pc[v] = "select" /\ pc[Pump] = "select"
  /\ slot' = v
  /\ pc' = [pc EXCEPT ![v] = "sent", ![Pump] = "load"]
  /\ UNCHANGED <<err, done, closed, ch, got>>

Accept(v) ==
  /\ pc[v] = "select" /\ pc[Pump] = "select"
  /\ slot = NoValue
  /\ slot' = v
  /\ pc' = [pc EXCEPT ![v] = "sent", ![Pump] = "load"]
  /\ UNCHANGED <<err, done, closed, ch, got>>

(* The second select meets a reader of Value: the pump starts over.          *)
DeliverOnce ==              \* mutant: the pump does not loop
  /\ pc[Pump] = "select"
  /\ slot # NoValue
  /\ got' = Append(got, slot)
  /\ slot' = NoValue
  /\ Goto(Pump, "stopped")
  /\ UNCHANGED <<err, done, closed, ch>>

Deliver ==
  /\ pc[Pump] = "select"
  /\ slot # NoValue
  /\ got' = Append(got, slot)
  /\ slot' = NoValue
  /\ Goto(Pump, "load")
  /\ UNCHANGED <<err, done, closed, ch>>

(* The other case of every select: the done channel is closed.               *)
SendDropped(v) ==
  /\ pc[v] = "select" /\ ch[v] \in closed
  /\ Goto(v, "dropped")
  /\ UNCHANGED <<err, done, closed, ch, slot, got>>

WatchWakes(w) ==
  /\ pc[w] = "select" /\ ch[w] \in closed
  /\ Goto(w, "woken")
  /\ UNCHANGED <<err, done, closed, ch, slot, got>>

PumpStopsIdle ==            \* mutant: the second select does not watch Done
  /\ pc[Pump] = "select" /\ ch[Pump] \in closed
  /\ slot = NoValue
  /\ Goto(Pump, "stopped")
  /\ UNCHANGED <<err, done, closed, ch, slot, got>>

PumpStops ==
  /\ pc[Pump] = "select" /\ ch[Pump] \in closed
  /\ slot' = NoValue
  /\ Goto(Pump, "stopped")
  /\ UNCHANGED <<err, done, closed, ch, got>>

-----------------------------------------------------------------------------
Next ==
  \/ \E p \in Callers : LoadDone(p) \/ MakeDone(p)
  \/ \E r \in Reasons : CancelCause(r)
  \/ \E v \in Values : SendTest(v) \/ Accept(v) \/ SendDropped(v)
  \/ \E w \in Watchers : Watch(w) \/ WatchWakes(w)
  \/ Deliver
  \/ PumpStops

Spec == Init /\ [][Next]_vars

(* Goroutines are scheduled.  Nobody need ever send, cancel or read.         *)
Scheduling ==
  /\ \A p \in Callers : WF_vars(LoadDone(p) \/ MakeDone(p))
  /\ \A v \in Values : WF_vars(Accept(v)) /\ WF_vars(SendDropped(v))
  /\ \A w \in Watchers : WF_vars(WatchWakes(w))
  /\ WF_vars(PumpStops)

FairSpec == Spec /\ Scheduling
IsRead == WF_vars(Deliver)      \* somebody reads Value until it closes

-----------------------------------------------------------------------------
PumpPcs == Waiting \cup {"stopped"}
TypeOK ==
  /\ err \in {NoErr, Completed} \cup (Reasons \ {NilReason})
  /\ done \in Chans \cup {NoChan}
  /\ closed \subseteq Chans
  /\ pc \in [Callers -> {"idle"} \cup Waiting \cup Ended]
  /\ pc[Pump] \in PumpPcs
  /\ ch \in [Callers -> Chans \cup {NoChan}]
  /\ slot \in Values \cup {NoValue}
  /\ got \in Seq(Values)

(* Whoever got a channel from Done, by whichever of its two paths and at     *)
(* whatever time, finds it closed exactly when CancelCause has recorded a    *)
(* cause: no caller is left waiting on a channel that nobody closes, and     *)
(* nobody sees Done closed while Err is still nil (observer.go:77-111).      *)
OneSignal ==
  \A p \in Callers : ch[p] # NoChan => (ch[p] \in closed <=> err # NoErr)

(* No value vanishes, is doubled or overtakes another between Send and       *)
(* Value: those whose Send was taken are the ones read and at most one more, *)
(* which is inside the pump, or was there when it stopped; a Send is taken   *)
(* only when every value taken before it has been read; and what has been    *)
(* read grows only at its end (observer.go:14-28, 70-72).                    *)
Passed == {got[i] : i \in 1..Len(got)}
SentValues == {v \in Values : pc[v] = "sent"}
OnceEach ==
  /\ Cardinality(Passed) = Len(got)
  /\ Passed \subseteq SentValues
  /\ IF pc[Pump] = "stopped" THEN Cardinality(SentValues \ Passed) <= 1
     ELSE SentValues \ Passed = {slot} \ {NoValue}
InOrder ==
  /\ SentValues' # SentValues => SentValues \subseteq Passed
  /\ Len(got) <= Len(got') /\ \A i \in 1..Len(got) : got'[i] = got[i]
NothingVanishes == [][OnceEach' /\ InOrder]_vars

(* After a cancellation no Send stays blocked and no waiter for Done sleeps, *)
(* though nobody reads Value any more (observer.go:61-90).                   *)
CancelFrees ==
  (err # NoErr) ~> \A p \in Callers \ {Pump} : pc[p] \notin Waiting

(* A Send that begins returns, and its value is read, unless the observer is *)
(* canceled, as long as somebody reads Value (observer.go:14-28, 61-73).     *)
Arrives ==
  IsRead =>
    \A v \in Values : (pc[v] \in Waiting) ~> (v \in Passed \/ err # NoErr)

(* The observer keeps the contract, the closing of Value included.           *)
line == INSTANCE ObserverContract
          WITH Causes <- {Cause(r) : r \in Reasons},
               stopped <- (pc[Pump] = "stopped")
Contract == line!ContractSpec
=============================================================================
