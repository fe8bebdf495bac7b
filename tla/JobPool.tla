------------------------------ MODULE JobPool --------------------------------
(***************************************************************************)
(* What a schedx scheduler of either kind promises to whoever pushes into  *)
(* it: a task that gets in is run at most once, on one of the slots, or is *)
(* left over, never both unless the wait for the workers was given up; the *)
(* waiting tasks are limited; and a pool that is closed runs nothing.      *)
(*                                                                         *)
(* Scheduler and Retrievable are shown to implement this module; Cron is   *)
(* composed with it.  It promises nothing to a task that gets in: it may   *)
(* be overlooked for ever, even after the pool has closed (EveryPushRuns). *)
(***************************************************************************)
EXTENDS Integers, FiniteSets

CONSTANTS Tasks,        \* what may be pushed, once each
          Slots,        \* how many jobs may run at a time
          Limit         \* how many may wait; negative is unlimited

VARIABLES life,         \* the pool is open, closing or closed
          late,         \* the wait for its workers was given up
          place         \* where each task is

poolVars == <<life, late, place>>

Places == {"out", "in", "run", "done", "left"}
In(at) == {t \in Tasks : place[t] = at}
Moves(t, to) == place' = [place EXCEPT ![t] = to]

PoolInit ==
  /\ life = "open"
  /\ late = FALSE
  /\ place = [t \in Tasks |-> "out"]

(* Push tests the cancellation before it appends, so a task may get in at    *)
(* any time.                                                                 *)
Enter(t) ==
  /\ place[t] = "out"
  /\ Limit < 0 \/ Cardinality(In("in")) < Limit
  /\ Moves(t, "in")
  /\ UNCHANGED <<life, late>>

(* A worker that outlives a given-up wait may still run what was left over.  *)
Begin(t) ==
  /\ \/ place[t] = "in" /\ life # "closed"
     \/ place[t] \in {"in", "left"} /\ late
  /\ Cardinality(In("run")) < Slots
  /\ Moves(t, "run")
  /\ UNCHANGED <<life, late>>

End(t) ==
  /\ place[t] = "run"
  /\ Moves(t, "done")
  /\ UNCHANGED <<life, late>>

Stop ==
  /\ life = "open"
  /\ life' = "closing"
  /\ UNCHANGED <<late, place>>

GiveUp ==
  /\ life = "closing"
  /\ late' = TRUE
  /\ UNCHANGED <<life, place>>

(* Waiting tasks are given up, one by one or all together at the end.        *)
Leaves(S) ==
  /\ S \subseteq In("in")
  /\ place' = [t \in Tasks |-> IF t \in S THEN "left" ELSE place[t]]

Dismiss(t) ==
  /\ life = "closing"
  /\ Leaves({t})
  /\ UNCHANGED <<life, late>>

Closed ==
  /\ life = "closing"
  /\ In("run") = {} \/ late
  /\ life' = "closed"
  /\ \E S \in SUBSET In("in") : Leaves(S)
  /\ UNCHANGED late

PoolNext ==
  \/ \E t \in Tasks : Enter(t) \/ Begin(t) \/ End(t) \/ Dismiss(t)
  \/ Stop \/ GiveUp \/ Closed

PoolSpec == PoolInit /\ [][PoolNext]_poolVars
=============================================================================
