---------------------------- MODULE NestLifecycle ----------------------------
(***************************************************************************)
(* What a nest.Nest (pkg/nest/nest.go) promises to the packages built on   *)
(* it: goroutines are admitted while it is open; the first cancellation    *)
(* wins and moves it, once and in this order, through the before-close     *)
(* hook, the cancellation of the dispatched context, the wait for the      *)
(* goroutines and the after-close hook; Done closes at the very end.       *)
(*                                                                         *)
(* Module Nest models the code itself and is shown to implement this       *)
(* module; the modules of the packages that own a nest (Scheduler,         *)
(* Retrievable, Pipeline, ParallelNode, Cron) are composed with this one,  *)
(* so they do not carry its mutex, watcher and program counters.           *)
(*                                                                         *)
(* An error value is the set of the errors joined in it: nil is {} and     *)
(* errors.Join is union.                                                   *)
(***************************************************************************)
CONSTANTS Goroutines,   \* the goroutines Spawn may start
          Causes,       \* the errors, as sets, Cancel may be given
          HasTimeout    \* shutdownTimeout > 0

VARIABLES phase,        \* how far the one effective Cancel has come
          wg,           \* goroutines started by Spawn that have not returned
          dispatched,   \* the dispatched context is done
          cause,        \* the cause given to the effective Cancel
          timedOut      \* the wait for wg was given up

nestVars == <<phase, wg, dispatched, cause, timedOut>>

Phases == {"open", "before", "draining", "after", "done"}

NestInit ==
  /\ phase = "open"
  /\ wg = {}
  /\ dispatched = FALSE
  /\ cause = {}
  /\ timedOut = FALSE

(* Canceled(): true from the moment Cancel has won, long before Done.      *)
Canceled == phase # "open"

(* Spawn takes the mutex that Cancel holds for the whole shutdown, so it   *)
(* succeeds while the nest is open, is refused once it is done, and blocks *)
(* in between.                                                             *)
Spawn(g) ==
  /\ phase = "open"
  /\ g \notin wg
  /\ wg' = wg \cup {g}
  /\ UNCHANGED <<phase, dispatched, cause, timedOut>>

SpawnRefused == phase = "done" /\ UNCHANGED nestVars

Return(g) ==
  /\ g \in wg
  /\ wg' = wg \ {g}
  /\ UNCHANGED <<phase, dispatched, cause, timedOut>>

(* The dispatched context is derived from the inherited one.               *)
InheritedDone ==
  /\ dispatched' = TRUE
  /\ UNCHANGED <<phase, wg, cause, timedOut>>

BeginCancel(c) ==
  /\ phase = "open"
  /\ phase' = "before"
  /\ cause' = c
  /\ UNCHANGED <<wg, dispatched, timedOut>>

CancelDispatched ==
  /\ phase = "before"
  /\ phase' = "draining"
  /\ dispatched' = TRUE
  /\ UNCHANGED <<wg, cause, timedOut>>

Drained ==
  /\ phase = "draining"
  /\ wg = {}
  /\ phase' = "after"
  /\ UNCHANGED <<wg, dispatched, cause, timedOut>>

Expire ==
  /\ phase = "draining"
  /\ HasTimeout
  /\ phase' = "after"
  /\ timedOut' = TRUE
  /\ UNCHANGED <<wg, dispatched, cause>>

CloseDone ==
  /\ phase = "after"
  /\ phase' = "done"
  /\ UNCHANGED <<wg, dispatched, cause, timedOut>>

NestNext ==
  \/ \E g \in Goroutines : Spawn(g) \/ Return(g)
  \/ InheritedDone
  \/ \E c \in Causes : BeginCancel(c)
  \/ CancelDispatched
  \/ Drained
  \/ Expire
  \/ CloseDone

NestSpec == NestInit /\ [][NestNext]_nestVars
=============================================================================
