-------------------------- MODULE ObserverContract ---------------------------
(***************************************************************************)
(* What a chanx observer (pkg/chanx/observer.go) promises: values pass     *)
(* through it one at a time and in order, the first cancellation decides   *)
(* its error, and after it the value channel is closed; a value that is    *)
(* inside at that moment is dropped.                                       *)
(*                                                                         *)
(* Module Observer models the code and implements this module; every       *)
(* observer of module Subject behaves as this module says.                 *)
(***************************************************************************)
EXTENDS Sequences

CONSTANTS Values,       \* what is sent
          Causes,       \* what CancelCause records
          NoErr,        \* o.err is nil
          NoValue       \* nothing is inside

VARIABLES err,          \* o.err
          slot,         \* the value taken from Send and not yet handed on
          got,          \* the values handed on, in order
          stopped       \* the value channel is closed

contractVars == <<err, slot, got, stopped>>

ContractInit ==
  /\ err = NoErr
  /\ slot = NoValue
  /\ got = <<>>
  /\ stopped = FALSE

Accept(v) ==
  /\ ~stopped
  /\ slot = NoValue
  /\ slot' = v
  /\ UNCHANGED <<err, got, stopped>>

Deliver ==
  /\ slot # NoValue
  /\ got' = got \o <<slot>>
  /\ slot' = NoValue
  /\ UNCHANGED <<err, stopped>>

Cancel(c) ==
  /\ err = NoErr
  /\ err' = c
  /\ UNCHANGED <<slot, got, stopped>>

Stop ==
  /\ err # NoErr
  /\ ~stopped
  /\ stopped' = TRUE
  /\ slot' = NoValue
  /\ UNCHANGED <<err, got>>

ContractNext ==
  \/ \E v \in Values : Accept(v)
  \/ Deliver
  \/ \E c \in Causes : Cancel(c)
  \/ Stop

ContractSpec ==
  ContractInit /\ [][ContractNext]_contractVars /\ WF_contractVars(Stop)
=============================================================================
