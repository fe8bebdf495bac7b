----------------------------- MODULE MCObserver ------------------------------
(***************************************************************************)
(* Instances of Observer for TLC: three concurrent Send calls, two         *)
(* goroutines that wait for Done, and cancellations with and without a     *)
(* cause.                                                                  *)
(***************************************************************************)
EXTENDS Observer

CONSTANTS v1, v2, v3, w1, w2, boom

MCValues == {v1, v2, v3}
MCWatchers == {w1, w2}
MCOneWatcher == {w1}
MCReasons == {NilReason, boom}
=============================================================================
