------------------------------- MODULE MCNest --------------------------------
(***************************************************************************)
(* Instances of Nest for TLC.  Two callers race to cancel (one of them     *)
(* with a nil cause), w1 calls the Nest from inside, w2 does not.          *)
(***************************************************************************)
EXTENDS Nest

CONSTANTS a, b, w1, w2

MCCallers == {a, b}
MCWorkers == {w1, w2}
MCNilCausers == {b}
MCReentrant == {w1}
MCNobody == {}
=============================================================================
