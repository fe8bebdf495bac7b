--------------------------- MODULE MCParallelNode ----------------------------
(***************************************************************************)
(* Instances of ParallelNode for TLC.                                      *)
(***************************************************************************)
EXTENDS ParallelNode

CONSTANTS j1, j2, j3

ThreeJobs == {j1, j2, j3}
=============================================================================
