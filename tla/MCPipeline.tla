----------------------------- MODULE MCPipeline ------------------------------
(***************************************************************************)
(* Instances of Pipeline for TLC: two stages, the fewest the builders      *)
(* make, and up to two items on two workers.  Items and workers are        *)
(* interchangeable in pipe_safety.  pipe_live has one stage and the finale *)
(* since its liveness tableau multiplies the states.                       *)
(***************************************************************************)
EXTENDS Pipeline, TLC

CONSTANTS i1, i2, w1, w2, c1

MCOneItem == {i1}
MCTwoItems == {i1, i2}
MCOneWorker == {w1}
MCTwoWorkers == {w1, w2}
MCOneCloser == {c1}
Symmetry == Permutations(MCTwoItems) \cup Permutations(MCTwoWorkers)
=============================================================================
