---------------------------- MODULE MCRetrievable ----------------------------
(***************************************************************************)
(* Instances of Retrievable for TLC.                                       *)
(***************************************************************************)
EXTENDS Retrievable

CONSTANTS t1, t2, w1, r1, c1, x1, x2

OneTask == {t1}
TwoTasks == {t1, t2}
OneWorker == {w1}
OneRunner == {r1}
OneCloser == {c1}
TwoWaiters == {x1, x2}
=============================================================================
