------------------------------ MODULE MCSubject ------------------------------
(***************************************************************************)
(* Instances of Subject for TLC: two subscribers and two values, sent one  *)
(* after the other or concurrently; a subscriber's owner and the subject's *)
(* cancel with different causes.  No symmetry: liveness is checked too.    *)
(***************************************************************************)
EXTENDS Subject

CONSTANTS o1, o2, s1, s2, completed, boom

MCObservers == {o1, o2}
MCSenders == {s1, s2}
MCSubjectCauses == {completed}
MCOwnerCauses == {boom}
=============================================================================
