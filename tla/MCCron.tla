-------------------------------- MODULE MCCron -------------------------------
(* Three times, two slots, room for one: the counter can reach the number of *)
(* slots while a third tick comes.                                           *)
EXTENDS Cron

CONSTANT u1

MCUsers == {u1}
MCSuicidal == {2}
=============================================================================
