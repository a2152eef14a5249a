----------------------------- MODULE MCScheduler -----------------------------
(* Instances of the scheduler for TLC. *)
EXTENDS Scheduler

CONSTANTS p1, p2

(* Two crons that share a tick. *)
Crons == [p \in Plugins |-> IF p = p1 THEN {1, 2, 3} ELSE {2}]
=============================================================================
