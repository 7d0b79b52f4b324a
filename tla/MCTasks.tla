------------------------------- MODULE MCTasks -------------------------------
(* Tasks for TLC: one reservation, and one deployment on it.                *)
EXTENDS Tasks

CONSTANTS r1, d1, w1, w2

OneEach == [d \in {d1} |-> r1]
=============================================================================
