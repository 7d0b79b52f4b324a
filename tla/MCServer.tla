------------------------------ MODULE MCServer ------------------------------
(* Server for TLC: this process and another new one, and an old binary.     *)
EXTENDS Server

CONSTANTS old, new, self, q1, q2

MCKnown == [p \in Processes |-> IF p = old THEN 1 ELSE 3]
=============================================================================
