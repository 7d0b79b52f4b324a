------------------------------- MODULE MCJobs -------------------------------
(* Jobs for TLC.                                                            *)
EXTENDS Jobs

CONSTANTS j1, j2, w1, w2, w3
=============================================================================
