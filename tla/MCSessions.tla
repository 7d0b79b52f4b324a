----------------------------- MODULE MCSessions -----------------------------
(* Sessions for TLC.                                                        *)
EXTENDS Sessions

CONSTANTS op, s1, q1, q2, p1, p2, p3, p4
=============================================================================
