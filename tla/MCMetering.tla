----------------------------- MODULE MCMetering -----------------------------
(* Metering for TLC: binary fractions of two places, so that a second has    *)
(* four instants, and integers of five bits.                                 *)
EXTENDS Metering, TLC

CONSTANTS t1, t2, d1

\* One report is negative, one at the limit, and one overflows.
Units == {-1, 5, 11}

Requests == Permutations(Threads)
=============================================================================
