----------------------------- MODULE Timestamps -----------------------------
(***************************************************************************)
(* Times as the database holds them. A time is written as RFC3339Nano text *)
(* in UTC and every comparison in SQL compares the texts.                  *)
(*                                                                         *)
(* The text has a fixed width up to the seconds, then the fraction without *)
(* its trailing zeros, or nothing at all if it is zero, and then a Z. So   *)
(* within one second the texts have different lengths, and '.' sorts       *)
(* before the digits and these before Z.                                   *)
(***************************************************************************)
EXTENDS Integers, Sequences

CONSTANTS
  Base,     \* digits are 0 .. Base - 1 (10 in the code)
  Places    \* digits of a fraction (9 in the code)

ASSUME TimestampsAssumption ==
  /\ Base \in Nat \ {0, 1}
  /\ Places \in Nat

\* Power[n]: what a digit n places to the left of another is worth.
Power[n \in 0 .. Places] == IF n = 0 THEN 1 ELSE Base * Power[n - 1]

\* A time is a number of the smallest fractions of a second.
Second == Power[Places]

SecondOf(t) == t \div Second

\* The i-th digit of the fraction.
Digit(t, i) == (t \div Power[Places - i]) % Base

\* The digits left when the trailing zeros are dropped.
PlacesOf(t) ==
  CHOOSE n \in 0 .. Places :
    /\ t % Power[Places - n] = 0
    /\ \A m \in 0 .. (n - 1) : t % Power[Places - m] # 0

Dot  == -1
Zulu == Base

\* The characters from the seconds on. What comes before and the seconds
\* themselves have a fixed width: one character stands for them all.
Text(t) ==
  <<SecondOf(t)>>
    \o (IF PlacesOf(t) = 0 THEN <<>>
        ELSE <<Dot>> \o [i \in 1 .. PlacesOf(t) |-> Digit(t, i)])
    \o <<Zulu>>

\* Text comparison. No text is a prefix of another: they all end in Zulu,
\* which occurs nowhere else.
TextBefore(a, b) ==
  \E n \in 1 .. Len(a) :
    /\ n <= Len(b)
    /\ a[n] < b[n]
    /\ \A m \in 1 .. (n - 1) : a[m] = b[m]

\* t < u and t <= u as SQL sees them.
SqlBefore(t, u)    == TextBefore(Text(t), Text(u))
SqlNotAfter(t, u) == ~SqlBefore(u, t)
=============================================================================
