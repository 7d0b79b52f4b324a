--------------------------- MODULE CapacityLedger ---------------------------
(***************************************************************************)
(* What the platform promises about capacity, whatever requests, workers   *)
(* and races there are: the units of a site are either free or in exactly  *)
(* one live hold; a hold is taken once, only from free units, and returned *)
(* at most once, in full.                                                  *)
(***************************************************************************)
EXTENDS Naturals, FiniteSets

CONSTANTS
  Sites,    \* the compute sites
  Holds,    \* identifiers of holds
  Total     \* the units each site has

\* Assumed by the theorems about the ledger; it follows from the assumption of
\* Launchpad, which implements it.
LedgerAssumption ==
  /\ IsFiniteSet(Holds)
  /\ Total \in [Sites -> Nat \ {0}]

VARIABLES
  free,     \* free[s]: the units of s nobody holds
  hold      \* hold[h]: Unused, or the site and units of h and whether it lives

vars == <<free, hold>>

Unused == [state |-> "unused"]

Hold == [state : {"live", "returned"}, site : Sites, units : Nat \ {0}]

Init ==
  /\ free = Total
  /\ hold = [h \in Holds |-> Unused]

Claim(h, s, u) ==
  /\ hold[h] = Unused
  /\ hold' = [hold EXCEPT ![h] = [state |-> "live", site |-> s, units |-> u]]
  /\ free' = [free EXCEPT ![s] = @ - u]

Return(h) ==
  /\ hold[h].state = "live"
  /\ hold' = [hold EXCEPT ![h].state = "returned"]
  /\ free' = [free EXCEPT ![hold[h].site] = @ + hold[h].units]

Next ==
  \E h \in Holds :
    \/ \E s \in Sites : \E u \in 1 .. free[s] : Claim(h, s, u)
    \/ Return(h)

Spec == Init /\ [][Next]_vars

-----------------------------------------------------------------------------

TypeOK ==
  /\ free \in [Sites -> Nat]
  /\ hold \in [Holds -> {Unused} \cup Hold]

LiveAt(h, s) == hold[h] # Unused /\ hold[h].state = "live" /\ hold[h].site = s

\* The single units of s that live holds claim, each named by its hold.
Claims(s) ==
  {x \in Holds \X (1 .. Total[s]) : LiveAt(x[1], s) /\ x[2] <= hold[x[1]].units}

\* Every unit of every site is free or claimed by one live hold, never both
\* and never neither, and no hold is larger than its site.
Conserved ==
  /\ \A s \in Sites : free[s] + Cardinality(Claims(s)) = Total[s]
  /\ \A h \in Holds, s \in Sites : LiveAt(h, s) => hold[h].units <= Total[s]
=============================================================================
