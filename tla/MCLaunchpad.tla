---------------------------- MODULE MCLaunchpad ----------------------------
(* Small instances of Launchpad: which operations run, on how many units.  *)
EXTENDS Launchpad, TLC

CONSTANTS t1, t2, s1, c1, r1, r2

CapacityOps == {"ReviewSite", "TransitionSite", "StartScenarioReview",
  "DecideScenario", "ReserveCapacity", "ReleaseReservation", "ExpireReservation"}

AllOps == CapacityOps \cup {"CreateDeployment", "AdvanceDeployment",
  "ActivateDeploymentJob", "StopDeployment", "StopDeploymentAndRelease"}

\* Two units each on a site of three: the second reservation must not fit
\* beside the first.
ThreeUnits == [s \in Sites |-> 3]
TwoEach    == [c \in Scenarios |-> 2]

ThreadsAndIds == Permutations(Threads) \cup Permutations(Reservations)
=============================================================================
