------------------------------ MODULE Launchpad ------------------------------
(***************************************************************************)
(* The launchpad's tables and the service operations that change them.     *)
(*                                                                         *)
(* An operation runs on a thread: an HTTP request or the durable worker.   *)
(* It reads rows with plain SELECTs, checks them in Go, and then commits   *)
(* one SQLite transaction whose UPDATEs re-check part of what was read.    *)
(* Nothing is locked between the two, so a Read action records in call[t]  *)
(* what the thread will commit and on which row version, and a Commit      *)
(* action applies it if the guards of the SQL still hold. A Commit whose   *)
(* guards fail rolls back: that, a cancelled context and a crashed process *)
(* are all Abandon(t). A Read whose checks fail changes nothing and is not *)
(* a step.                                                                 *)
(***************************************************************************)
EXTENDS Lifecycles, Naturals, FiniteSets

CONSTANTS
  Threads,        \* goroutines serving requests or running the worker
  Sites, Scenarios,
  Reservations,   \* reservation ids; a deployment is named by its reservation
  Total,          \* Total[s]: the total_units of site s
  Units,          \* Units[c]: the requested_units of scenario c
  Operations,     \* the operations threads of this instance run
  MaxSiteVersion  \* no site transition is committed from this version on

ASSUME LaunchpadAssumption ==
  /\ IsFiniteSet(Reservations)
  /\ Total \in [Sites -> Nat \ {0}]
  /\ Units \in [Scenarios -> Nat \ {0}]
  /\ MaxSiteVersion \in Nat

VARIABLES
  site, scenario, reservation, deployment,  \* the tables, one row per id
  review,       \* review[kind, id, decision]: rows in compliance_reviews and
                \* scenario_reviews, each with an id of its own
  job,          \* <<kind, id>> of the rows inserted in jobs
  audit,        \* audit[kind, id]: audit_events rows about that object
  due,          \* reservations whose expires_at has passed
  call          \* call[t]: what thread t is about to commit

tables == <<site, scenario, reservation, deployment, review, job, audit>>
vars   == <<tables, due, call>>

Absent == [status |-> "absent", version |-> 0]
Idle   == [op |-> "Idle"]

Version        == Nat \ {0}
SiteRow        == [status : SiteStatus, version : Version, available : Nat]
ScenarioRow    == [status : ScenarioStatus, version : Version]
ReservationRow == [status : ReservationStatus, version : Version,
                   site : Sites, scenario : Scenarios]
DeploymentRow  == [status : DeploymentStatus, version : Version]

Objects == ({"site"} \X Sites) \cup ({"scenario"} \X Scenarios)
             \cup ({"reservation", "deployment"} \X Reservations)

Decisions == {"approved", "rejected"}
Verdicts  == ({"site"} \X Sites \X Decisions) \cup ({"scenario"} \X Scenarios \X Decisions)

\* What a thread carries from its reads to its commit: the row it will
\* update, the status it will write and the version it read.
SiteCall     == [op : {"ReviewSite", "TransitionSite"},
                 site : Sites, next : SiteStatus, version : Version]
ScenarioCall == [op : {"StartScenarioReview"}, scenario : Scenarios,
                 next : {"reviewing"}, version : Version]
                  \cup [op : {"DecideScenario"}, scenario : Scenarios,
                        next : Decisions, version : Version]
ReserveCall  == [op : {"ReserveCapacity"}, scenario : Scenarios, site : Sites]
ReturnCall   == [op : {"ReleaseReservation", "ExpireReservation"},
                 reservation : Reservations, next : {"released", "expired"},
                 version : Version]
DeployCall   == [op : {"CreateDeployment"}, reservation : Reservations]
AdvanceCall  == [op : {"AdvanceDeployment", "ActivateDeploymentJob",
                       "StopDeployment"},
                 reservation : Reservations, next : DeploymentStatus,
                 version : Version]
StopCall     == [op : {"StopDeploymentAndRelease"}, reservation : Reservations,
                 version : Version, reservationVersion : Version]

Call == SiteCall \cup ScenarioCall \cup ReserveCall \cup ReturnCall
          \cup DeployCall \cup AdvanceCall \cup StopCall

Init ==
  /\ site        = [s \in Sites |-> Absent]
  /\ scenario    = [c \in Scenarios |-> Absent]
  /\ reservation = [r \in Reservations |-> Absent]
  /\ deployment  = [r \in Reservations |-> Absent]
  /\ review = [v \in Verdicts |-> 0]
  /\ job = {}
  /\ audit = [o \in Objects |-> 0]
  /\ due = {}
  /\ call = [t \in Threads |-> Idle]

\* A thread has read its rows, found them in order and goes on to commit q.
Proceed(t, q) ==
  /\ q.op \in Operations
  /\ call[t] = Idle
  /\ call' = [call EXCEPT ![t] = q]
  /\ UNCHANGED <<tables, due>>

Done(t) == call' = [call EXCEPT ![t] = Idle]

Audited(kind, id) == audit' = [audit EXCEPT ![<<kind, id>>] = @ + 1]

\* Nothing in the tables of reviews is unique but the id of the row.
Reviewed(kind, id, decision) ==
  review' = [review EXCEPT ![<<kind, id, decision>>] = @ + 1]

-----------------------------------------------------------------------------
(* Sites *)

CreateSite(s) ==
  /\ site[s] = Absent
  /\ site' = [site EXCEPT
       ![s] = [status |-> "draft", version |-> 1, available |-> Total[s]]]
  /\ UNCHANGED <<scenario, reservation, deployment, review, job, audit, due, call>>

ReviewOutcome(decision) ==
  IF decision = "approved" THEN "verified" ELSE "suspended"

ReadReviewSite(t, s, decision) ==
  /\ SiteCanMove(site[s].status, ReviewOutcome(decision))
  /\ Proceed(t, [op |-> "ReviewSite", site |-> s,
                 next |-> ReviewOutcome(decision), version |-> site[s].version])

\* An operator asks for any status the lifecycle allows next.
ReadTransitionSite(t, s, next) ==
  /\ SiteCanMove(site[s].status, next)
  /\ Proceed(t, [op |-> "TransitionSite", site |-> s,
                 next |-> next, version |-> site[s].version])

\* Mutant: the status is written, the version is not raised.
MoveSiteUnversioned(s, next) == site' = [site EXCEPT ![s].status = next]

MoveSite(s, next) ==
  site' = [site EXCEPT ![s].status = next, ![s].version = @ + 1]

SiteUnmoved(s, version) == site[s].version = version

CommitReviewSite(t) ==
  /\ call[t].op = "ReviewSite"
  /\ LET s == call[t].site IN
       /\ SiteUnmoved(s, call[t].version)
       /\ site[s].status = "draft"
       /\ MoveSite(s, call[t].next)
       /\ Reviewed("site", s, IF call[t].next = "verified" THEN "approved" ELSE "rejected")
       /\ Audited("site", s)
  /\ Done(t)
  /\ UNCHANGED <<scenario, reservation, deployment, job, due>>

CommitTransitionSite(t) ==
  /\ call[t].op = "TransitionSite"
  /\ LET s == call[t].site IN
       /\ SiteUnmoved(s, call[t].version)
       /\ site[s].version < MaxSiteVersion
       /\ MoveSite(s, call[t].next)
       /\ Audited("site", s)
  /\ Done(t)
  /\ UNCHANGED <<scenario, reservation, deployment, review, job, due>>

-----------------------------------------------------------------------------
(* Scenarios *)

SubmitScenario(c) ==
  /\ scenario[c] = Absent
  /\ scenario' = [scenario EXCEPT ![c] = [status |-> "submitted", version |-> 1]]
  /\ UNCHANGED <<site, reservation, deployment, review, job, audit, due, call>>

ReadScenarioReview(t, c, op, next) ==
  /\ ScenarioCanMove(scenario[c].status, next)
  /\ Proceed(t, [op |-> op, scenario |-> c,
                 next |-> next, version |-> scenario[c].version])

ReadStartScenarioReview(t, c) ==
  ReadScenarioReview(t, c, "StartScenarioReview", "reviewing")

ReadDecideScenario(t, c, decision) ==
  ReadScenarioReview(t, c, "DecideScenario", decision)

\* Mutant: the version is no longer part of the WHERE clause.
UpdateScenarioBlind(c, next, version) ==
  scenario' = [scenario EXCEPT ![c].status = next, ![c].version = @ + 1]

UpdateScenario(c, next, version) ==
  /\ scenario[c].version = version
  /\ scenario' = [scenario EXCEPT ![c].status = next, ![c].version = @ + 1]

\* Mutant: the transaction writes no audit event.
CommitStartScenarioReviewSilent(t) ==
  /\ call[t].op = "StartScenarioReview"
  /\ UpdateScenario(call[t].scenario, call[t].next, call[t].version)
  /\ Done(t)
  /\ UNCHANGED <<site, reservation, deployment, review, job, audit, due>>

CommitStartScenarioReview(t) ==
  /\ call[t].op = "StartScenarioReview"
  /\ UpdateScenario(call[t].scenario, call[t].next, call[t].version)
  /\ Audited("scenario", call[t].scenario)
  /\ Done(t)
  /\ UNCHANGED <<site, reservation, deployment, review, job, due>>

CommitDecideScenario(t) ==
  /\ call[t].op = "DecideScenario"
  /\ UpdateScenario(call[t].scenario, call[t].next, call[t].version)
  /\ Reviewed("scenario", call[t].scenario, call[t].next)
  /\ Audited("scenario", call[t].scenario)
  /\ Done(t)
  /\ UNCHANGED <<site, reservation, deployment, job, due>>

-----------------------------------------------------------------------------
(* Reservations *)

UnitsOf(r) == Units[reservation[r].scenario]

CanReserve(s, units) ==
  site[s].status = "active" /\ site[s].available >= units

\* Mutant: the scenario's review is not awaited.
ReadReserveUnreviewed(t, c, s) ==
  /\ scenario[c] # Absent
  /\ CanReserve(s, Units[c])
  /\ Proceed(t, [op |-> "ReserveCapacity", scenario |-> c, site |-> s])

\* FindScenario and FindSite are two SELECTs. An approved scenario never
\* changes again, so reading it at the moment the site is read loses nothing.
ReadReserveCapacity(t, c, s) ==
  /\ scenario[c].status = "approved"
  /\ CanReserve(s, Units[c])
  /\ Proceed(t, [op |-> "ReserveCapacity", scenario |-> c, site |-> s])

\* Mutants: the UPDATE trusts what CanReserve saw of the units, of the status.
ClaimableAnyUnits(s, units)  == site[s].status = "active"
ClaimableAnyStatus(s, units) == site[s].available >= units

\* The WHERE clause of the UPDATE that takes the units.
Claimable(s, units) ==
  site[s].status = "active" /\ site[s].available >= units

ClaimUnits(s, units) ==
  site' = [site EXCEPT ![s].available = @ - units, ![s].version = @ + 1]

CommitReserveCapacity(t, r) ==
  /\ call[t].op = "ReserveCapacity"
  /\ reservation[r] = Absent
  /\ LET s == call[t].site
         c == call[t].scenario IN
       /\ Claimable(s, Units[c])
       /\ ClaimUnits(s, Units[c])
       /\ reservation' = [reservation EXCEPT
            ![r] = [status |-> "confirmed", version |-> 1,
                    site |-> s, scenario |-> c]]
  /\ job' = job \cup {<<"expire_reservation", r>>}
  /\ Audited("reservation", r)
  /\ Done(t)
  /\ UNCHANGED <<scenario, deployment, review, due>>

ReadReleaseReservation(t, r) ==
  /\ ReservationCanMove(reservation[r].status, "released")
  /\ Proceed(t, [op |-> "ReleaseReservation", reservation |-> r,
                 next |-> "released", version |-> reservation[r].version])

\* The worker runs this for the job of r, an operator's reconciliation for
\* each id it is given.
ReadExpireReservation(t, r) ==
  /\ r \in due
  /\ ReservationCanMove(reservation[r].status, "expired")
  /\ Proceed(t, [op |-> "ExpireReservation", reservation |-> r,
                 next |-> "expired", version |-> reservation[r].version])

\* Mutant: neither the version nor the status is part of the WHERE clause.
ReturnableAlways(r, version) == TRUE

\* The WHERE clause of the UPDATE that ends a reservation.
Returnable(r, version) ==
  reservation[r].version = version /\ HoldsCapacity(reservation[r].status)

MoveReservation(r, next) ==
  reservation' = [reservation EXCEPT ![r].status = next, ![r].version = @ + 1]

\* Gives the units of r back to its site, unless that would exceed the total.
ReturnUnits(r) ==
  LET s == reservation[r].site IN
    /\ site[s].available + UnitsOf(r) <= Total[s]
    /\ site' = [site EXCEPT ![s].available = @ + UnitsOf(r), ![s].version = @ + 1]

CommitReturn(t) ==
  /\ call[t].op \in {"ReleaseReservation", "ExpireReservation"}
  /\ LET r == call[t].reservation IN
       /\ Returnable(r, call[t].version)
       /\ MoveReservation(r, call[t].next)
       /\ ReturnUnits(r)
       /\ Audited("reservation", r)
  /\ Done(t)
  /\ UNCHANGED <<scenario, deployment, review, job, due>>

\* The clock reaches expires_at of a reservation that still holds capacity.
ReachExpiry(r) ==
  /\ HoldsCapacity(reservation[r].status)
  /\ r \notin due
  /\ due' = due \cup {r}
  /\ UNCHANGED <<tables, call>>

-----------------------------------------------------------------------------
(* Deployments *)

Deployable(r) == reservation[r].status = "confirmed" /\ r \notin due

ReadCreateDeployment(t, r) ==
  /\ Deployable(r)
  /\ Proceed(t, [op |-> "CreateDeployment", reservation |-> r])

\* Mutant: the activation job is not inserted in the transaction.
CommitCreateDeploymentNoJob(t) ==
  /\ call[t].op = "CreateDeployment"
  /\ LET r == call[t].reservation IN
       /\ deployment[r] = Absent
       /\ deployment' = [deployment EXCEPT
            ![r] = [status |-> "queued", version |-> 1]]
       /\ Audited("deployment", r)
  /\ Done(t)
  /\ UNCHANGED <<site, scenario, reservation, review, job, due>>

\* The UNIQUE index on reservation_id is the only guard of the INSERT.
CommitCreateDeployment(t) ==
  /\ call[t].op = "CreateDeployment"
  /\ LET r == call[t].reservation IN
       /\ deployment[r] = Absent
       /\ deployment' = [deployment EXCEPT
            ![r] = [status |-> "queued", version |-> 1]]
       /\ job' = job \cup {<<"activate_deployment", r>>}
       /\ Audited("deployment", r)
  /\ Done(t)
  /\ UNCHANGED <<site, scenario, reservation, review, due>>

Advance(op, r, next) ==
  [op |-> op, reservation |-> r, next |-> next, version |-> deployment[r].version]

ReadAdvanceDeployment(t, r, next) ==
  /\ DeploymentCanMove(deployment[r].status, next)
  /\ Proceed(t, Advance("AdvanceDeployment", r, next))

\* The worker moves a queued deployment to activating first; one that an
\* earlier attempt left activating goes straight to running.
ReadActivateDeploymentJob(t, r) ==
  /\ <<"activate_deployment", r>> \in job
  /\ \/ /\ deployment[r].status = "queued"
        /\ Proceed(t, Advance("ActivateDeploymentJob", r, "activating"))
     \/ /\ deployment[r].status = "activating"
        /\ Proceed(t, Advance("ActivateDeploymentJob", r, "running"))

\* A running deployment only starts to stop; the next call finishes it. The
\* two SELECTs are one read: if either row moves on after it was read, its
\* version in the WHERE clauses makes the commit fail.
ReadStopDeployment(t, r) ==
  \/ /\ deployment[r].status = "running"
     /\ Proceed(t, Advance("StopDeployment", r, "stopping"))
  \/ /\ deployment[r].status = "stopping"
     /\ ReservationCanMove(reservation[r].status, "released")
     /\ Proceed(t, [op |-> "StopDeploymentAndRelease", reservation |-> r,
                    version |-> deployment[r].version,
                    reservationVersion |-> reservation[r].version])

\* Mutant: the version is no longer part of the WHERE clause.
UpdateDeploymentBlind(r, next, version) ==
  deployment' = [deployment EXCEPT ![r].status = next, ![r].version = @ + 1]

UpdateDeployment(r, next, version) ==
  /\ deployment[r].version = version
  /\ deployment' = [deployment EXCEPT ![r].status = next, ![r].version = @ + 1]

\* TransitionDeployment. After its first commit ActivateDeploymentJob goes on
\* to running with the row it holds in memory.
CommitAdvance(t) ==
  /\ call[t].op \in {"AdvanceDeployment", "ActivateDeploymentJob", "StopDeployment"}
  /\ LET r == call[t].reservation IN
       /\ UpdateDeployment(r, call[t].next, call[t].version)
       /\ Audited("deployment", r)
       /\ IF call[t].op = "ActivateDeploymentJob" /\ call[t].next = "activating"
          THEN call' = [call EXCEPT ![t] =
                   [op |-> "ActivateDeploymentJob", reservation |-> r,
                    next |-> "running", version |-> call[t].version + 1]]
          ELSE Done(t)
  /\ UNCHANGED <<site, scenario, reservation, review, job, due>>

\* Mutant: the reservation ends but its units stay taken.
CommitStopDeploymentKeepingUnits(t) ==
  /\ call[t].op = "StopDeploymentAndRelease"
  /\ LET r == call[t].reservation IN
       /\ UpdateDeployment(r, "stopped", call[t].version)
       /\ reservation[r].version = call[t].reservationVersion
       /\ reservation[r].status = "confirmed"
       /\ MoveReservation(r, "released")
       /\ Audited("deployment", r)
  /\ Done(t)
  /\ UNCHANGED <<site, scenario, review, job, due>>

\* StopDeploymentAndRelease: three rows change in one transaction, and the
\* one audit event is about the deployment.
CommitStopDeployment(t) ==
  /\ call[t].op = "StopDeploymentAndRelease"
  /\ LET r == call[t].reservation IN
       /\ UpdateDeployment(r, "stopped", call[t].version)
       /\ reservation[r].version = call[t].reservationVersion
       /\ reservation[r].status = "confirmed"
       /\ MoveReservation(r, "released")
       /\ ReturnUnits(r)
       /\ Audited("deployment", r)
  /\ Done(t)
  /\ UNCHANGED <<scenario, review, job, due>>

-----------------------------------------------------------------------------

\* The thread's transaction rolls back, its context is cancelled, or its
\* process dies before the commit.
Abandon(t) ==
  /\ call[t] # Idle
  /\ Done(t)
  /\ UNCHANGED <<tables, due>>

ReadStep(t) ==
  \/ \E s \in Sites :
       \/ \E decision \in Decisions : ReadReviewSite(t, s, decision)
       \/ \E next \in SiteStatus : ReadTransitionSite(t, s, next)
       \/ \E c \in Scenarios : ReadReserveCapacity(t, c, s)
  \/ \E c \in Scenarios :
       \/ ReadStartScenarioReview(t, c)
       \/ \E decision \in Decisions : ReadDecideScenario(t, c, decision)
  \/ \E r \in Reservations :
       \/ ReadReleaseReservation(t, r)
       \/ ReadExpireReservation(t, r)
       \/ ReadCreateDeployment(t, r)
       \/ \E next \in DeploymentStatus : ReadAdvanceDeployment(t, r, next)
       \/ ReadActivateDeploymentJob(t, r)
       \/ ReadStopDeployment(t, r)

CommitStep(t) ==
  \/ CommitReviewSite(t)
  \/ CommitTransitionSite(t)
  \/ CommitStartScenarioReview(t)
  \/ CommitDecideScenario(t)
  \/ \E r \in Reservations : CommitReserveCapacity(t, r)
  \/ CommitReturn(t)
  \/ CommitCreateDeployment(t)
  \/ CommitAdvance(t)
  \/ CommitStopDeployment(t)

Next ==
  \/ \E s \in Sites : CreateSite(s)
  \/ \E c \in Scenarios : SubmitScenario(c)
  \/ \E r \in Reservations : ReachExpiry(r)
  \/ \E t \in Threads : ReadStep(t) \/ CommitStep(t) \/ Abandon(t)

Spec == Init /\ [][Next]_vars

-----------------------------------------------------------------------------
(* Properties *)

\* Every row is absent or has a status and a version of its kind, and every
\* thread is idle or carries a well-formed commit of one operation.
TypeOK ==
  /\ site        \in [Sites -> {Absent} \cup SiteRow]
  /\ scenario    \in [Scenarios -> {Absent} \cup ScenarioRow]
  /\ reservation \in [Reservations -> {Absent} \cup ReservationRow]
  /\ deployment  \in [Reservations -> {Absent} \cup DeploymentRow]
  /\ review \in [Verdicts -> Nat]
  /\ job \subseteq {"expire_reservation", "activate_deployment"} \X Reservations
  /\ audit \in [Objects -> Nat]
  /\ due \subseteq Reservations
  /\ call \in [Threads -> {Idle} \cup Call]

\* FOREIGN KEY: the site of a reservation exists.
ReservedSiteExists ==
  \A r \in Reservations :
    reservation[r] # Absent => site[reservation[r].site] # Absent

\* The tables seen as a ledger: available_units are the free units, and a
\* reservation that holds capacity is a live hold.
FreeUnits == [s \in Sites |-> IF site[s] = Absent THEN Total[s] ELSE site[s].available]

HoldOf ==
  [r \in Reservations |->
     IF reservation[r] = Absent THEN [state |-> "unused"]
     ELSE [state |-> IF HoldsCapacity(reservation[r].status) THEN "live" ELSE "returned",
           site  |-> reservation[r].site,
           units |-> UnitsOf(r)]]

Ledger == INSTANCE CapacityLedger WITH
  Holds <- Reservations, free <- FreeUnits, hold <- HoldOf

\* Whatever reservations, releases, expiries and stops race, each of their
\* commits moves units between free and one hold as the ledger allows.
ImplementsLedger == Ledger!Spec

\* No oversell and no leak: the available_units of a site and the units of
\* the reservations that hold capacity on it add up to total_units.
CapacityConserved == Ledger!Conserved

\* The UPDATE that returns units never runs into its total_units guard, so a
\* reservation that holds capacity can always be released or expired.
ReturnAlwaysFits ==
  \A r \in Reservations :
    HoldsCapacity(reservation[r].status) =>
      site[reservation[r].site].available + UnitsOf(r) <= Total[reservation[r].site]

\* A commit prepared from a stale read cannot take effect: when the version a
\* thread read is still the row's version, the status it is about to write is
\* still a legal next status of that row.
PreparedMovesAreLegal ==
  \A t \in Threads : LET q == call[t] IN
    /\ q \in SiteCall /\ site[q.site].version = q.version
         => SiteCanMove(site[q.site].status, q.next)
    /\ q \in ScenarioCall /\ scenario[q.scenario].version = q.version
         => ScenarioCanMove(scenario[q.scenario].status, q.next)
    /\ q \in ReturnCall /\ reservation[q.reservation].version = q.version
         => ReservationCanMove(reservation[q.reservation].status, q.next)
    /\ q \in AdvanceCall /\ deployment[q.reservation].version = q.version
         => DeploymentCanMove(deployment[q.reservation].status, q.next)
    /\ q \in StopCall /\ deployment[q.reservation].version = q.version
         => deployment[q.reservation].status = "stopping"

\* Every row follows its lifecycle one move at a time and each move raises
\* its version by one, although only the version is compared in the UPDATEs.
FollowsLifecycle(row, rowNext, CanMove(_, _)) ==
  row # Absent /\ row.status # rowNext.status =>
    CanMove(row.status, rowNext.status) /\ rowNext.version = row.version + 1

LifecyclesFollowed ==
  [][/\ \A s \in Sites : FollowsLifecycle(site[s], site'[s], SiteCanMove)
     /\ \A c \in Scenarios :
          FollowsLifecycle(scenario[c], scenario'[c], ScenarioCanMove)
     /\ \A r \in Reservations :
          /\ FollowsLifecycle(reservation[r], reservation'[r], ReservationCanMove)
          /\ FollowsLifecycle(deployment[r], deployment'[r], DeploymentCanMove)]_vars

\* A reservation is only ever held against a scenario that passed review.
ReservedAfterApproval ==
  \A r \in Reservations :
    reservation[r] # Absent => scenario[reservation[r].scenario].status = "approved"

\* No capacity is taken on a site that was suspended while the request that
\* takes it was on its way from its reads to its commit.
ReservedOnActiveSite ==
  [][\A r \in Reservations :
       reservation[r] = Absent /\ reservation'[r] # Absent =>
         site[reservation'[r].site].status = "active"]_vars

\* Transactional outbox: exactly the rows that exist have their job.
OutboxComplete ==
  job = ({"expire_reservation"} \X {r \in Reservations : reservation[r] # Absent})
          \cup ({"activate_deployment"} \X {r \in Reservations : deployment[r] # Absent})

ReservationsOn(s) ==
  {r \in Reservations : reservation[r] # Absent /\ reservation[r].site = s}

\* No change of a row is lost, and none goes without its audit event: the
\* version of a row counts its audited changes and, for a site, the reservations
\* made on it and those that gave units back. The release that ends a stop is
\* covered by the deployment's event.
ChangesAudited ==
  /\ \A s \in Sites : site[s] # Absent =>
       site[s].version = 1 + audit[<<"site", s>>] + Cardinality(ReservationsOn(s))
         + Cardinality({r \in ReservationsOn(s) : ~HoldsCapacity(reservation[r].status)})
  /\ \A c \in Scenarios : scenario[c] # Absent =>
       audit[<<"scenario", c>>] = scenario[c].version - 1
  /\ \A r \in Reservations :
       /\ audit[<<"deployment", r>>] = deployment[r].version
       /\ \/ audit[<<"reservation", r>>] = reservation[r].version
          \/ /\ audit[<<"reservation", r>>] = reservation[r].version - 1
             /\ reservation[r].status = "released"
             /\ deployment[r].status = "stopped"

ScenariosDecided ==
  \A c \in Scenarios, decision \in Decisions :
    review[<<"scenario", c, decision>>] = IF scenario[c].status = decision THEN 1 ELSE 0

SiteReviews(s) == review[<<"site", s, "approved">>] + review[<<"site", s, "rejected">>]

SitesReviewedOnce ==
  \A s \in Sites :
    SiteReviews(s) <= IF site[s].status \in {"absent", "draft"} THEN 0 ELSE 1

\* Whatever reviewers race, a decided scenario has exactly one review on record,
\* the one that decided, and any other none; a site is reviewed at most once,
\* and not while it is a draft.
DecisionsRecorded == ScenariosDecided /\ SitesReviewedOnce

\* README.md:7 "Operators register and verify compute sites, then activate
\* capacity": a site takes workloads only once a review approved it.
ActiveSitesVerified ==
  \A s \in Sites : site[s].status = "active" => review[<<"site", s, "approved">>] > 0

\* internal/domain/deployment_test.go:19 TestNewDeploymentRequiresDeployable-
\* Reservation: a deployment is created only for a reservation that holds its
\* capacity when the deployment comes into being.
DeployedOnLiveReservation ==
  [][\A r \in Reservations :
       deployment[r] = Absent /\ deployment'[r] # Absent =>
         reservation[r].status = "confirmed"]_vars
=============================================================================
