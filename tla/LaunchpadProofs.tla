-------------------------- MODULE LaunchpadProofs --------------------------
(***************************************************************************)
(* What Launchpad guarantees for every set of threads, sites, scenarios    *)
(* and reservations, every total and every requested size.                 *)
(*                                                                         *)
(*   Types      every row, call and job is well formed                     *)
(*   Locking    what the version in a WHERE clause is good for: a commit   *)
(*              compares versions only, yet no row leaves its lifecycle    *)
(*   Capacity   the transactions implement CapacityLedger, so nothing      *)
(*              oversells a site or loses a unit                           *)
(*   Records    jobs, reviews and audit events agree with the rows they    *)
(*              are about                                                  *)
(*                                                                         *)
(* Each part rests on the ones before it: Typed, then Locked, are the      *)
(* inductive invariants that the others start from.                        *)
(***************************************************************************)
EXTENDS Launchpad, FiniteSetTheorems, TLAPS

\* What is proved of a ledger, read of the reservations and the free units.
LedgerFacts == INSTANCE CapacityLedgerProofs WITH
  Holds <- Reservations, free <- FreeUnits, hold <- HoldOf

-----------------------------------------------------------------------------
(* Types *)

\* Empty tables and idle threads are well formed.
LEMMA InitTyped == Init => TypeOK
BY DEF Init, TypeOK, Absent, Idle, Objects

\* A thread that proceeds with a well-formed call changes nothing else.
LEMMA ProceedTyped ==
  ASSUME TypeOK, NEW t \in Threads, NEW q \in Call, Proceed(t, q)
  PROVE  TypeOK'
BY DEF TypeOK, Proceed, tables

\* The rows that a lifecycle predicate accepts exist.
LEMMA MovableRows ==
  ASSUME TypeOK
  PROVE  /\ \A s \in Sites, next \in SiteStatus :
              SiteCanMove(site[s].status, next) => site[s] \in SiteRow
         /\ \A c \in Scenarios, next \in ScenarioStatus :
              ScenarioCanMove(scenario[c].status, next) => scenario[c] \in ScenarioRow
         /\ \A r \in Reservations, next \in ReservationStatus :
              ReservationCanMove(reservation[r].status, next)
                => reservation[r] \in ReservationRow
         /\ \A r \in Reservations, next \in DeploymentStatus :
              DeploymentCanMove(deployment[r].status, next)
                => deployment[r] \in DeploymentRow
<1>1. \A s \in Sites, next \in SiteStatus :
        SiteCanMove(site[s].status, next) => site[s] \in SiteRow
  BY DEF TypeOK, Absent, SiteCanMove
<1>2. \A c \in Scenarios, next \in ScenarioStatus :
        ScenarioCanMove(scenario[c].status, next) => scenario[c] \in ScenarioRow
  BY DEF TypeOK, Absent, ScenarioCanMove
<1>3. \A r \in Reservations, next \in ReservationStatus :
        ReservationCanMove(reservation[r].status, next)
          => reservation[r] \in ReservationRow
  BY DEF TypeOK, Absent, ReservationCanMove
<1>4. \A r \in Reservations, next \in DeploymentStatus :
        DeploymentCanMove(deployment[r].status, next)
          => deployment[r] \in DeploymentRow
  BY DEF TypeOK, Absent, DeploymentCanMove
<1>5. QED
  BY <1>1, <1>2, <1>3, <1>4

\* Reads and abandoned commits change nothing but what the thread carries.
LEMMA ReadStepTyped ==
  ASSUME TypeOK, NEW t \in Threads, ReadStep(t)
  PROVE  TypeOK' /\ UNCHANGED <<tables, due>>
<1>1. \E q \in Call : Proceed(t, q)
  <2>1. ASSUME NEW s \in Sites, NEW decision \in Decisions,
               ReadReviewSite(t, s, decision)
        PROVE  \E q \in SiteCall : Proceed(t, q)
    <3>1. ReviewOutcome(decision) \in SiteStatus
      BY DEF ReviewOutcome, SiteStatus
    <3>2. site[s].version \in Version
      BY <2>1, <3>1, MovableRows DEF ReadReviewSite, SiteRow
    <3>3. QED
      BY <2>1, <3>1, <3>2 DEF ReadReviewSite, SiteCall
  <2>2. ASSUME NEW s \in Sites, NEW next \in SiteStatus, ReadTransitionSite(t, s, next)
        PROVE  \E q \in SiteCall : Proceed(t, q)
    <3>1. site[s].version \in Version
      BY <2>2, MovableRows DEF ReadTransitionSite, SiteRow
    <3>2. QED
      BY <2>2, <3>1 DEF ReadTransitionSite, SiteCall
  <2>3. ASSUME NEW s \in Sites, NEW c \in Scenarios, ReadReserveCapacity(t, c, s)
        PROVE  \E q \in ReserveCall : Proceed(t, q)
    BY <2>3 DEF ReadReserveCapacity, ReserveCall
  <2>4. ASSUME NEW c \in Scenarios, NEW next \in ScenarioStatus, NEW op,
               \/ op = "StartScenarioReview" /\ next = "reviewing"
               \/ op = "DecideScenario" /\ next \in Decisions,
               ReadScenarioReview(t, c, op, next)
        PROVE  \E q \in ScenarioCall : Proceed(t, q)
    <3>1. scenario[c].version \in Version
      BY <2>4, MovableRows DEF ReadScenarioReview, ScenarioRow
    <3>2. QED
      BY <2>4, <3>1 DEF ReadScenarioReview, ScenarioCall
  <2>5. ASSUME NEW r \in Reservations,
               ReadReleaseReservation(t, r) \/ ReadExpireReservation(t, r)
        PROVE  \E q \in ReturnCall : Proceed(t, q)
    <3>1. reservation[r].version \in Version
      BY <2>5, MovableRows
      DEF ReadReleaseReservation, ReadExpireReservation, ReservationRow, ReservationStatus
    <3>2. QED
      BY <2>5, <3>1 DEF ReadReleaseReservation, ReadExpireReservation, ReturnCall
  <2>6. ASSUME NEW r \in Reservations, ReadCreateDeployment(t, r)
        PROVE  \E q \in DeployCall : Proceed(t, q)
    BY <2>6 DEF ReadCreateDeployment, DeployCall
  <2>7. ASSUME NEW r \in Reservations, NEW next \in DeploymentStatus,
               ReadAdvanceDeployment(t, r, next)
        PROVE  \E q \in AdvanceCall : Proceed(t, q)
    <3>1. deployment[r].version \in Version
      BY <2>7, MovableRows DEF ReadAdvanceDeployment, DeploymentRow
    <3>2. QED
      BY <2>7, <3>1 DEF ReadAdvanceDeployment, Advance, AdvanceCall
  <2>8. ASSUME NEW r \in Reservations, ReadActivateDeploymentJob(t, r)
        PROVE  \E q \in AdvanceCall : Proceed(t, q)
    <3>1. deployment[r].version \in Version
      BY <2>8 DEF ReadActivateDeploymentJob, TypeOK, Absent, DeploymentRow
    <3>2. QED
      BY <2>8, <3>1 DEF ReadActivateDeploymentJob, Advance, AdvanceCall, DeploymentStatus
  <2>9. ASSUME NEW r \in Reservations, ReadStopDeployment(t, r)
        PROVE  \E q \in AdvanceCall \cup StopCall : Proceed(t, q)
    <3>1. deployment[r].version \in Version
      BY <2>9 DEF ReadStopDeployment, TypeOK, Absent, DeploymentRow
    <3>2. CASE deployment[r].status = "running"
      BY <2>9, <3>1, <3>2 DEF ReadStopDeployment, Advance, AdvanceCall, DeploymentStatus
    <3>3. CASE deployment[r].status = "stopping"
      <4>1. reservation[r].version \in Version
        BY <2>9, <3>3, MovableRows DEF ReadStopDeployment, ReservationRow, ReservationStatus
      <4>2. QED
        BY <2>9, <3>1, <3>3, <4>1 DEF ReadStopDeployment, StopCall
    <3>4. QED
      BY <2>9, <3>2, <3>3 DEF ReadStopDeployment
  <2>10. QED
    BY <2>1, <2>2, <2>3, <2>4, <2>5, <2>6, <2>7, <2>8, <2>9
    DEF ReadStep, ReadStartScenarioReview, ReadDecideScenario, ScenarioStatus, Decisions, Call
<1>2. QED
  BY <1>1, ProceedTyped DEF Proceed

\* The operation a thread is about to commit gives the call its shape.
LEMMA CallShapes ==
  ASSUME TypeOK, NEW t \in Threads
  PROVE  /\ call[t].op \in {"ReviewSite", "TransitionSite"} => call[t] \in SiteCall
         /\ call[t].op \in {"StartScenarioReview", "DecideScenario"}
              => call[t] \in ScenarioCall
         /\ call[t].op = "ReserveCapacity" => call[t] \in ReserveCall
         /\ call[t].op \in {"ReleaseReservation", "ExpireReservation"}
              => call[t] \in ReturnCall
         /\ call[t].op = "CreateDeployment" => call[t] \in DeployCall
         /\ call[t].op \in {"AdvanceDeployment", "ActivateDeploymentJob", "StopDeployment"}
              => call[t] \in AdvanceCall
         /\ call[t].op = "StopDeploymentAndRelease" => call[t] \in StopCall
BY DEF TypeOK, Idle, Call, SiteCall, ScenarioCall, ReserveCall, ReturnCall,
       DeployCall, AdvanceCall, StopCall

\* Typed: the part of the invariant that keeps every row well formed.
Typed == TypeOK /\ ReservedSiteExists

\* One more audit event about a known object keeps the audit counters typed.
LEMMA AuditedTyped ==
  ASSUME TypeOK, NEW kind, NEW id, <<kind, id>> \in Objects, Audited(kind, id)
  PROVE  audit' \in [Objects -> Nat]
BY DEF TypeOK, Audited

\* One more review of a known object keeps their count typed.
LEMMA ReviewedTyped ==
  ASSUME TypeOK, NEW kind, NEW id, NEW decision, <<kind, id, decision>> \in Verdicts,
         Reviewed(kind, id, decision)
  PROVE  review' \in [Verdicts -> Nat]
BY DEF TypeOK, Reviewed

\* A thread that is done is idle again.
LEMMA DoneTyped ==
  ASSUME TypeOK, NEW t \in Threads, Done(t)
  PROVE  call' \in [Threads -> {Idle} \cup Call]
BY DEF TypeOK, Done

\* Reviewing or moving a site keeps its row well formed.
LEMMA SiteCommitTyped ==
  ASSUME Typed, NEW t \in Threads, CommitReviewSite(t) \/ CommitTransitionSite(t)
  PROVE  Typed'
<1> PICK s \in Sites, next \in SiteStatus, version \in Version :
      s = call[t].site /\ next = call[t].next /\ version = call[t].version
  BY CallShapes DEF CommitReviewSite, CommitTransitionSite, SiteCall, Typed
<1>1. site[s].version = version /\ site[s] \in SiteRow
  BY DEF CommitReviewSite, CommitTransitionSite, SiteUnmoved, Typed, TypeOK, Absent, Version
<1>2. site' = [site EXCEPT ![s].status = next, ![s].version = @ + 1]
  BY DEF CommitReviewSite, CommitTransitionSite, MoveSite
<1>3. site' \in [Sites -> {Absent} \cup SiteRow] /\ site'[s] # Absent
  BY <1>1, <1>2 DEF Typed, TypeOK, SiteRow, Version, Absent
<1>4. \A z \in Sites : site[z] # Absent => site'[z] # Absent
  BY <1>2, <1>3 DEF Typed, TypeOK
<1>5. review' \in [Verdicts -> Nat]
  BY ReviewedTyped DEF CommitReviewSite, CommitTransitionSite, Verdicts, Decisions, Typed, TypeOK
<1>6. audit' \in [Objects -> Nat] /\ call' \in [Threads -> {Idle} \cup Call]
  BY AuditedTyped, DoneTyped
  DEF CommitReviewSite, CommitTransitionSite, Typed, Objects
<1>7. UNCHANGED <<scenario, reservation, deployment, job, due>>
  BY DEF CommitReviewSite, CommitTransitionSite
<1>8. TypeOK'
  BY <1>3, <1>5, <1>6, <1>7 DEF Typed, TypeOK
<1>9. ReservedSiteExists'
  BY <1>4, <1>7 DEF Typed, TypeOK, ReservedSiteExists, ReservationRow, Absent
<1>10. QED
  BY <1>8, <1>9 DEF Typed

\* Reviewing or deciding a scenario keeps its row well formed.
LEMMA ScenarioCommitTyped ==
  ASSUME Typed, NEW t \in Threads,
         CommitStartScenarioReview(t) \/ CommitDecideScenario(t)
  PROVE  Typed'
<1> PICK c \in Scenarios, next \in ScenarioStatus, version \in Version :
      /\ c = call[t].scenario /\ next = call[t].next /\ version = call[t].version
      /\ call[t].op = "DecideScenario" => next \in Decisions
  BY CallShapes
  DEF CommitStartScenarioReview, CommitDecideScenario, ScenarioCall, ScenarioStatus, Decisions, Typed
<1>1. UpdateScenario(c, next, version)
  BY DEF CommitStartScenarioReview, CommitDecideScenario
<1>2. scenario[c] \in ScenarioRow
  BY <1>1 DEF UpdateScenario, Typed, TypeOK, Absent, Version
<1>3. scenario' \in [Scenarios -> {Absent} \cup ScenarioRow]
  BY <1>1, <1>2 DEF UpdateScenario, Typed, TypeOK, ScenarioRow, Version
<1>4. review' \in [Verdicts -> Nat]
  <2>1. CASE CommitStartScenarioReview(t)
    BY <2>1 DEF CommitStartScenarioReview, Typed, TypeOK
  <2>2. CASE CommitDecideScenario(t)
    BY <2>2, ReviewedTyped DEF CommitDecideScenario, Verdicts, Typed, TypeOK
  <2>3. QED
    BY <2>1, <2>2
<1>5. audit' \in [Objects -> Nat] /\ call' \in [Threads -> {Idle} \cup Call]
  BY AuditedTyped, DoneTyped
  DEF CommitStartScenarioReview, CommitDecideScenario, Typed, Objects
<1>6. UNCHANGED <<site, reservation, deployment, job, due>>
  BY DEF CommitStartScenarioReview, CommitDecideScenario
<1>7. QED
  BY <1>3, <1>4, <1>5, <1>6 DEF Typed, TypeOK, ReservedSiteExists

\* A reservation is inserted well formed, on a site that exists and keeps at
\* least zero units.
LEMMA ReserveCommitTyped ==
  ASSUME Typed, NEW t \in Threads, NEW r \in Reservations, CommitReserveCapacity(t, r)
  PROVE  Typed'
<1> PICK s \in Sites, c \in Scenarios : s = call[t].site /\ c = call[t].scenario
  BY CallShapes DEF CommitReserveCapacity, ReserveCall, Typed
<1>1. /\ Claimable(s, Units[c])
      /\ ClaimUnits(s, Units[c])
      /\ reservation' = [reservation EXCEPT
           ![r] = [status |-> "confirmed", version |-> 1, site |-> s, scenario |-> c]]
  BY DEF CommitReserveCapacity
<1>2. site[s] \in SiteRow /\ Units[c] \in Nat
  BY <1>1, LaunchpadAssumption DEF Claimable, Typed, TypeOK, Absent
<1>3. site[s].available - Units[c] \in Nat
  BY <1>1, <1>2 DEF Claimable, SiteRow
<1>4. site' \in [Sites -> {Absent} \cup SiteRow] /\ site'[s] # Absent
  BY <1>1, <1>2, <1>3 DEF ClaimUnits, Typed, TypeOK, SiteRow, Version, Absent
<1>5. reservation' \in [Reservations -> {Absent} \cup ReservationRow]
  BY <1>1 DEF Typed, TypeOK, ReservationRow, ReservationStatus, Version
<1>6. job' \subseteq {"expire_reservation", "activate_deployment"} \X Reservations
  BY DEF CommitReserveCapacity, Typed, TypeOK
<1>7. audit' \in [Objects -> Nat] /\ call' \in [Threads -> {Idle} \cup Call]
  BY AuditedTyped, DoneTyped DEF CommitReserveCapacity, Typed, Objects
<1>8. UNCHANGED <<scenario, deployment, review, due>>
  BY DEF CommitReserveCapacity
<1>9. TypeOK'
  BY <1>4, <1>5, <1>6, <1>7, <1>8 DEF Typed, TypeOK
<1>10. \A z \in Sites : site[z] # Absent => site'[z] # Absent
  BY <1>1, <1>4 DEF ClaimUnits, Typed, TypeOK
<1>11. ASSUME NEW x \in Reservations, reservation'[x] # Absent
       PROVE  site'[reservation'[x].site] # Absent
  <2>1. CASE x = r
    BY <2>1, <1>1, <1>4 DEF Typed, TypeOK
  <2>2. CASE x # r
    BY <2>2, <1>1, <1>10, <1>11
    DEF Typed, TypeOK, ReservedSiteExists, ReservationRow
  <2>3. QED
    BY <2>1, <2>2
<1>12. QED
  BY <1>9, <1>11 DEF Typed, ReservedSiteExists

\* Ending a reservation keeps its row and the row of its site well formed.
LEMMA ReturnTyped ==
  ASSUME Typed, NEW r \in Reservations, reservation[r] # Absent,
         NEW next \in {"released", "expired"}, MoveReservation(r, next), ReturnUnits(r)
  PROVE  /\ site' \in [Sites -> {Absent} \cup SiteRow]
         /\ reservation' \in [Reservations -> {Absent} \cup ReservationRow]
         /\ ReservedSiteExists'
<1>1. reservation[r] \in ReservationRow
  BY DEF Typed, TypeOK
<1> PICK s \in Sites, u \in Nat :
      s = reservation[r].site /\ u = UnitsOf(r) /\ site[s] \in SiteRow
  BY <1>1, LaunchpadAssumption
  DEF Typed, TypeOK, ReservedSiteExists, ReservationRow, UnitsOf
<1>2. site' = [site EXCEPT ![s].available = @ + u, ![s].version = @ + 1]
  BY DEF ReturnUnits
<1>3. site' \in [Sites -> {Absent} \cup SiteRow] /\ site'[s] # Absent
  BY <1>2 DEF Typed, TypeOK, SiteRow, Version, Absent
<1>4. reservation' = [reservation EXCEPT ![r].status = next, ![r].version = @ + 1]
  BY DEF MoveReservation
<1>5. reservation' \in [Reservations -> {Absent} \cup ReservationRow]
  BY <1>1, <1>4 DEF Typed, TypeOK, ReservationRow, ReservationStatus, Version
<1>6. \A z \in Sites : site[z] # Absent => site'[z] # Absent
  BY <1>2, <1>3 DEF Typed, TypeOK
<1>7. \A x \in Reservations : reservation'[x] # Absent =>
        reservation[x] \in ReservationRow /\ reservation'[x].site = reservation[x].site
  BY <1>1, <1>4 DEF Typed, TypeOK, ReservationRow
<1>8. ReservedSiteExists'
  BY <1>6, <1>7 DEF Typed, ReservedSiteExists, ReservationRow, Absent
<1>9. QED
  BY <1>3, <1>5, <1>8

\* Releasing and expiring keep every row well formed.
LEMMA ReturnCommitTyped ==
  ASSUME Typed, NEW t \in Threads, CommitReturn(t)
  PROVE  Typed'
<1> PICK r \in Reservations, next \in {"released", "expired"}, version \in Version :
      r = call[t].reservation /\ next = call[t].next /\ version = call[t].version
  BY CallShapes DEF CommitReturn, ReturnCall, Typed
<1>1. reservation[r] # Absent /\ MoveReservation(r, next) /\ ReturnUnits(r)
  BY DEF CommitReturn, Returnable, Version, Absent
<1>2. audit' \in [Objects -> Nat] /\ call' \in [Threads -> {Idle} \cup Call]
  BY AuditedTyped, DoneTyped DEF CommitReturn, Typed, Objects
<1>3. UNCHANGED <<scenario, deployment, review, job, due>>
  BY DEF CommitReturn
<1>4. QED
  BY <1>1, <1>2, <1>3, ReturnTyped DEF Typed, TypeOK

\* A deployment is inserted well formed.
LEMMA DeployCommitTyped ==
  ASSUME Typed, NEW t \in Threads, CommitCreateDeployment(t)
  PROVE  Typed'
<1> PICK r \in Reservations : r = call[t].reservation
  BY CallShapes DEF CommitCreateDeployment, DeployCall, Typed
<1>1. deployment' \in [Reservations -> {Absent} \cup DeploymentRow]
  BY DEF CommitCreateDeployment, Typed, TypeOK, DeploymentRow, DeploymentStatus, Version
<1>2. job' \subseteq {"expire_reservation", "activate_deployment"} \X Reservations
  BY DEF CommitCreateDeployment, Typed, TypeOK
<1>3. audit' \in [Objects -> Nat] /\ call' \in [Threads -> {Idle} \cup Call]
  BY AuditedTyped, DoneTyped DEF CommitCreateDeployment, Typed, Objects
<1>4. UNCHANGED <<site, scenario, reservation, review, due>>
  BY DEF CommitCreateDeployment
<1>5. QED
  BY <1>1, <1>2, <1>3, <1>4 DEF Typed, TypeOK, ReservedSiteExists

\* Moving a deployment to a status keeps its row well formed.
LEMMA UpdateDeploymentTyped ==
  ASSUME Typed, NEW r \in Reservations, NEW next \in DeploymentStatus,
         NEW version \in Version, UpdateDeployment(r, next, version)
  PROVE  deployment' \in [Reservations -> {Absent} \cup DeploymentRow]
<1>1. deployment[r] \in DeploymentRow
  BY DEF UpdateDeployment, Typed, TypeOK, Absent, Version
<1>2. QED
  BY <1>1 DEF UpdateDeployment, Typed, TypeOK, DeploymentRow, Version

\* Advancing a deployment keeps its row well formed, and the call the job
\* goes on with is again a call.
LEMMA AdvanceCommitTyped ==
  ASSUME Typed, NEW t \in Threads, CommitAdvance(t)
  PROVE  Typed'
<1>1. call[t] \in AdvanceCall
  BY CallShapes DEF CommitAdvance, Typed
<1> PICK r \in Reservations, next \in DeploymentStatus, version \in Version :
      r = call[t].reservation /\ next = call[t].next /\ version = call[t].version
  BY <1>1 DEF AdvanceCall
<1>2. UpdateDeployment(r, next, version) /\ Audited("deployment", r)
  BY DEF CommitAdvance
<1>3. call' \in [Threads -> {Idle} \cup Call]
  <2>1. CASE Done(t)
    BY <2>1, DoneTyped DEF Typed
  <2> DEFINE q == [op |-> "ActivateDeploymentJob", reservation |-> r,
                   next |-> "running", version |-> version + 1]
  <2>2. CASE call' = [call EXCEPT ![t] = q]
    <3>1. q \in Call
      BY DEF Call, AdvanceCall, DeploymentStatus, Version
    <3> HIDE DEF q
    <3>2. QED
      BY <2>2, <3>1 DEF Typed, TypeOK
  <2>3. QED
    BY <2>1, <2>2 DEF CommitAdvance
<1>4. audit' \in [Objects -> Nat]
  BY <1>2, AuditedTyped DEF Typed, Objects
<1>5. UNCHANGED <<site, scenario, reservation, review, job, due>>
  BY DEF CommitAdvance
<1>6. QED
  BY <1>2, <1>3, <1>4, <1>5, UpdateDeploymentTyped
  DEF Typed, TypeOK, ReservedSiteExists

\* Stopping a deployment and releasing its reservation keep every row well
\* formed.
LEMMA StopCommitTyped ==
  ASSUME Typed, NEW t \in Threads, CommitStopDeployment(t)
  PROVE  Typed'
<1> PICK r \in Reservations, version \in Version :
      r = call[t].reservation /\ version = call[t].version
  BY CallShapes DEF CommitStopDeployment, StopCall, Typed
<1>1. /\ UpdateDeployment(r, "stopped", version)
      /\ reservation[r] # Absent /\ MoveReservation(r, "released") /\ ReturnUnits(r)
  BY DEF CommitStopDeployment, Absent
<1>2. deployment' \in [Reservations -> {Absent} \cup DeploymentRow]
  BY <1>1, UpdateDeploymentTyped DEF DeploymentStatus
<1>3. audit' \in [Objects -> Nat] /\ call' \in [Threads -> {Idle} \cup Call]
  BY AuditedTyped, DoneTyped DEF CommitStopDeployment, Typed, Objects
<1>4. UNCHANGED <<scenario, review, job, due>>
  BY DEF CommitStopDeployment
<1>5. QED
  BY <1>1, <1>2, <1>3, <1>4, ReturnTyped DEF Typed, TypeOK

\* Typed is inductive.
LEMMA NextTyped == Typed /\ [Next]_vars => Typed'
<1> SUFFICES ASSUME Typed, [Next]_vars PROVE Typed'
  OBVIOUS
<1>1. ASSUME NEW s \in Sites, CreateSite(s)
      PROVE  Typed'
  <2> DEFINE row == [status |-> "draft", version |-> 1, available |-> Total[s]]
  <2>a. row \in SiteRow
    BY LaunchpadAssumption DEF SiteRow, SiteStatus, Version
  <2>b. row # Absent
    BY DEF Absent
  <2>c. site' = [site EXCEPT ![s] = row]
    BY <1>1 DEF CreateSite
  <2> HIDE DEF row
  <2>1. site' \in [Sites -> {Absent} \cup SiteRow] /\ site'[s] # Absent
    BY <2>a, <2>b, <2>c DEF Typed, TypeOK
  <2>2. \A z \in Sites : site[z] # Absent => site'[z] # Absent
    BY <1>1, <2>1 DEF CreateSite, Typed, TypeOK
  <2>3. UNCHANGED <<scenario, reservation, deployment, review, job, audit, due, call>>
    BY <1>1 DEF CreateSite
  <2>4. TypeOK'
    BY <2>1, <2>3 DEF Typed, TypeOK
  <2>5. ReservedSiteExists'
    BY <2>2, <2>3 DEF Typed, TypeOK, ReservedSiteExists, ReservationRow
  <2>6. QED
    BY <2>4, <2>5 DEF Typed
<1>2. ASSUME NEW c \in Scenarios, SubmitScenario(c)
      PROVE  Typed'
  BY <1>2 DEF SubmitScenario, Typed, TypeOK, ScenarioRow, ScenarioStatus, Version,
              ReservedSiteExists
<1>3. ASSUME NEW r \in Reservations, ReachExpiry(r)
      PROVE  Typed'
  BY <1>3 DEF ReachExpiry, tables, Typed, TypeOK, ReservedSiteExists
<1>4. ASSUME NEW t \in Threads, ReadStep(t)
      PROVE  Typed'
  BY <1>4, ReadStepTyped DEF Typed, ReservedSiteExists, tables
<1>5. ASSUME NEW t \in Threads, CommitStep(t)
      PROVE  Typed'
  BY <1>5, SiteCommitTyped, ScenarioCommitTyped, ReserveCommitTyped, ReturnCommitTyped,
     DeployCommitTyped, AdvanceCommitTyped, StopCommitTyped DEF CommitStep
<1>6. ASSUME NEW t \in Threads, Abandon(t)
      PROVE  Typed'
  BY <1>6, DoneTyped DEF Abandon, tables, Typed, TypeOK, ReservedSiteExists
<1>7. CASE UNCHANGED vars
  BY <1>7 DEF vars, tables, Typed, TypeOK, ReservedSiteExists
<1>8. QED
  BY <1>1, <1>2, <1>3, <1>4, <1>5, <1>6, <1>7 DEF Next

\* Rows, calls and references are well formed in every reachable state.
THEOREM Typing == Spec => []Typed
<1>1. Init => Typed
  BY InitTyped DEF Init, Typed, ReservedSiteExists
<1>2. QED
  BY <1>1, NextTyped, PTL DEF Spec

\* Every row, call and reference of a reachable state has its type.
THEOREM TypeCorrect == Spec => []TypeOK
BY Typing, PTL DEF Typed

-----------------------------------------------------------------------------
(* Locking *)

\* A row is left alone or its version grows, so a version that was passed
\* never comes back.
VersionGrows(row, rowNext) == rowNext = row \/ rowNext.version > row.version

\* No step gives a row another content under a version it had before: a row
\* that changes gets a higher version.
LEMMA VersionsGrow ==
  ASSUME Typed, [Next]_vars
  PROVE  /\ \A s \in Sites : VersionGrows(site[s], site'[s])
         /\ \A c \in Scenarios : VersionGrows(scenario[c], scenario'[c])
         /\ \A r \in Reservations : /\ VersionGrows(reservation[r], reservation'[r])
                                    /\ VersionGrows(deployment[r], deployment'[r])
<1> DEFINE Goal ==
      /\ \A s \in Sites : VersionGrows(site[s], site'[s])
      /\ \A c \in Scenarios : VersionGrows(scenario[c], scenario'[c])
      /\ \A r \in Reservations : /\ VersionGrows(reservation[r], reservation'[r])
                                 /\ VersionGrows(deployment[r], deployment'[r])
<1>1. ASSUME NEW s \in Sites, CreateSite(s) PROVE Goal
  BY <1>1 DEF CreateSite, VersionGrows, Typed, TypeOK, Absent
<1>2. ASSUME NEW c \in Scenarios, SubmitScenario(c) PROVE Goal
  BY <1>2 DEF SubmitScenario, VersionGrows, Typed, TypeOK, Absent
<1>3. ASSUME UNCHANGED tables PROVE Goal
  BY <1>3 DEF tables, VersionGrows
<1>4. ASSUME NEW t \in Threads, CommitReviewSite(t) \/ CommitTransitionSite(t)
      PROVE  Goal
  <2> PICK s \in Sites, next \in SiteStatus, version \in Version :
        s = call[t].site /\ next = call[t].next /\ version = call[t].version
    BY <1>4, CallShapes DEF CommitReviewSite, CommitTransitionSite, SiteCall, Typed
  <2>1. /\ site[s].version = version
        /\ site' = [site EXCEPT ![s].status = next, ![s].version = @ + 1]
        /\ UNCHANGED <<scenario, reservation, deployment>>
    BY <1>4 DEF CommitReviewSite, CommitTransitionSite, SiteUnmoved, MoveSite
  <2>2. site[s] \in SiteRow
    BY <2>1 DEF Typed, TypeOK, Absent, Version
  <2>3. site'[s].version > site[s].version /\ \A z \in Sites \ {s} : site'[z] = site[z]
    BY <2>1, <2>2 DEF Typed, TypeOK, SiteRow, Version
  <2>4. QED
    BY <2>1, <2>3 DEF VersionGrows
<1>5. ASSUME NEW t \in Threads, CommitStartScenarioReview(t) \/ CommitDecideScenario(t)
      PROVE  Goal
  <2> PICK c \in Scenarios, version \in Version :
        c = call[t].scenario /\ version = call[t].version
    BY <1>5, CallShapes
    DEF CommitStartScenarioReview, CommitDecideScenario, ScenarioCall, Typed
  <2>0. UpdateScenario(c, call[t].next, version)
    BY <1>5 DEF CommitStartScenarioReview, CommitDecideScenario
  <2>1. scenario[c] \in ScenarioRow
    BY <2>0 DEF UpdateScenario, Typed, TypeOK, Absent, Version
  <2>2. /\ scenario'[c].version > scenario[c].version
        /\ \A z \in Scenarios \ {c} : scenario'[z] = scenario[z]
    BY <2>0, <2>1 DEF UpdateScenario, Typed, TypeOK, ScenarioRow, Version
  <2>3. UNCHANGED <<site, reservation, deployment>>
    BY <1>5 DEF CommitStartScenarioReview, CommitDecideScenario
  <2>4. QED
    BY <2>2, <2>3 DEF VersionGrows
<1>6. ASSUME NEW t \in Threads, NEW r \in Reservations, CommitReserveCapacity(t, r)
      PROVE  Goal
  <2> PICK s \in Sites, c \in Scenarios : s = call[t].site /\ c = call[t].scenario
    BY <1>6, CallShapes DEF CommitReserveCapacity, ReserveCall, Typed
  <2>1. /\ Claimable(s, Units[c]) /\ ClaimUnits(s, Units[c])
        /\ UNCHANGED <<scenario, deployment>>
    BY <1>6 DEF CommitReserveCapacity
  <2>2. site[s] \in SiteRow
    BY <2>1 DEF Claimable, Typed, TypeOK, Absent
  <2>3. site'[s].version > site[s].version /\ \A z \in Sites \ {s} : site'[z] = site[z]
    BY <2>1, <2>2 DEF ClaimUnits, Typed, TypeOK, SiteRow, Version
  <2>4. \A z \in Reservations : VersionGrows(reservation[z], reservation'[z])
    BY <1>6 DEF CommitReserveCapacity, VersionGrows, Typed, TypeOK, Absent
  <2>5. QED
    BY <2>1, <2>3, <2>4 DEF VersionGrows
<1>7. ASSUME NEW r \in Reservations, NEW next, reservation[r] # Absent,
             MoveReservation(r, next), ReturnUnits(r)
      PROVE  /\ \A s \in Sites : VersionGrows(site[s], site'[s])
             /\ \A x \in Reservations : VersionGrows(reservation[x], reservation'[x])
  <2>1. reservation[r] \in ReservationRow
    BY <1>7 DEF Typed, TypeOK
  <2> PICK s \in Sites : s = reservation[r].site /\ site[s] \in SiteRow
    BY <1>7, <2>1 DEF Typed, TypeOK, ReservedSiteExists, ReservationRow
  <2>2. site'[s].version > site[s].version /\ \A z \in Sites \ {s} : site'[z] = site[z]
    BY <1>7 DEF ReturnUnits, Typed, TypeOK, SiteRow, Version
  <2>3. /\ reservation'[r].version > reservation[r].version
        /\ \A z \in Reservations \ {r} : reservation'[z] = reservation[z]
    BY <1>7, <2>1 DEF MoveReservation, Typed, TypeOK, ReservationRow, Version
  <2>4. QED
    BY <2>2, <2>3 DEF VersionGrows
<1>8. ASSUME NEW t \in Threads, CommitReturn(t)
      PROVE  Goal
  <2> PICK r \in Reservations, version \in Version :
        r = call[t].reservation /\ version = call[t].version
    BY <1>8, CallShapes DEF CommitReturn, ReturnCall, Typed
  <2>1. /\ reservation[r] # Absent /\ MoveReservation(r, call[t].next) /\ ReturnUnits(r)
        /\ UNCHANGED <<scenario, deployment>>
    BY <1>8 DEF CommitReturn, Returnable, Version, Absent
  <2>2. QED
    BY <1>7, <2>1 DEF VersionGrows
<1>9. ASSUME NEW t \in Threads, CommitCreateDeployment(t)
      PROVE  Goal
  <2> PICK r \in Reservations : r = call[t].reservation
    BY <1>9, CallShapes DEF CommitCreateDeployment, DeployCall, Typed
  <2>1. QED
    BY <1>9 DEF CommitCreateDeployment, VersionGrows, Typed, TypeOK, Absent
<1>10. ASSUME NEW r \in Reservations, NEW next, NEW version \in Version,
              UpdateDeployment(r, next, version)
       PROVE  \A x \in Reservations : VersionGrows(deployment[x], deployment'[x])
  <2>1. deployment[r] \in DeploymentRow
    BY <1>10 DEF UpdateDeployment, Typed, TypeOK, Absent, Version
  <2>2. /\ deployment'[r].version > deployment[r].version
        /\ \A z \in Reservations \ {r} : deployment'[z] = deployment[z]
    BY <1>10, <2>1 DEF UpdateDeployment, Typed, TypeOK, DeploymentRow, Version
  <2>3. QED
    BY <2>2 DEF VersionGrows
<1>11. ASSUME NEW t \in Threads, CommitAdvance(t)
       PROVE  Goal
  <2> PICK r \in Reservations, version \in Version :
        r = call[t].reservation /\ version = call[t].version
    BY <1>11, CallShapes DEF CommitAdvance, AdvanceCall, Typed
  <2>1. UpdateDeployment(r, call[t].next, version) /\ UNCHANGED <<site, scenario, reservation>>
    BY <1>11 DEF CommitAdvance
  <2>2. QED
    BY <1>10, <2>1 DEF VersionGrows
<1>12. ASSUME NEW t \in Threads, CommitStopDeployment(t)
       PROVE  Goal
  <2> PICK r \in Reservations, version \in Version :
        r = call[t].reservation /\ version = call[t].version
    BY <1>12, CallShapes DEF CommitStopDeployment, StopCall, Typed
  <2>1. /\ UpdateDeployment(r, "stopped", version)
        /\ reservation[r] # Absent /\ MoveReservation(r, "released") /\ ReturnUnits(r)
        /\ UNCHANGED scenario
    BY <1>12 DEF CommitStopDeployment, Absent
  <2>2. QED
    BY <1>7, <1>10, <2>1 DEF VersionGrows
<1>13. QED
  <2>1. \A r \in Reservations : ReachExpiry(r) => UNCHANGED tables
    BY DEF ReachExpiry
  <2>2. \A t \in Threads : ReadStep(t) \/ Abandon(t) => UNCHANGED tables
    BY ReadStepTyped DEF Abandon, Typed
  <2>3. UNCHANGED vars => UNCHANGED tables
    BY DEF vars
  <2>4. QED
    BY <1>1, <1>2, <1>3, <1>4, <1>5, <1>6, <1>8, <1>9, <1>11, <1>12, <2>1, <2>2, <2>3
    DEF Next, CommitStep

\* Ready: the version read is one the row has reached, and while it is the
\* row's version the move that was checked on it is still legal.
SiteReady(q) ==
  /\ q.version <= site[q.site].version
  /\ site[q.site].version = q.version => SiteCanMove(site[q.site].status, q.next)

ScenarioReady(q) ==
  /\ q.version <= scenario[q.scenario].version
  /\ scenario[q.scenario].version = q.version
       => ScenarioCanMove(scenario[q.scenario].status, q.next)

ReturnReady(q) ==
  /\ q.version <= reservation[q.reservation].version
  /\ reservation[q.reservation].version = q.version
       => ReservationCanMove(reservation[q.reservation].status, q.next)

AdvanceReady(q) ==
  /\ q.version <= deployment[q.reservation].version
  /\ deployment[q.reservation].version = q.version
       => DeploymentCanMove(deployment[q.reservation].status, q.next)

StopReady(q) ==
  /\ q.version <= deployment[q.reservation].version
  /\ deployment[q.reservation].version = q.version
       => deployment[q.reservation].status = "stopping"

Ready(q) ==
  /\ q \in SiteCall => SiteReady(q)
  /\ q \in ScenarioCall => ScenarioReady(q)
  /\ q \in ReturnCall => ReturnReady(q)
  /\ q \in AdvanceCall => AdvanceReady(q)
  /\ q \in StopCall => StopReady(q)

\* What a thread is about to write is legal as long as the version it read lasts.
Locked == Typed /\ \A t \in Threads : Ready(call[t])

\* Locked says of every thread's commit at least what the checked invariant
\* says of it.
LEMMA LockedLegal == Locked => PreparedMovesAreLegal
BY DEF Locked, Ready, PreparedMovesAreLegal, SiteReady, ScenarioReady, ReturnReady,
       AdvanceReady, StopReady

\* No step makes a prepared commit illegal: it moves the row on, and then the
\* version prepared for is gone for good, or it leaves the row alone.
LEMMA ReadyStable ==
  ASSUME Typed, Typed', [Next]_vars, NEW q \in Call, Ready(q)
  PROVE  Ready(q)'
<1>1. ASSUME q \in SiteCall PROVE SiteReady(q)'
  <2>1. q.site \in Sites /\ q.version \in Version
    BY <1>1 DEF SiteCall
  <2>2. VersionGrows(site[q.site], site'[q.site])
    BY <2>1, VersionsGrow
  <2>3. site[q.site].version \in Nat /\ site'[q.site].version \in Nat
    BY <2>1 DEF Typed, TypeOK, SiteRow, Absent, Version
  <2>4. QED
    BY <1>1, <2>1, <2>2, <2>3 DEF Ready, SiteReady, VersionGrows, Version
<1>2. ASSUME q \in ScenarioCall PROVE ScenarioReady(q)'
  <2>1. q.scenario \in Scenarios /\ q.version \in Version
    BY <1>2 DEF ScenarioCall
  <2>2. VersionGrows(scenario[q.scenario], scenario'[q.scenario])
    BY <2>1, VersionsGrow
  <2>3. scenario[q.scenario].version \in Nat /\ scenario'[q.scenario].version \in Nat
    BY <2>1 DEF Typed, TypeOK, ScenarioRow, Absent, Version
  <2>4. QED
    BY <1>2, <2>1, <2>2, <2>3 DEF Ready, ScenarioReady, VersionGrows, Version
<1>3. ASSUME q \in ReturnCall PROVE ReturnReady(q)'
  <2>1. q.reservation \in Reservations /\ q.version \in Version
    BY <1>3 DEF ReturnCall
  <2>2. VersionGrows(reservation[q.reservation], reservation'[q.reservation])
    BY <2>1, VersionsGrow
  <2>3. reservation[q.reservation].version \in Nat
        /\ reservation'[q.reservation].version \in Nat
    BY <2>1 DEF Typed, TypeOK, ReservationRow, Absent, Version
  <2>4. QED
    BY <1>3, <2>1, <2>2, <2>3 DEF Ready, ReturnReady, VersionGrows, Version
<1>4. ASSUME q \in AdvanceCall \cup StopCall
      PROVE  (q \in AdvanceCall => AdvanceReady(q)') /\ (q \in StopCall => StopReady(q)')
  <2>1. q.reservation \in Reservations /\ q.version \in Version
    BY <1>4 DEF AdvanceCall, StopCall
  <2>2. VersionGrows(deployment[q.reservation], deployment'[q.reservation])
    BY <2>1, VersionsGrow
  <2>3. deployment[q.reservation].version \in Nat
        /\ deployment'[q.reservation].version \in Nat
    BY <2>1 DEF Typed, TypeOK, DeploymentRow, Absent, Version
  <2>4. QED
    BY <2>1, <2>2, <2>3 DEF Ready, AdvanceReady, StopReady, VersionGrows, Version
<1>5. QED
  BY <1>1, <1>2, <1>3, <1>4 DEF Ready, SiteCall, ScenarioCall, ReturnCall, AdvanceCall, StopCall

\* What a thread carries away from its reads is legal on the rows it read.
LEMMA ReadStepReady ==
  ASSUME Typed, NEW t \in Threads, ReadStep(t)
  PROVE  \E q : Proceed(t, q) /\ Ready(q)
<1>1. ASSUME NEW s \in Sites, NEW next, NEW op \in {"ReviewSite", "TransitionSite"},
             NEW q, q = [op |-> op, site |-> s, next |-> next, version |-> site[s].version],
             SiteCanMove(site[s].status, next)
      PROVE  Ready(q)
  <2>1. site[s].version \in Nat
    BY DEF Typed, TypeOK, SiteRow, Absent, Version
  <2>2. QED
    BY <1>1, <2>1 DEF Ready, SiteReady, ScenarioCall, ReturnCall, AdvanceCall, StopCall
<1>2. ASSUME NEW c \in Scenarios, NEW next,
             NEW op \in {"StartScenarioReview", "DecideScenario"}, NEW q,
             q = [op |-> op, scenario |-> c, next |-> next, version |-> scenario[c].version],
             ScenarioCanMove(scenario[c].status, next)
      PROVE  Ready(q)
  <2>1. scenario[c].version \in Nat
    BY DEF Typed, TypeOK, ScenarioRow, Absent, Version
  <2>2. QED
    BY <1>2, <2>1 DEF Ready, ScenarioReady, SiteCall, ReturnCall, AdvanceCall, StopCall
<1>3. ASSUME NEW r \in Reservations, NEW next,
             NEW op \in {"ReleaseReservation", "ExpireReservation"}, NEW q,
             q = [op |-> op, reservation |-> r, next |-> next,
                  version |-> reservation[r].version],
             ReservationCanMove(reservation[r].status, next)
      PROVE  Ready(q)
  <2>1. reservation[r].version \in Nat
    BY DEF Typed, TypeOK, ReservationRow, Absent, Version
  <2>2. QED
    BY <1>3, <2>1 DEF Ready, ReturnReady, SiteCall, ScenarioCall, AdvanceCall, StopCall
<1>4. ASSUME NEW r \in Reservations, NEW next,
             NEW op \in {"AdvanceDeployment", "ActivateDeploymentJob", "StopDeployment"},
             DeploymentCanMove(deployment[r].status, next)
      PROVE  Ready(Advance(op, r, next))
  <2>1. deployment[r].version \in Nat
    BY DEF Typed, TypeOK, DeploymentRow, Absent, Version
  <2>2. QED
    BY <1>4, <2>1
    DEF Advance, Ready, AdvanceReady, SiteCall, ScenarioCall, ReturnCall, StopCall
<1>5. ASSUME NEW r \in Reservations, NEW q, deployment[r].status = "stopping",
             q = [op |-> "StopDeploymentAndRelease", reservation |-> r,
                  version |-> deployment[r].version,
                  reservationVersion |-> reservation[r].version]
      PROVE  Ready(q)
  <2>1. deployment[r].version \in Nat
    BY DEF Typed, TypeOK, DeploymentRow, Absent, Version
  <2>2. QED
    BY <1>5, <2>1 DEF Ready, StopReady, SiteCall, ScenarioCall, ReturnCall, AdvanceCall
<1>6. ASSUME NEW q, q \in ReserveCall \/ q \in DeployCall
      PROVE  Ready(q)
  BY <1>6 DEF Ready, ReserveCall, DeployCall, SiteCall, ScenarioCall, ReturnCall,
              AdvanceCall, StopCall
<1>7. ASSUME NEW s \in Sites,
             \/ \E decision \in Decisions : ReadReviewSite(t, s, decision)
             \/ \E next \in SiteStatus : ReadTransitionSite(t, s, next)
             \/ \E c \in Scenarios : ReadReserveCapacity(t, c, s)
      PROVE  \E q : Proceed(t, q) /\ Ready(q)
  BY <1>1, <1>6, <1>7 DEF ReadReviewSite, ReadTransitionSite, ReadReserveCapacity, ReserveCall
<1>8. ASSUME NEW c \in Scenarios,
             \/ ReadStartScenarioReview(t, c)
             \/ \E decision \in Decisions : ReadDecideScenario(t, c, decision)
      PROVE  \E q : Proceed(t, q) /\ Ready(q)
  BY <1>2, <1>8 DEF ReadStartScenarioReview, ReadDecideScenario, ReadScenarioReview
<1>9. ASSUME NEW r \in Reservations,
             \/ ReadReleaseReservation(t, r)
             \/ ReadExpireReservation(t, r)
             \/ ReadCreateDeployment(t, r)
      PROVE  \E q : Proceed(t, q) /\ Ready(q)
  BY <1>3, <1>6, <1>9
  DEF ReadReleaseReservation, ReadExpireReservation, ReadCreateDeployment, DeployCall
<1>10. ASSUME NEW r \in Reservations,
              \/ \E next \in DeploymentStatus : ReadAdvanceDeployment(t, r, next)
              \/ ReadActivateDeploymentJob(t, r)
       PROVE  \E q : Proceed(t, q) /\ Ready(q)
  <2>1. /\ deployment[r].status = "queued" => DeploymentCanMove(deployment[r].status, "activating")
        /\ deployment[r].status = "activating" => DeploymentCanMove(deployment[r].status, "running")
    BY DEF DeploymentCanMove
  <2>2. QED
    BY <1>4, <1>10, <2>1 DEF ReadAdvanceDeployment, ReadActivateDeploymentJob
<1>11. ASSUME NEW r \in Reservations, ReadStopDeployment(t, r)
       PROVE  \E q : Proceed(t, q) /\ Ready(q)
  <2>1. deployment[r].status = "running" => DeploymentCanMove(deployment[r].status, "stopping")
    BY DEF DeploymentCanMove
  <2>2. QED
    BY <1>4, <1>5, <1>11, <2>1 DEF ReadStopDeployment
<1>12. QED
  BY <1>7, <1>8, <1>9, <1>10, <1>11 DEF ReadStep

\* The second commit of ActivateDeploymentJob goes on from the first.
LEMMA AdvanceCommitReady ==
  ASSUME Locked, NEW t \in Threads, CommitAdvance(t)
  PROVE  Done(t) \/ (Ready(call[t])' /\ \A z \in Threads \ {t} : call'[z] = call[z])
<1> PICK r \in Reservations, version \in Version, next \in DeploymentStatus :
      r = call[t].reservation /\ version = call[t].version /\ next = call[t].next
  BY CallShapes DEF CommitAdvance, AdvanceCall, Locked, Typed
<1>1. UpdateDeployment(r, next, version)
  BY DEF CommitAdvance
<1>2. SUFFICES ASSUME ~Done(t)
               PROVE  Ready(call[t])' /\ \A z \in Threads \ {t} : call'[z] = call[z]
  OBVIOUS
<1> DEFINE q == [op |-> "ActivateDeploymentJob", reservation |-> r,
                 next |-> "running", version |-> version + 1]
<1>3. next = "activating" /\ call' = [call EXCEPT ![t] = q]
  BY <1>2 DEF CommitAdvance
<1>4. call'[t] = q /\ \A z \in Threads \ {t} : call'[z] = call[z]
  BY <1>3 DEF Locked, Typed, TypeOK
<1>5. deployment[r] \in DeploymentRow
  BY <1>1 DEF UpdateDeployment, Locked, Typed, TypeOK, Absent, Version
<1>6. deployment'[r].status = "activating" /\ deployment'[r].version = version + 1
  BY <1>1, <1>3, <1>5 DEF UpdateDeployment, Locked, Typed, TypeOK, DeploymentRow
<1>7. AdvanceReady(q)'
  BY <1>6 DEF AdvanceReady, DeploymentCanMove, Version
<1>8. q \notin SiteCall \cup ScenarioCall \cup ReturnCall \cup StopCall
  BY DEF SiteCall, ScenarioCall, ReturnCall, StopCall
<1>9. Ready(q)'
  BY <1>7, <1>8 DEF Ready
<1>10. QED
  BY <1>4, <1>9 DEF Ready, SiteReady, ScenarioReady, ReturnReady, AdvanceReady, StopReady

\* Locked is inductive.
LEMMA LockedStep == Locked /\ [Next]_vars => Locked'
<1> SUFFICES ASSUME Locked, [Next]_vars PROVE Locked'
  OBVIOUS
<1> USE DEF SiteReady, ScenarioReady, ReturnReady, AdvanceReady, StopReady
<1>1. Typed /\ Typed'
  BY NextTyped DEF Locked
<1>2. ASSUME NEW z \in Threads, call'[z] = Idle
      PROVE  Ready(call[z])'
  BY <1>2 DEF Idle, Ready, SiteCall, ScenarioCall, ReturnCall, AdvanceCall, StopCall
<1>3. ASSUME NEW z \in Threads, call'[z] = call[z]
      PROVE  Ready(call[z])'
  <2>1. CASE call[z] = Idle
    BY <1>2, <1>3, <2>1
  <2>2. CASE call[z] \in Call
    <3>1. PICK q \in Call : q = call[z]
      BY <2>2
    <3>2. Ready(q)'
      BY <1>1, <3>1, ReadyStable DEF Locked
    <3>3. QED
      BY <1>3, <3>1, <3>2 DEF Ready
  <2>3. QED
    BY <2>1, <2>2, <1>1 DEF Typed, TypeOK
<1>4. ASSUME NEW t \in Threads, Done(t), NEW z \in Threads
      PROVE  call'[z] \in {call[z], Idle}
  BY <1>1, <1>4 DEF Done, Typed, TypeOK
<1>5. ASSUME NEW t \in Threads, ReadStep(t), NEW z \in Threads
      PROVE  Ready(call[z])'
  <2>1. PICK q : Proceed(t, q) /\ Ready(q)
    BY <1>1, <1>5, ReadStepReady
  <2>2. Ready(q)'
    BY <2>1 DEF Proceed, tables, Ready
  <2>3. call'[z] = IF z = t THEN q ELSE call[z]
    BY <1>1, <2>1 DEF Proceed, Typed, TypeOK
  <2>4. QED
    BY <1>3, <2>2, <2>3 DEF Ready
<1>6. ASSUME NEW t \in Threads, CommitAdvance(t), NEW z \in Threads
      PROVE  Ready(call[z])'
  BY <1>2, <1>3, <1>4, <1>6, AdvanceCommitReady
<1>7. ASSUME NEW t \in Threads,
             \/ Abandon(t) \/ CommitReviewSite(t) \/ CommitTransitionSite(t)
             \/ CommitStartScenarioReview(t) \/ CommitDecideScenario(t)
             \/ \E r \in Reservations : CommitReserveCapacity(t, r)
             \/ CommitReturn(t) \/ CommitCreateDeployment(t) \/ CommitStopDeployment(t)
      PROVE  Done(t)
  BY <1>7 DEF Abandon, CommitReviewSite, CommitTransitionSite, CommitStartScenarioReview,
    CommitDecideScenario, CommitReserveCapacity, CommitReturn, CommitCreateDeployment,
    CommitStopDeployment
<1>8. ASSUME NEW t \in Threads, CommitStep(t) \/ Abandon(t), NEW z \in Threads
      PROVE  Ready(call[z])'
  BY <1>2, <1>3, <1>4, <1>6, <1>7, <1>8 DEF CommitStep
<1>9. ASSUME UNCHANGED call, NEW z \in Threads
      PROVE  Ready(call[z])'
  BY <1>3, <1>9
<1>10. \/ UNCHANGED call
       \/ \E t \in Threads : ReadStep(t) \/ CommitStep(t) \/ Abandon(t)
  BY DEF Next, CreateSite, SubmitScenario, ReachExpiry, vars
<1>11. QED
  BY <1>1, <1>5, <1>8, <1>9, <1>10 DEF Locked

\* A commit prepared from a stale read never takes effect, for any number of
\* threads: see PreparedMovesAreLegal.
THEOREM OptimisticLocking == Spec => []Locked
<1>1. Init => Locked
  <2>1. Init => Typed
    BY InitTyped DEF Init, Typed, ReservedSiteExists
  <2>2. Init => \A t \in Threads : Ready(call[t])
    BY DEF Init, Idle, Ready, SiteCall, ScenarioCall, ReturnCall, AdvanceCall, StopCall
  <2>3. QED
    BY <2>1, <2>2 DEF Locked
<1>2. QED
  BY <1>1, LockedStep, PTL DEF Spec

\* At the commit every prepared move is legal on the row it is written to.
THEOREM PreparedLegal == Spec => []PreparedMovesAreLegal
BY OptimisticLocking, LockedLegal, PTL

-----------------------------------------------------------------------------
(* Lifecycles *)

\* A row that is left alone, or whose status is, follows any lifecycle.
LEMMA LifecycleStep ==
  ASSUME Locked, [Next]_vars
  PROVE  /\ \A s \in Sites : FollowsLifecycle(site[s], site'[s], SiteCanMove)
         /\ \A c \in Scenarios :
              FollowsLifecycle(scenario[c], scenario'[c], ScenarioCanMove)
         /\ \A r \in Reservations :
              /\ FollowsLifecycle(reservation[r], reservation'[r], ReservationCanMove)
              /\ FollowsLifecycle(deployment[r], deployment'[r], DeploymentCanMove)
<1> USE DEF FollowsLifecycle
<1> DEFINE SitesFollow == \A s \in Sites : FollowsLifecycle(site[s], site'[s], SiteCanMove)
           ScenariosFollow == \A c \in Scenarios :
             FollowsLifecycle(scenario[c], scenario'[c], ScenarioCanMove)
           ReservationsFollow == \A r \in Reservations :
             FollowsLifecycle(reservation[r], reservation'[r], ReservationCanMove)
           DeploymentsFollow == \A r \in Reservations :
             FollowsLifecycle(deployment[r], deployment'[r], DeploymentCanMove)
<1>0. TypeOK /\ Typed
  BY DEF Locked, Typed
<1>1. ASSUME NEW t \in Threads, CommitReviewSite(t) \/ CommitTransitionSite(t)
      PROVE  SitesFollow
  <2> PICK q \in SiteCall : q = call[t]
    BY <1>0, <1>1, CallShapes DEF CommitReviewSite, CommitTransitionSite
  <2> PICK s \in Sites, version \in Version : s = q.site /\ version = q.version
    BY DEF SiteCall
  <2>1. /\ site[s].version = version
        /\ site' = [site EXCEPT ![s].status = q.next, ![s].version = @ + 1]
    BY <1>1 DEF CommitReviewSite, CommitTransitionSite, SiteUnmoved, MoveSite
  <2>2. site[s] \in SiteRow /\ SiteCanMove(site[s].status, q.next)
    BY <1>0, <2>1 DEF TypeOK, Absent, Version, Locked, Ready, SiteReady
  <2>3. site'[s].status = q.next /\ site'[s].version = site[s].version + 1
        /\ \A z \in Sites \ {s} : site'[z] = site[z]
    BY <1>0, <2>1, <2>2 DEF TypeOK, SiteRow
  <2>4. QED
    BY <2>2, <2>3
<1>2. ASSUME NEW t \in Threads, CommitStartScenarioReview(t) \/ CommitDecideScenario(t)
      PROVE  ScenariosFollow
  <2> PICK q \in ScenarioCall : q = call[t]
    BY <1>0, <1>2, CallShapes DEF CommitStartScenarioReview, CommitDecideScenario
  <2> PICK c \in Scenarios, version \in Version : c = q.scenario /\ version = q.version
    BY DEF ScenarioCall
  <2>1. UpdateScenario(c, q.next, version)
    BY <1>2 DEF CommitStartScenarioReview, CommitDecideScenario
  <2>2. scenario[c] \in ScenarioRow /\ ScenarioCanMove(scenario[c].status, q.next)
    BY <1>0, <2>1
    DEF UpdateScenario, TypeOK, Absent, Version, Locked, Ready, ScenarioReady
  <2>3. scenario'[c].status = q.next /\ scenario'[c].version = scenario[c].version + 1
        /\ \A z \in Scenarios \ {c} : scenario'[z] = scenario[z]
    BY <1>0, <2>1, <2>2 DEF UpdateScenario, TypeOK, ScenarioRow
  <2>4. QED
    BY <2>2, <2>3
<1>3. ASSUME NEW r \in Reservations, NEW next, reservation[r] # Absent,
             ReservationCanMove(reservation[r].status, next), MoveReservation(r, next)
      PROVE  ReservationsFollow
  <2>1. reservation[r] \in ReservationRow
    BY <1>0, <1>3 DEF TypeOK
  <2>2. reservation'[r].status = next
        /\ reservation'[r].version = reservation[r].version + 1
        /\ \A z \in Reservations \ {r} : reservation'[z] = reservation[z]
    BY <1>0, <1>3, <2>1 DEF MoveReservation, TypeOK, ReservationRow
  <2>3. QED
    BY <1>3, <2>2
<1>4. ASSUME NEW t \in Threads, CommitReturn(t)
      PROVE  ReservationsFollow
  <2> PICK q \in ReturnCall : q = call[t]
    BY <1>0, <1>4, CallShapes DEF CommitReturn
  <2> PICK r \in Reservations, version \in Version : r = q.reservation /\ version = q.version
    BY DEF ReturnCall
  <2>1. Returnable(r, version) /\ MoveReservation(r, q.next)
    BY <1>4 DEF CommitReturn
  <2>2. reservation[r] # Absent /\ ReservationCanMove(reservation[r].status, q.next)
    BY <2>1 DEF Returnable, Absent, Version, Locked, Ready, ReturnReady
  <2>3. QED
    BY <1>3, <2>1, <2>2
<1>5. ASSUME NEW t \in Threads, NEW r \in Reservations, CommitReserveCapacity(t, r)
      PROVE  ReservationsFollow /\ SitesFollow
  <2> PICK s \in Sites, c \in Scenarios : s = call[t].site /\ c = call[t].scenario
    BY <1>0, <1>5, CallShapes DEF CommitReserveCapacity, ReserveCall
  <2>1. ReservationsFollow
    BY <1>0, <1>5 DEF CommitReserveCapacity, TypeOK
  <2>2. Claimable(s, Units[c]) /\ ClaimUnits(s, Units[c])
    BY <1>5 DEF CommitReserveCapacity
  <2>3. site[s] \in SiteRow
    BY <1>0, <2>2 DEF Claimable, TypeOK, Absent
  <2>4. site'[s].status = site[s].status /\ \A z \in Sites \ {s} : site'[z] = site[z]
    BY <1>0, <2>2, <2>3 DEF ClaimUnits, TypeOK, SiteRow
  <2>5. QED
    BY <2>1, <2>4
<1>6. ASSUME NEW r \in Reservations, reservation[r] # Absent, ReturnUnits(r)
      PROVE  SitesFollow
  <2> PICK s \in Sites : s = reservation[r].site /\ site[s] \in SiteRow
    BY <1>0, <1>6 DEF Typed, TypeOK, ReservedSiteExists, ReservationRow
  <2>1. site'[s].status = site[s].status /\ \A z \in Sites \ {s} : site'[z] = site[z]
    BY <1>0, <1>6 DEF ReturnUnits, TypeOK, SiteRow
  <2>2. QED
    BY <2>1
<1>7. ASSUME NEW r \in Reservations, NEW next, NEW version \in Version,
             UpdateDeployment(r, next, version),
             deployment[r].version = version => DeploymentCanMove(deployment[r].status, next)
      PROVE  DeploymentsFollow
  <2>1. deployment[r] \in DeploymentRow
    BY <1>0, <1>7 DEF UpdateDeployment, TypeOK, Absent, Version
  <2>2. deployment'[r].status = next /\ deployment'[r].version = deployment[r].version + 1
        /\ \A z \in Reservations \ {r} : deployment'[z] = deployment[z]
    BY <1>0, <1>7, <2>1 DEF UpdateDeployment, TypeOK, DeploymentRow
  <2>3. QED
    BY <1>7, <2>2 DEF UpdateDeployment
<1>8. ASSUME NEW t \in Threads, CommitAdvance(t)
      PROVE  DeploymentsFollow
  <2> PICK q \in AdvanceCall : q = call[t]
    BY <1>0, <1>8, CallShapes DEF CommitAdvance
  <2> PICK r \in Reservations, version \in Version : r = q.reservation /\ version = q.version
    BY DEF AdvanceCall
  <2>1. UpdateDeployment(r, q.next, version)
    BY <1>8 DEF CommitAdvance
  <2>2. deployment[r].version = version => DeploymentCanMove(deployment[r].status, q.next)
    BY DEF Locked, Ready, AdvanceReady
  <2>3. QED
    BY <1>7, <2>1, <2>2
<1>9. ASSUME NEW t \in Threads, CommitStopDeployment(t)
      PROVE  SitesFollow /\ ReservationsFollow /\ DeploymentsFollow
  <2> PICK q \in StopCall : q = call[t]
    BY <1>0, <1>9, CallShapes DEF CommitStopDeployment
  <2> PICK r \in Reservations, version \in Version : r = q.reservation /\ version = q.version
    BY DEF StopCall
  <2>1. /\ UpdateDeployment(r, "stopped", version)
        /\ reservation[r].status = "confirmed"
        /\ MoveReservation(r, "released") /\ ReturnUnits(r)
    BY <1>9 DEF CommitStopDeployment
  <2>2. /\ reservation[r] # Absent
        /\ ReservationCanMove(reservation[r].status, "released")
        /\ deployment[r].version = version
             => DeploymentCanMove(deployment[r].status, "stopped")
    BY <2>1 DEF Absent, ReservationCanMove, DeploymentCanMove, Locked, Ready, StopReady
  <2>3. QED
    BY <1>3, <1>6, <1>7, <2>1, <2>2
<1>10. /\ UNCHANGED site => SitesFollow
       /\ UNCHANGED scenario => ScenariosFollow
       /\ UNCHANGED reservation => ReservationsFollow
       /\ UNCHANGED deployment => DeploymentsFollow
  OBVIOUS
<1>11. ASSUME NEW s \in Sites, CreateSite(s)
       PROVE  SitesFollow /\ UNCHANGED <<scenario, reservation, deployment>>
  BY <1>0, <1>11 DEF CreateSite, TypeOK
<1>12. ASSUME NEW c \in Scenarios, SubmitScenario(c)
       PROVE  ScenariosFollow /\ UNCHANGED <<site, reservation, deployment>>
  BY <1>0, <1>12 DEF SubmitScenario, TypeOK
<1>13. ASSUME NEW t \in Threads, CommitCreateDeployment(t)
       PROVE  DeploymentsFollow /\ UNCHANGED <<site, scenario, reservation>>
  <2> PICK r \in Reservations : r = call[t].reservation
    BY <1>0, <1>13, CallShapes DEF CommitCreateDeployment, DeployCall
  <2>1. QED
    BY <1>0, <1>13 DEF CommitCreateDeployment, TypeOK
<1>14. ASSUME NEW t \in Threads, CommitStep(t)
       PROVE  SitesFollow /\ ScenariosFollow /\ ReservationsFollow /\ DeploymentsFollow
  <2>1. CommitReviewSite(t) \/ CommitTransitionSite(t)
          => UNCHANGED <<scenario, reservation, deployment>>
    BY DEF CommitReviewSite, CommitTransitionSite
  <2>2. CommitStartScenarioReview(t) \/ CommitDecideScenario(t)
          => UNCHANGED <<site, reservation, deployment>>
    BY DEF CommitStartScenarioReview, CommitDecideScenario
  <2>3. \A r \in Reservations :
          CommitReserveCapacity(t, r) => UNCHANGED <<scenario, deployment>>
    BY DEF CommitReserveCapacity
  <2>4. CommitReturn(t) => SitesFollow /\ UNCHANGED <<scenario, deployment>>
    <3>1. SUFFICES ASSUME CommitReturn(t) PROVE SitesFollow
      BY DEF CommitReturn
    <3>2. PICK r \in Reservations, version \in Version :
            r = call[t].reservation /\ version = call[t].version
      BY <1>0, <3>1, CallShapes DEF CommitReturn, ReturnCall
    <3>3. reservation[r] # Absent /\ ReturnUnits(r)
      BY <3>1, <3>2 DEF CommitReturn, Returnable, Absent, Version
    <3>4. QED
      BY <1>6, <3>3
  <2>5. CommitAdvance(t) => UNCHANGED <<site, scenario, reservation>>
    BY DEF CommitAdvance
  <2>6. CommitStopDeployment(t) => UNCHANGED scenario
    BY DEF CommitStopDeployment
  <2> HIDE DEF SitesFollow, ScenariosFollow, ReservationsFollow, DeploymentsFollow
  <2>7. QED
    BY <1>1, <1>2, <1>4, <1>5, <1>8, <1>9, <1>10, <1>13, <1>14,
       <2>1, <2>2, <2>3, <2>4, <2>5, <2>6 DEF CommitStep
<1>15. \/ UNCHANGED tables
       \/ \E s \in Sites : CreateSite(s)
       \/ \E c \in Scenarios : SubmitScenario(c)
       \/ \E t \in Threads : CommitStep(t)
  BY <1>0, ReadStepTyped DEF Next, ReachExpiry, Abandon, vars
<1>16. SitesFollow /\ ScenariosFollow /\ ReservationsFollow /\ DeploymentsFollow
  <2> HIDE DEF SitesFollow, ScenariosFollow, ReservationsFollow, DeploymentsFollow
  <2>1. QED
    BY <1>10, <1>11, <1>12, <1>14, <1>15 DEF tables
<1>17. QED
  BY <1>16

\* Sites, scenarios, reservations and deployments only ever make the moves
\* internal/domain allows, whatever requests and jobs interleave.
THEOREM LifecyclesAlwaysFollowed == Spec => LifecyclesFollowed
<1>1. Locked /\ [Next]_vars =>
        [/\ \A s \in Sites : FollowsLifecycle(site[s], site'[s], SiteCanMove)
         /\ \A c \in Scenarios :
              FollowsLifecycle(scenario[c], scenario'[c], ScenarioCanMove)
         /\ \A r \in Reservations :
              /\ FollowsLifecycle(reservation[r], reservation'[r], ReservationCanMove)
              /\ FollowsLifecycle(deployment[r], deployment'[r], DeploymentCanMove)]_vars
  BY LifecycleStep
<1>2. QED
  BY <1>1, OptimisticLocking, PTL DEF Spec, LifecyclesFollowed

-----------------------------------------------------------------------------
(* What may happen to a reservation *)

\* A reservation that held capacity stops to hold it and is otherwise kept.
Ended(row, rowNext) ==
  /\ row \in ReservationRow /\ rowNext \in ReservationRow
  /\ HoldsCapacity(row.status) /\ ~HoldsCapacity(rowNext.status)
  /\ rowNext.site = row.site /\ rowNext.scenario = row.scenario

\* A reservation that is released or expired keeps its site and its scenario.
LEMMA MoveReservationEnds ==
  ASSUME TypeOK, NEW x \in Reservations, NEW next \in {"released", "expired"},
         reservation[x] # Absent, HoldsCapacity(reservation[x].status),
         MoveReservation(x, next)
  PROVE  /\ Ended(reservation[x], reservation'[x])
         /\ \A r \in Reservations \ {x} : reservation'[r] = reservation[r]
<1>1. reservation[x] \in ReservationRow
  BY DEF TypeOK
<1>2. QED
  BY <1>1 DEF MoveReservation, TypeOK, ReservationRow, ReservationStatus, Version,
    HoldsCapacity, Ended

\* Every step inserts reservations, ends one, or leaves the table alone.
LEMMA ReservationSteps ==
  ASSUME Typed, [Next]_vars, NEW r \in Reservations
  PROVE  \/ reservation'[r] = reservation[r]
         \/ \E t \in Threads : CommitReserveCapacity(t, r)
         \/ Ended(reservation[r], reservation'[r])
<1>0. TypeOK
  BY DEF Typed
<1>1. ASSUME NEW t \in Threads, NEW x \in Reservations, CommitReserveCapacity(t, x), x # r
      PROVE  reservation'[r] = reservation[r]
  BY <1>0, <1>1 DEF CommitReserveCapacity, TypeOK
<1>2. ASSUME NEW t \in Threads, CommitReturn(t)
      PROVE  reservation'[r] = reservation[r] \/ Ended(reservation[r], reservation'[r])
  <2>1. PICK x \in Reservations, version \in Version, next \in {"released", "expired"} :
          x = call[t].reservation /\ version = call[t].version /\ next = call[t].next
    BY <1>0, <1>2, CallShapes DEF CommitReturn, ReturnCall
  <2>2. /\ reservation[x] # Absent /\ HoldsCapacity(reservation[x].status)
        /\ MoveReservation(x, next)
    BY <1>2, <2>1 DEF CommitReturn, Returnable, Absent, Version
  <2>3. QED
    BY <1>0, <2>2, MoveReservationEnds
<1>3. ASSUME NEW t \in Threads, CommitStopDeployment(t)
      PROVE  reservation'[r] = reservation[r] \/ Ended(reservation[r], reservation'[r])
  <2>1. PICK x \in Reservations : x = call[t].reservation
    BY <1>0, <1>3, CallShapes DEF CommitStopDeployment, StopCall
  <2>2. /\ reservation[x] # Absent /\ HoldsCapacity(reservation[x].status)
        /\ MoveReservation(x, "released")
    BY <1>3, <2>1 DEF CommitStopDeployment, Absent, HoldsCapacity
  <2>3. QED
    BY <1>0, <2>2, MoveReservationEnds
<1>4. \A t \in Threads :
        \/ CommitReviewSite(t) \/ CommitTransitionSite(t)
        \/ CommitStartScenarioReview(t) \/ CommitDecideScenario(t)
        \/ CommitCreateDeployment(t) \/ CommitAdvance(t) \/ Abandon(t) \/ ReadStep(t)
        => UNCHANGED reservation
  BY <1>0, ReadStepTyped
  DEF CommitReviewSite, CommitTransitionSite, CommitStartScenarioReview,
    CommitDecideScenario, CommitCreateDeployment, CommitAdvance, Abandon, tables
<1>5. (\E s \in Sites : CreateSite(s)) \/ (\E c \in Scenarios : SubmitScenario(c))
        \/ (\E x \in Reservations : ReachExpiry(x)) \/ UNCHANGED vars
      => UNCHANGED reservation
  BY DEF CreateSite, SubmitScenario, ReachExpiry, vars, tables
<1>6. QED
  BY <1>1, <1>2, <1>3, <1>4, <1>5 DEF Next, CommitStep

-----------------------------------------------------------------------------
(* Review before capacity *)

\* Awaited: the reservations that exist, and those on their way, are for
\* scenarios a review approved.
CallAwaited(q) == q \in ReserveCall => scenario[q.scenario].status = "approved"

\* Capacity that is held, or is about to be, was asked for by an approved scenario.
Awaited == ReservedAfterApproval /\ \A t \in Threads : CallAwaited(call[t])

\* Nothing follows the approval of a scenario.
LEMMA ApprovalIsFinal ==
  ASSUME Locked, [Next]_vars, NEW c \in Scenarios, scenario[c].status = "approved"
  PROVE  scenario'[c].status = "approved"
BY LifecycleStep DEF FollowsLifecycle, ScenarioCanMove, Absent

\* ReserveCapacity is the one read that leads to a reservation, and it checks
\* the scenario; no other operation turns into it on the way.
LEMMA ReadStepAwaited ==
  ASSUME NEW t \in Threads, ReadStep(t)
  PROVE  \E q : Proceed(t, q) /\ CallAwaited(q)
<1> USE DEF ReserveCall, CallAwaited
<1>1. ASSUME NEW s \in Sites, NEW c \in Scenarios, ReadReserveCapacity(t, c, s)
      PROVE  \E q : Proceed(t, q) /\ CallAwaited(q)
  BY <1>1 DEF ReadReserveCapacity
<1>2. CASE \E s \in Sites :
             \/ \E decision \in Decisions : ReadReviewSite(t, s, decision)
             \/ \E next \in SiteStatus : ReadTransitionSite(t, s, next)
  <2>1. ASSUME NEW s \in Sites, NEW next, NEW version,
               NEW op \in {"ReviewSite", "TransitionSite"}
        PROVE  CallAwaited([op |-> op, site |-> s, next |-> next, version |-> version])
    OBVIOUS
  <2> HIDE DEF ReserveCall, CallAwaited
  <2>2. QED
    BY <1>2, <2>1 DEF ReadReviewSite, ReadTransitionSite
<1>3. CASE \E c \in Scenarios :
             \/ ReadStartScenarioReview(t, c)
             \/ \E decision \in Decisions : ReadDecideScenario(t, c, decision)
  <2>1. ASSUME NEW c \in Scenarios, NEW next,
               NEW op \in {"StartScenarioReview", "DecideScenario"},
               ReadScenarioReview(t, c, op, next)
        PROVE  \E q : Proceed(t, q) /\ CallAwaited(q)
    BY <2>1 DEF ReadScenarioReview
  <2>2. QED
    BY <1>3, <2>1 DEF ReadStartScenarioReview, ReadDecideScenario
<1>4. CASE \E r \in Reservations :
             \/ ReadReleaseReservation(t, r)
             \/ ReadExpireReservation(t, r)
             \/ ReadCreateDeployment(t, r)
  BY <1>4 DEF ReadReleaseReservation, ReadExpireReservation, ReadCreateDeployment
<1>5. \A r, next : \A op \in {"AdvanceDeployment", "ActivateDeploymentJob", "StopDeployment"} :
        CallAwaited(Advance(op, r, next))
  BY DEF Advance
<1> HIDE DEF ReserveCall, CallAwaited
<1>6. CASE \E r \in Reservations, next \in DeploymentStatus :
             ReadAdvanceDeployment(t, r, next)
  BY <1>5, <1>6 DEF ReadAdvanceDeployment
<1>7. CASE \E r \in Reservations : ReadActivateDeploymentJob(t, r)
  BY <1>5, <1>7 DEF ReadActivateDeploymentJob
<1>8. CASE \E r \in Reservations : ReadStopDeployment(t, r)
  BY <1>5, <1>8 DEF ReadStopDeployment, ReserveCall, CallAwaited
<1>9. QED
  BY <1>1, <1>2, <1>3, <1>4, <1>6, <1>7, <1>8 DEF ReadStep

\* Awaited is inductive: an approval that was read stays until the commit.
LEMMA AwaitedStep == Locked /\ Awaited /\ [Next]_vars => Awaited'
<1> SUFFICES ASSUME Locked, Awaited, [Next]_vars PROVE Awaited'
  OBVIOUS
<1>0. TypeOK
  BY DEF Locked, Typed
<1>1. ASSUME NEW z \in Threads, call'[z] \in ReserveCall
      PROVE  scenario[call'[z].scenario].status = "approved"
  <2>1. ASSUME NEW t \in Threads, ReadStep(t)
        PROVE  scenario[call'[z].scenario].status = "approved"
    <3>1. PICK q : Proceed(t, q) /\ CallAwaited(q)
      BY <2>1, ReadStepAwaited
    <3>2. call'[z] = IF z = t THEN q ELSE call[z]
      BY <1>0, <3>1 DEF Proceed, TypeOK
    <3>3. QED
      BY <1>1, <3>1, <3>2 DEF Awaited, CallAwaited
  <2>2. ASSUME NEW t \in Threads, CommitStep(t) \/ Abandon(t)
        PROVE  call'[z] = call[z]
    BY <1>0, <1>1, <2>2
    DEF TypeOK, ReserveCall, Idle, Done, Abandon, CommitStep, CommitReviewSite,
        CommitTransitionSite, CommitStartScenarioReview, CommitDecideScenario,
        CommitReserveCapacity, CommitReturn, CommitCreateDeployment, CommitAdvance,
        CommitStopDeployment
  <2>3. \/ UNCHANGED call
        \/ \E t \in Threads : ReadStep(t) \/ CommitStep(t) \/ Abandon(t)
    BY DEF Next, CreateSite, SubmitScenario, ReachExpiry, vars
  <2>4. QED
    BY <1>1, <2>1, <2>2, <2>3 DEF Awaited, CallAwaited
<1>2. ASSUME NEW z \in Threads, call'[z] \in ReserveCall
      PROVE  scenario'[call'[z].scenario].status = "approved"
  BY <1>1, <1>2, ApprovalIsFinal DEF ReserveCall
<1>3. ASSUME NEW r \in Reservations, reservation'[r] # Absent
      PROVE  scenario'[reservation'[r].scenario].status = "approved"
  <2>1. CASE \E t \in Threads : CommitReserveCapacity(t, r)
    <3>1. PICK t \in Threads : CommitReserveCapacity(t, r)
      BY <2>1
    <3>2. PICK q \in ReserveCall : q = call[t]
      BY <1>0, <3>1, CallShapes DEF CommitReserveCapacity
    <3>3. reservation'[r].scenario = q.scenario /\ q.scenario \in Scenarios
      BY <1>0, <3>1, <3>2 DEF CommitReserveCapacity, TypeOK, ReserveCall
    <3>4. QED
      BY <3>2, <3>3, ApprovalIsFinal DEF Awaited, CallAwaited
  <2>2. CASE reservation'[r] = reservation[r] \/ Ended(reservation[r], reservation'[r])
    <3>1. /\ reservation[r] # Absent /\ reservation[r].scenario \in Scenarios
          /\ reservation'[r].scenario = reservation[r].scenario
      BY <1>0, <1>3, <2>2 DEF TypeOK, ReservationRow, ReservationStatus, Absent, Ended
    <3>2. QED
      BY <3>1, ApprovalIsFinal DEF Awaited, CallAwaited, ReservedAfterApproval
  <2>3. QED
    BY <2>1, <2>2, ReservationSteps DEF Locked
<1>4. QED
  BY <1>2, <1>3 DEF Awaited, CallAwaited, ReservedAfterApproval

\* Capacity is only ever held for a scenario that passed review, although
\* the transaction that takes it does not look at the scenario again.
THEOREM ReviewPrecedesCapacity == Spec => []ReservedAfterApproval
<1>1. Init => Awaited
  BY DEF Init, Awaited, ReservedAfterApproval, Idle, ReserveCall, CallAwaited
<1>2. QED
  BY <1>1, AwaitedStep, OptimisticLocking, PTL DEF Spec, Awaited

-----------------------------------------------------------------------------
(* Capacity *)

\* The empty tables are the ledger nobody has claimed from.
LEMMA LedgerInit == Init => Ledger!Init
<1> SUFFICES ASSUME Init PROVE Ledger!Init
  OBVIOUS
<1>1. FreeUnits = Total
  BY LaunchpadAssumption DEF Init, FreeUnits
<1>2. HoldOf = [r \in Reservations |-> Ledger!Unused]
  BY DEF Init, HoldOf, Ledger!Unused
<1>3. QED
  BY <1>1, <1>2 DEF Ledger!Init

\* The reserving transaction claims exactly the units the scenario asked for.
LEMMA ReserveClaims ==
  ASSUME Typed, NEW t \in Threads, NEW r \in Reservations, CommitReserveCapacity(t, r)
  PROVE  \E s \in Sites : \E u \in 1 .. FreeUnits[s] : Ledger!Claim(r, s, u)
<1>0. TypeOK
  BY DEF Typed
<1> PICK s \in Sites, c \in Scenarios : s = call[t].site /\ c = call[t].scenario
  BY <1>0, CallShapes DEF CommitReserveCapacity, ReserveCall
<1> DEFINE u == Units[c]
           row == [status |-> "confirmed", version |-> 1, site |-> s, scenario |-> c]
<1>1. /\ reservation[r] = Absent /\ Claimable(s, u) /\ ClaimUnits(s, u)
      /\ reservation' = [reservation EXCEPT ![r] = row]
  BY DEF CommitReserveCapacity
<1>2. site[s] \in SiteRow /\ u \in Nat \ {0} /\ u <= site[s].available
  BY <1>0, <1>1, LaunchpadAssumption DEF Claimable, TypeOK, Absent, SiteRow
<1>3. FreeUnits[s] = site[s].available /\ u \in 1 .. FreeUnits[s]
  BY <1>2 DEF FreeUnits, SiteRow, SiteStatus, Absent
<1>4. HoldOf[r] = Ledger!Unused
  BY <1>1 DEF HoldOf, Ledger!Unused
<1>5. HoldOf' = [HoldOf EXCEPT ![r] = [state |-> "live", site |-> s, units |-> u]]
  <2>1. reservation'[r] = row /\ \A x \in Reservations \ {r} : reservation'[x] = reservation[x]
    BY <1>0, <1>1 DEF TypeOK
  <2>2. HoldOf'[r] = [state |-> "live", site |-> s, units |-> u]
    BY <2>1 DEF HoldOf, UnitsOf, HoldsCapacity, Absent
  <2>3. \A x \in Reservations \ {r} : HoldOf'[x] = HoldOf[x]
    BY <2>1 DEF HoldOf, UnitsOf
  <2>4. /\ HoldOf = [x \in Reservations |-> HoldOf[x]]
        /\ HoldOf' = [x \in Reservations |-> HoldOf'[x]]
    BY DEF HoldOf
  <2>5. QED
    BY <2>2, <2>3, <2>4
<1>6. FreeUnits' = [FreeUnits EXCEPT ![s] = @ - u]
  <2>1. /\ site'[s] \in SiteRow /\ site'[s].available = site[s].available - u
        /\ \A z \in Sites \ {s} : site'[z] = site[z]
    BY <1>0, <1>1, <1>2 DEF ClaimUnits, TypeOK, SiteRow, Version
  <2>2. FreeUnits'[s] = FreeUnits[s] - u
    BY <1>3, <2>1 DEF FreeUnits, SiteRow, SiteStatus, Absent
  <2>3. \A z \in Sites \ {s} : FreeUnits'[z] = FreeUnits[z]
    BY <2>1 DEF FreeUnits
  <2>4. QED
    BY <2>2, <2>3 DEF FreeUnits
<1>7. Ledger!Claim(r, s, u)
  BY <1>4, <1>5, <1>6 DEF Ledger!Claim
<1>8. QED
  BY <1>3, <1>7

\* Whichever transaction ends a reservation gives back what it claimed.
LEMMA EndReturns ==
  ASSUME Typed, NEW r \in Reservations, NEW next \in {"released", "expired"},
         reservation[r] # Absent, HoldsCapacity(reservation[r].status),
         MoveReservation(r, next), ReturnUnits(r)
  PROVE  Ledger!Return(r)
<1>0. TypeOK
  BY DEF Typed
<1>1. reservation[r] \in ReservationRow
  BY <1>0 DEF TypeOK
<1> PICK s \in Sites, c \in Scenarios, u \in Nat :
      /\ s = reservation[r].site /\ c = reservation[r].scenario /\ u = Units[c]
      /\ site[s] \in SiteRow
  BY <1>0, <1>1, LaunchpadAssumption DEF Typed, TypeOK, ReservedSiteExists, ReservationRow
<1>2. HoldOf[r] = [state |-> "live", site |-> s, units |-> u]
  BY DEF HoldOf, UnitsOf
<1>3. HoldOf' = [HoldOf EXCEPT ![r].state = "returned"]
  <2>1. /\ Ended(reservation[r], reservation'[r])
        /\ \A x \in Reservations \ {r} : reservation'[x] = reservation[x]
    BY <1>0, MoveReservationEnds
  <2>2. HoldOf'[r] = [state |-> "returned", site |-> s, units |-> u]
    BY <2>1 DEF HoldOf, UnitsOf, Ended, ReservationRow, ReservationStatus, Absent
  <2>3. \A x \in Reservations \ {r} : HoldOf'[x] = HoldOf[x]
    BY <2>1 DEF HoldOf, UnitsOf
  <2>4. [HoldOf[r] EXCEPT !.state = "returned"] = HoldOf'[r]
    BY <1>2, <2>2
  <2>5. QED
    BY <2>3, <2>4 DEF HoldOf
<1>4. FreeUnits' = [FreeUnits EXCEPT ![s] = @ + u]
  <2>1. /\ site'[s] \in SiteRow /\ site'[s].available = site[s].available + u
        /\ \A z \in Sites \ {s} : site'[z] = site[z]
    BY <1>0 DEF ReturnUnits, UnitsOf, TypeOK, SiteRow, Version
  <2>2. FreeUnits'[s] = FreeUnits[s] + u
    BY <2>1 DEF FreeUnits, SiteRow, SiteStatus, Absent
  <2>3. \A z \in Sites \ {s} : FreeUnits'[z] = FreeUnits[z]
    BY <2>1 DEF FreeUnits
  <2>4. QED
    BY <2>2, <2>3 DEF FreeUnits
<1>5. QED
  BY <1>2, <1>3, <1>4 DEF Ledger!Return

\* Steps that leave reservations alone leave the units of every site alone.
LEMMA OthersStutter ==
  ASSUME Typed, [Next]_vars,
         \A t \in Threads : /\ ~CommitReturn(t) /\ ~CommitStopDeployment(t)
                            /\ \A r \in Reservations : ~CommitReserveCapacity(t, r)
  PROVE  UNCHANGED <<FreeUnits, HoldOf>>
<1>0. TypeOK
  BY DEF Typed
<1>1. ASSUME NEW s \in Sites, CreateSite(s)
      PROVE  UNCHANGED <<FreeUnits, HoldOf>>
  <2>1. FreeUnits'[s] = FreeUnits[s]
    BY <1>0, <1>1 DEF CreateSite, FreeUnits, TypeOK, Absent
  <2>2. \A z \in Sites \ {s} : FreeUnits'[z] = FreeUnits[z]
    BY <1>0, <1>1 DEF CreateSite, FreeUnits, TypeOK
  <2>3. UNCHANGED FreeUnits
    BY <2>1, <2>2 DEF FreeUnits
  <2>4. UNCHANGED HoldOf
    BY <1>1 DEF CreateSite, HoldOf, UnitsOf
  <2>5. QED
    BY <2>3, <2>4
<1>2. ASSUME NEW t \in Threads, CommitReviewSite(t) \/ CommitTransitionSite(t)
      PROVE  UNCHANGED <<FreeUnits, HoldOf>>
  <2> PICK s \in Sites, next \in SiteStatus, version \in Version :
        s = call[t].site /\ version = call[t].version /\ next = call[t].next
    BY <1>0, <1>2, CallShapes DEF CommitReviewSite, CommitTransitionSite, SiteCall
  <2>1. site[s].version = version /\ MoveSite(s, next)
    BY <1>2 DEF CommitReviewSite, CommitTransitionSite, SiteUnmoved
  <2>2. site[s] \in SiteRow
    BY <1>0, <2>1 DEF TypeOK, Absent, Version
  <2>3. /\ site'[s] # Absent /\ site'[s].available = site[s].available
        /\ \A z \in Sites \ {s} : site'[z] = site[z]
    BY <1>0, <2>1, <2>2 DEF MoveSite, TypeOK, SiteRow, Absent, Version
  <2>4. \A z \in Sites : FreeUnits'[z] = FreeUnits[z]
    BY <2>2, <2>3 DEF FreeUnits, SiteRow, Absent, SiteStatus
  <2>5. UNCHANGED FreeUnits
    BY <2>4 DEF FreeUnits
  <2>6. UNCHANGED HoldOf
    BY <1>2 DEF CommitReviewSite, CommitTransitionSite, HoldOf, UnitsOf
  <2>7. QED
    BY <2>5, <2>6
<1>3. ASSUME UNCHANGED <<site, reservation>>
      PROVE  UNCHANGED <<FreeUnits, HoldOf>>
  BY <1>3 DEF FreeUnits, HoldOf, UnitsOf
<1>4. \A t \in Threads :
        \/ CommitStartScenarioReview(t) \/ CommitDecideScenario(t)
        \/ CommitCreateDeployment(t) \/ CommitAdvance(t) \/ Abandon(t) \/ ReadStep(t)
        => UNCHANGED <<site, reservation>>
  BY <1>0, ReadStepTyped
  DEF CommitStartScenarioReview, CommitDecideScenario, CommitCreateDeployment,
    CommitAdvance, Abandon, tables
<1>5. (\E c \in Scenarios : SubmitScenario(c)) \/ (\E x \in Reservations : ReachExpiry(x))
        \/ UNCHANGED vars => UNCHANGED <<site, reservation>>
  BY DEF SubmitScenario, ReachExpiry, vars, tables
<1>6. QED
  BY <1>1, <1>2, <1>3, <1>4, <1>5 DEF Next, CommitStep

\* Every step of the launchpad is a step of the ledger or leaves it alone.
LEMMA LedgerStep == Typed /\ [Next]_vars => [Ledger!Next]_(Ledger!vars)
<1> SUFFICES ASSUME Typed, [Next]_vars PROVE [Ledger!Next]_(Ledger!vars)
  OBVIOUS
<1>0. TypeOK
  BY DEF Typed
<1>1. ASSUME NEW t \in Threads, NEW r \in Reservations, CommitReserveCapacity(t, r)
      PROVE  Ledger!Next
  BY <1>1, ReserveClaims DEF Ledger!Next
<1>2. ASSUME NEW t \in Threads, CommitReturn(t)
      PROVE  Ledger!Next
  <2>1. PICK r \in Reservations, version \in Version, next \in {"released", "expired"} :
          r = call[t].reservation /\ version = call[t].version /\ next = call[t].next
    BY <1>0, <1>2, CallShapes DEF CommitReturn, ReturnCall
  <2>2. /\ reservation[r] # Absent /\ HoldsCapacity(reservation[r].status)
        /\ MoveReservation(r, next) /\ ReturnUnits(r)
    BY <1>2, <2>1 DEF CommitReturn, Returnable, Absent, Version
  <2>3. QED
    BY <2>2, EndReturns DEF Ledger!Next
<1>3. ASSUME NEW t \in Threads, CommitStopDeployment(t)
      PROVE  Ledger!Next
  <2>1. PICK r \in Reservations : r = call[t].reservation
    BY <1>0, <1>3, CallShapes DEF CommitStopDeployment, StopCall
  <2>2. /\ reservation[r] # Absent /\ HoldsCapacity(reservation[r].status)
        /\ MoveReservation(r, "released") /\ ReturnUnits(r)
    BY <1>3, <2>1 DEF CommitStopDeployment, Absent, HoldsCapacity
  <2>3. QED
    BY <2>2, EndReturns DEF Ledger!Next
<1>4. QED
  BY <1>1, <1>2, <1>3, OthersStutter DEF Ledger!vars

\* The launchpad implements the capacity ledger.
THEOREM CapacityRefinement == Spec => ImplementsLedger
<1>1. Typed /\ [Next]_vars => [Ledger!Next]_(Ledger!vars)
  BY LedgerStep
<1>2. QED
  BY <1>1, LedgerInit, Typing, PTL DEF Spec, ImplementsLedger, Ledger!Spec

-----------------------------------------------------------------------------
(* Conservation *)

\* Well-formed tables are a well-formed ledger.
LEMMA LedgerTyped == Typed => LedgerFacts!TypeOK
<1> SUFFICES ASSUME Typed PROVE LedgerFacts!TypeOK
  OBVIOUS
<1>1. FreeUnits \in [Sites -> Nat]
  BY LaunchpadAssumption DEF Typed, TypeOK, FreeUnits, SiteRow
<1>2. HoldOf \in [Reservations -> {LedgerFacts!Unused} \cup LedgerFacts!Hold]
  <2>1. ASSUME NEW r \in Reservations, reservation[r] # Absent
        PROVE  reservation[r].site \in Sites /\ UnitsOf(r) \in Nat \ {0}
    BY <2>1, LaunchpadAssumption DEF Typed, TypeOK, ReservationRow, UnitsOf
  <2>2. QED
    BY <2>1 DEF HoldOf, LedgerFacts!Unused, LedgerFacts!Hold
<1>3. QED
  BY <1>1, <1>2 DEF LedgerFacts!TypeOK

\* The instances of FiniteSets under the two names are the one FiniteSets.
LEMMA OneFiniteSets ==
  /\ \A S : LedgerFacts!IsFiniteSet(S) <=> IsFiniteSet(S)
  /\ \A S : LedgerFacts!Cardinality(S) = Ledger!Cardinality(S)
<1>1. \A S : LedgerFacts!IsFiniteSet(S) <=> IsFiniteSet(S)
  BY DEF LedgerFacts!IsFiniteSet, IsFiniteSet
<1>2. \A S : LedgerFacts!Cardinality(S) = Ledger!Cardinality(S)
  BY DEF LedgerFacts!Cardinality, Ledger!Cardinality
<1>3. QED
  BY <1>1, <1>2

\* No oversell and no leak of capacity.
THEOREM CapacityAlwaysConserved == Spec => []CapacityConserved
<1>1. Ledger!Init => LedgerFacts!Init
  BY DEF Ledger!Init, LedgerFacts!Init, Ledger!Unused, LedgerFacts!Unused
<1>2. [Ledger!Next]_(Ledger!vars) => [LedgerFacts!Next]_(LedgerFacts!vars)
  BY DEF Ledger!Next, LedgerFacts!Next, Ledger!vars, LedgerFacts!vars, Ledger!Claim,
    LedgerFacts!Claim, Ledger!Return, LedgerFacts!Return, Ledger!Unused, LedgerFacts!Unused
<1>3. LedgerFacts!Conserved <=> CapacityConserved
  <2>1. /\ \A r, s : LedgerFacts!LiveAt(r, s) <=> Ledger!LiveAt(r, s)
        /\ \A s : LedgerFacts!Claims(s) = Ledger!Claims(s)
    BY DEF LedgerFacts!Claims, Ledger!Claims, LedgerFacts!LiveAt, Ledger!LiveAt,
      Ledger!Unused, LedgerFacts!Unused
  <2>2. QED
    BY <2>1, OneFiniteSets DEF LedgerFacts!Conserved, CapacityConserved, Ledger!Conserved
<1>4. LedgerFacts!LedgerAssumption
  BY OneFiniteSets, LaunchpadAssumption DEF LedgerFacts!LedgerAssumption
<1>5. Ledger!Init => CapacityConserved
  BY <1>1, <1>3, <1>4, LedgerFacts!ConservedInit
<1>6. Typed /\ Typed' /\ CapacityConserved /\ [Next]_vars => CapacityConserved'
  <2>1. LedgerFacts!TypeOK /\ LedgerFacts!TypeOK' /\ LedgerFacts!Conserved
        /\ [LedgerFacts!Next]_(LedgerFacts!vars) => LedgerFacts!Conserved'
    BY <1>4, LedgerFacts!ConservedStep
  <2>2. Typed' => LedgerFacts!TypeOK'
    BY LedgerTyped, PTL
  <2>3. (LedgerFacts!Conserved)' <=> CapacityConserved'
    BY <1>3, PTL
  <2>4. QED
    BY <1>2, <1>3, <2>1, <2>2, <2>3, LedgerStep, LedgerTyped
<1>7. QED
  BY <1>5, <1>6, LedgerInit, Typing, PTL DEF Spec

\* The units of a hold are counted by their number.
LEMMA UnitsFinite ==
  ASSUME NEW n \in Nat
  PROVE  IsFiniteSet(1 .. n) /\ Cardinality(1 .. n) = n
BY FS_Interval

\* The units a reservation holds are among those missing from available_units.
LEMMA ConservedFits == Typed /\ CapacityConserved => ReturnAlwaysFits
<1> SUFFICES ASSUME Typed, CapacityConserved,
                    NEW r \in Reservations, HoldsCapacity(reservation[r].status)
             PROVE  site[reservation[r].site].available + UnitsOf(r)
                      <= Total[reservation[r].site]
  BY DEF ReturnAlwaysFits
<1>1. reservation[r] \in ReservationRow
  BY DEF Typed, TypeOK, HoldsCapacity, Absent
<1> PICK s \in Sites, c \in Scenarios, u \in Nat :
      /\ s = reservation[r].site /\ c = reservation[r].scenario /\ u = Units[c]
      /\ site[s] \in SiteRow
  BY <1>1, LaunchpadAssumption
  DEF Typed, TypeOK, ReservedSiteExists, ReservationRow, ReservationStatus, Absent
<1> DEFINE Block == {r} \X (1 .. u)
           Claimed == Ledger!Claims(s)
<1>2. Total[s] \in Nat /\ FreeUnits[s] = site[s].available /\ site[s].available \in Nat
  BY LaunchpadAssumption DEF FreeUnits, SiteRow, SiteStatus, Absent
<1>3. Ledger!LiveAt(r, s) /\ HoldOf[r].units = u
  BY <1>1
  DEF Ledger!LiveAt, Ledger!Unused, HoldOf, UnitsOf, ReservationRow, ReservationStatus, Absent
<1>4. u <= Total[s] /\ FreeUnits[s] + Ledger!Cardinality(Claimed) = Total[s]
  BY <1>3 DEF CapacityConserved, Ledger!Conserved
<1>5. Block \subseteq Claimed
  BY <1>2, <1>3, <1>4 DEF Ledger!Claims
<1>6. IsFiniteSet(Claimed)
  <2>1. IsFiniteSet(Reservations \X (1 .. Total[s]))
    <3>1. IsFiniteSet(1 .. Total[s])
      BY <1>2, UnitsFinite
    <3>2. QED
      BY <3>1, LaunchpadAssumption, FS_Product
  <2>2. Claimed \subseteq Reservations \X (1 .. Total[s])
    BY DEF Ledger!Claims
  <2>3. QED
    BY <2>1, <2>2, FS_Subset
<1>7. Cardinality(Block) = u
  <2>1. IsFiniteSet({r}) /\ Cardinality({r}) = 1
    BY FS_Singleton
  <2>2. IsFiniteSet(1 .. u) /\ Cardinality(1 .. u) = u
    BY UnitsFinite
  <2>3. Cardinality(Block) = Cardinality({r}) * Cardinality(1 .. u)
    BY <2>1, <2>2, FS_Product
  <2>4. QED
    BY <2>1, <2>2, <2>3
<1>8. u <= Cardinality(Claimed) /\ Cardinality(Claimed) \in Nat
  BY <1>5, <1>6, <1>7, FS_Subset, FS_CardinalityType
<1>9. Ledger!Cardinality(Claimed) = Cardinality(Claimed)
  BY DEF Ledger!Cardinality, Cardinality
<1>10. site[s].available + u <= Total[s]
  BY <1>2, <1>4, <1>8, <1>9
<1>11. QED
  BY <1>10 DEF UnitsOf

\* The total_units guard of the returning UPDATE never refuses, so capacity
\* that is held can always be given back.
THEOREM ReturnsAlwaysFit == Spec => []ReturnAlwaysFits
BY ConservedFits, Typing, CapacityAlwaysConserved, PTL

-----------------------------------------------------------------------------
(* What each transaction writes *)

\* One audit event, about o.
AuditedOnly(o) ==
  audit'[o] = audit[o] + 1 /\ \A p \in Objects \ {o} : audit'[p] = audit[p]

\* No review of a scenario.
NoDecision ==
  \A c \in Scenarios : \A decision \in Decisions :
    review'[<<"scenario", c, decision>>] = review[<<"scenario", c, decision>>]

\* An audit event about an object is about no other.
LEMMA AuditEffect ==
  ASSUME TypeOK, NEW kind, NEW id, <<kind, id>> \in Objects, Audited(kind, id)
  PROVE  AuditedOnly(<<kind, id>>)
BY DEF TypeOK, Audited, AuditedOnly

\* One review, of the given kind, object and decision.
LEMMA ReviewEffect ==
  ASSUME TypeOK, NEW kind, NEW id, NEW decision, <<kind, id, decision>> \in Verdicts,
         Reviewed(kind, id, decision)
  PROVE  /\ review'[<<kind, id, decision>>] = review[<<kind, id, decision>>] + 1
         /\ \A v \in Verdicts \ {<<kind, id, decision>>} : review'[v] = review[v]
BY DEF TypeOK, Reviewed

\* A site is reviewed, as a draft, or moved.
SiteMoved(s) ==
  /\ site[s] \in SiteRow /\ site'[s] \in SiteRow
  /\ site'[s].version = site[s].version + 1 /\ site'[s].status # "draft"
  /\ \A z \in Sites \ {s} : site'[z] = site[z]
  /\ AuditedOnly(<<"site", s>>) /\ NoDecision
  /\ \A z \in Sites \ {s} : SiteReviews(z)' = SiteReviews(z)
  /\ \/ SiteReviews(s)' = SiteReviews(s)
     \/ site[s].status = "draft" /\ SiteReviews(s)' = SiteReviews(s) + 1
  /\ UNCHANGED <<scenario, reservation, deployment, job>>

\* Both commits that move a site move one site.
LEMMA SiteEffect ==
  ASSUME Locked, NEW t \in Threads, CommitReviewSite(t) \/ CommitTransitionSite(t)
  PROVE  \E s \in Sites : SiteMoved(s)
<1>0. TypeOK
  BY DEF Locked, Typed
<1> PICK q \in SiteCall : q = call[t]
  BY <1>0, CallShapes DEF CommitReviewSite, CommitTransitionSite
<1> PICK s \in Sites, next \in SiteStatus, version \in Version :
      s = q.site /\ next = q.next /\ version = q.version
  BY DEF SiteCall
<1>1. /\ site[s].version = version
      /\ site' = [site EXCEPT ![s].status = next, ![s].version = @ + 1]
      /\ UNCHANGED <<scenario, reservation, deployment, job>>
      /\ Audited("site", s)
  BY DEF CommitReviewSite, CommitTransitionSite, SiteUnmoved, MoveSite
<1>2. site[s] \in SiteRow /\ next # "draft"
  BY <1>0, <1>1 DEF TypeOK, Absent, Version, Locked, Ready, SiteReady, SiteCanMove
<1>3. /\ site'[s] \in SiteRow /\ site'[s].version = site[s].version + 1
      /\ site'[s].status # "draft"
      /\ \A z \in Sites \ {s} : site'[z] = site[z]
  BY <1>0, <1>1, <1>2 DEF TypeOK, SiteRow, Version
<1>4. /\ NoDecision
      /\ \A z \in Sites \ {s} : SiteReviews(z)' = SiteReviews(z)
      /\ \/ SiteReviews(s)' = SiteReviews(s)
         \/ site[s].status = "draft" /\ SiteReviews(s)' = SiteReviews(s) + 1
  <2>1. CASE CommitReviewSite(t)
    <3>1. PICK decision \in Decisions : Reviewed("site", s, decision)
      BY <2>1 DEF CommitReviewSite, Decisions
    <3>2. <<"site", s, decision>> \in Verdicts /\ site[s].status = "draft"
      BY <2>1 DEF CommitReviewSite, Verdicts
    <3>3. /\ review'[<<"site", s, decision>>] = review[<<"site", s, decision>>] + 1
          /\ \A v \in Verdicts \ {<<"site", s, decision>>} : review'[v] = review[v]
      BY <1>0, <3>1, <3>2, ReviewEffect
    <3>4. NoDecision
      BY <3>3 DEF NoDecision, Verdicts
    <3>5. \A z \in Sites \ {s} : SiteReviews(z)' = SiteReviews(z)
      BY <3>3 DEF SiteReviews, Verdicts, Decisions
    <3>6. /\ review[<<"site", s, "approved">>] \in Nat
          /\ review[<<"site", s, "rejected">>] \in Nat
      BY <1>0 DEF TypeOK, Verdicts, Decisions
    <3>7. CASE decision = "approved"
      <4>1. review'[<<"site", s, "rejected">>] = review[<<"site", s, "rejected">>]
        BY <3>3, <3>7 DEF Verdicts, Decisions
      <4> QED
        BY <3>2, <3>3, <3>4, <3>5, <3>6, <3>7, <4>1 DEF SiteReviews
    <3>8. CASE decision = "rejected"
      <4>1. review'[<<"site", s, "approved">>] = review[<<"site", s, "approved">>]
        BY <3>3, <3>8 DEF Verdicts, Decisions
      <4> QED
        BY <3>2, <3>3, <3>4, <3>5, <3>6, <3>8, <4>1 DEF SiteReviews
    <3> QED
      BY <3>7, <3>8 DEF Decisions
  <2>2. CASE CommitTransitionSite(t)
    BY <2>2 DEF CommitTransitionSite, NoDecision, SiteReviews
  <2> QED
    BY <2>1, <2>2
<1>5. AuditedOnly(<<"site", s>>)
  BY <1>0, <1>1, AuditEffect DEF Objects
<1> QED
  BY <1>1, <1>2, <1>3, <1>4, <1>5 DEF SiteMoved

\* A scenario makes a move of its lifecycle; its decision is on record.
ScenarioMoved(c) ==
  /\ scenario[c] \in ScenarioRow /\ scenario'[c] \in ScenarioRow
  /\ scenario'[c].version = scenario[c].version + 1
  /\ ScenarioCanMove(scenario[c].status, scenario'[c].status)
  /\ \A z \in Scenarios \ {c} : scenario'[z] = scenario[z]
  /\ AuditedOnly(<<"scenario", c>>)
  /\ \A z \in Scenarios : \A decision \in Decisions :
       review'[<<"scenario", z, decision>>] = review[<<"scenario", z, decision>>]
         + (IF z = c /\ decision = scenario'[c].status THEN 1 ELSE 0)
  /\ \A z \in Sites : SiteReviews(z)' = SiteReviews(z)
  /\ UNCHANGED <<site, reservation, deployment, job>>

\* Both commits that move a scenario move one scenario.
LEMMA ScenarioEffect ==
  ASSUME Locked, NEW t \in Threads, CommitStartScenarioReview(t) \/ CommitDecideScenario(t)
  PROVE  \E c \in Scenarios : ScenarioMoved(c)
<1>0. TypeOK
  BY DEF Locked, Typed
<1> PICK q \in ScenarioCall : q = call[t]
  BY <1>0, CallShapes DEF CommitStartScenarioReview, CommitDecideScenario
<1> PICK c \in Scenarios, version \in Version : c = q.scenario /\ version = q.version
  BY DEF ScenarioCall
<1>1. UpdateScenario(c, q.next, version) /\ Audited("scenario", c)
      /\ UNCHANGED <<site, reservation, deployment, job>>
  BY DEF CommitStartScenarioReview, CommitDecideScenario
<1>2. scenario[c] \in ScenarioRow /\ ScenarioCanMove(scenario[c].status, q.next)
  BY <1>0, <1>1 DEF UpdateScenario, TypeOK, Absent, Version, Locked, Ready, ScenarioReady
<1>3. q.next \in ScenarioStatus
  BY DEF ScenarioCall, ScenarioStatus, Decisions
<1>4. /\ scenario'[c] \in ScenarioRow /\ scenario'[c].status = q.next
      /\ scenario'[c].version = scenario[c].version + 1
      /\ \A z \in Scenarios \ {c} : scenario'[z] = scenario[z]
  BY <1>0, <1>1, <1>2, <1>3 DEF UpdateScenario, TypeOK, ScenarioRow, Version
<1>5. /\ \A z \in Scenarios : \A decision \in Decisions :
           review'[<<"scenario", z, decision>>] = review[<<"scenario", z, decision>>]
             + (IF z = c /\ decision = q.next THEN 1 ELSE 0)
      /\ \A z \in Sites : SiteReviews(z)' = SiteReviews(z)
  <2>0. \A z \in Scenarios : \A decision \in Decisions :
          <<"scenario", z, decision>> \in Verdicts /\ review[<<"scenario", z, decision>>] \in Nat
    BY <1>0 DEF TypeOK, Verdicts
  <2>1. CASE CommitStartScenarioReview(t)
    <3>1. q.next = "reviewing" /\ UNCHANGED review
      BY <2>1 DEF CommitStartScenarioReview, ScenarioCall
    <3> QED
      BY <2>0, <3>1 DEF Decisions, SiteReviews
  <2>2. CASE CommitDecideScenario(t)
    <3>1. Reviewed("scenario", c, q.next) /\ q.next \in Decisions
      BY <2>2 DEF CommitDecideScenario, ScenarioCall
    <3>2. /\ review'[<<"scenario", c, q.next>>] = review[<<"scenario", c, q.next>>] + 1
          /\ \A v \in Verdicts \ {<<"scenario", c, q.next>>} : review'[v] = review[v]
      BY <1>0, <2>0, <3>1, ReviewEffect
    <3>3. \A z \in Sites : SiteReviews(z)' = SiteReviews(z)
      BY <3>2 DEF SiteReviews, Verdicts, Decisions
    <3> QED
      BY <2>0, <3>2, <3>3
  <2> QED
    BY <2>1, <2>2
<1>6. AuditedOnly(<<"scenario", c>>)
  BY <1>0, <1>1, AuditEffect DEF Objects
<1> QED
  BY <1>1, <1>2, <1>4, <1>5, <1>6 DEF ScenarioMoved

\* Units of s are taken by a new reservation, r.
Reserved(r, s) ==
  /\ reservation[r] = Absent
  /\ reservation'[r] \in ReservationRow
  /\ reservation'[r].status = "confirmed" /\ reservation'[r].version = 1
  /\ reservation'[r].site = s
  /\ \A x \in Reservations \ {r} : reservation'[x] = reservation[x]
  /\ site[s] \in SiteRow /\ site'[s] \in SiteRow
  /\ site[s].status = "active"
  /\ site'[s].version = site[s].version + 1
  /\ \A z \in Sites \ {s} : site'[z] = site[z]
  /\ AuditedOnly(<<"reservation", r>>)
  /\ job' = job \cup {<<"expire_reservation", r>>}
  /\ UNCHANGED <<scenario, deployment, review>>

\* CommitReserveCapacity makes a reservation on an active site.
LEMMA ReserveEffect ==
  ASSUME Typed, NEW t \in Threads, NEW r \in Reservations, CommitReserveCapacity(t, r)
  PROVE  \E s \in Sites : Reserved(r, s)
<1>0. TypeOK
  BY DEF Typed
<1> PICK s \in Sites, c \in Scenarios : s = call[t].site /\ c = call[t].scenario
  BY <1>0, CallShapes DEF CommitReserveCapacity, ReserveCall
<1> DEFINE row == [status |-> "confirmed", version |-> 1, site |-> s, scenario |-> c]
<1>1. /\ reservation[r] = Absent /\ Claimable(s, Units[c]) /\ ClaimUnits(s, Units[c])
      /\ reservation' = [reservation EXCEPT ![r] = row]
      /\ job' = job \cup {<<"expire_reservation", r>>}
      /\ Audited("reservation", r)
      /\ UNCHANGED <<scenario, deployment, review>>
  BY DEF CommitReserveCapacity
<1>2. site[s] \in SiteRow /\ site[s].status = "active" /\ Units[c] \in Nat
      /\ Units[c] <= site[s].available
  BY <1>0, <1>1, LaunchpadAssumption DEF Claimable, TypeOK, Absent, SiteRow
<1>3. /\ site'[s] \in SiteRow /\ site'[s].version = site[s].version + 1
      /\ \A z \in Sites \ {s} : site'[z] = site[z]
  BY <1>0, <1>1, <1>2 DEF ClaimUnits, TypeOK, SiteRow, Version
<1>4. /\ reservation'[r] = row /\ row \in ReservationRow
      /\ \A x \in Reservations \ {r} : reservation'[x] = reservation[x]
  BY <1>0, <1>1 DEF TypeOK, ReservationRow, ReservationStatus, Version
<1>5. AuditedOnly(<<"reservation", r>>)
  BY <1>0, <1>1, AuditEffect DEF Objects
<1> QED
  BY <1>1, <1>2, <1>3, <1>4, <1>5 DEF Reserved

\* A reservation ends and gives its units back to its site.
Returned(r) ==
  /\ Ended(reservation[r], reservation'[r])
  /\ reservation'[r].version = reservation[r].version + 1
  /\ \A x \in Reservations \ {r} : reservation'[x] = reservation[x]
  /\ LET s == reservation[r].site IN
       /\ site[s] \in SiteRow /\ site'[s] \in SiteRow
       /\ site'[s].version = site[s].version + 1
       /\ \A z \in Sites \ {s} : site'[z] = site[z]

\* Returning the capacity of a reservation ends it and counts on its site.
LEMMA ReturnedEffect ==
  ASSUME Typed, NEW r \in Reservations, reservation[r] # Absent,
         HoldsCapacity(reservation[r].status),
         NEW next \in {"released", "expired"}, MoveReservation(r, next), ReturnUnits(r)
  PROVE  Returned(r) /\ reservation'[r].status = next
<1>0. TypeOK
  BY DEF Typed
<1>1. reservation[r] \in ReservationRow
  BY <1>0 DEF TypeOK
<1>2. /\ reservation'[r].version = reservation[r].version + 1
      /\ reservation'[r].status = next
  BY <1>0, <1>1 DEF MoveReservation, TypeOK, ReservationRow, Version
<1> PICK s \in Sites, u \in Nat :
      s = reservation[r].site /\ u = UnitsOf(r) /\ site[s] \in SiteRow
  BY <1>1, LaunchpadAssumption
  DEF Typed, TypeOK, ReservedSiteExists, ReservationRow, UnitsOf
<1>3. site' = [site EXCEPT ![s].available = @ + u, ![s].version = @ + 1]
  BY DEF ReturnUnits
<1>4. /\ site'[s] \in SiteRow /\ site'[s].version = site[s].version + 1
      /\ \A z \in Sites \ {s} : site'[z] = site[z]
  BY <1>0, <1>3 DEF TypeOK, SiteRow, Version
<1> QED
  BY <1>0, <1>2, <1>4, MoveReservationEnds DEF Returned

\* A release or an expiry is all that its commit does to the tables.
LEMMA ReturnEffect ==
  ASSUME Typed, NEW t \in Threads, CommitReturn(t)
  PROVE  \E r \in Reservations :
           Returned(r) /\ AuditedOnly(<<"reservation", r>>) /\ UNCHANGED <<scenario, deployment, review, job>>
<1>0. TypeOK
  BY DEF Typed
<1> PICK r \in Reservations, next \in {"released", "expired"}, version \in Version :
      r = call[t].reservation /\ next = call[t].next /\ version = call[t].version
  BY <1>0, CallShapes DEF CommitReturn, ReturnCall
<1>1. /\ reservation[r] # Absent /\ HoldsCapacity(reservation[r].status)
      /\ MoveReservation(r, next) /\ ReturnUnits(r) /\ Audited("reservation", r)
      /\ UNCHANGED <<scenario, deployment, review, job>>
  BY DEF CommitReturn, Returnable, Version, Absent
<1>2. AuditedOnly(<<"reservation", r>>)
  BY <1>0, <1>1, AuditEffect DEF Objects
<1> QED
  BY <1>1, <1>2, ReturnedEffect

\* A deployment moves, and the audit event is about it.
DeploymentMoved(r) ==
  /\ deployment[r] \in DeploymentRow /\ deployment'[r] \in DeploymentRow
  /\ deployment'[r].version = deployment[r].version + 1
  /\ DeploymentCanMove(deployment[r].status, deployment'[r].status)
  /\ \A x \in Reservations \ {r} : deployment'[x] = deployment[x]
  /\ AuditedOnly(<<"deployment", r>>)
  /\ UNCHANGED <<scenario, review, job>>

\* An audited UPDATE of a deployment moves that deployment.
LEMMA UpdateDeploymentEffect ==
  ASSUME Typed, NEW r \in Reservations, NEW next \in DeploymentStatus, NEW version \in Version,
         UpdateDeployment(r, next, version), DeploymentCanMove(deployment[r].status, next),
         Audited("deployment", r), UNCHANGED <<scenario, review, job>>
  PROVE  DeploymentMoved(r) /\ deployment'[r].status = next
<1>0. TypeOK
  BY DEF Typed
<1>1. deployment[r] \in DeploymentRow
  BY <1>0 DEF UpdateDeployment, TypeOK, Absent, Version
<1>2. /\ deployment'[r] \in DeploymentRow /\ deployment'[r].status = next
      /\ deployment'[r].version = deployment[r].version + 1
      /\ \A x \in Reservations \ {r} : deployment'[x] = deployment[x]
  BY <1>0, <1>1 DEF UpdateDeployment, TypeOK, DeploymentRow, Version
<1>3. AuditedOnly(<<"deployment", r>>)
  BY <1>0, AuditEffect DEF Objects
<1> QED
  BY <1>1, <1>2, <1>3 DEF DeploymentMoved

\* Any other move of a deployment moves it alone.
LEMMA AdvanceEffect ==
  ASSUME Locked, NEW t \in Threads, CommitAdvance(t)
  PROVE  \E r \in Reservations : DeploymentMoved(r) /\ UNCHANGED <<site, reservation>>
<1>0. TypeOK /\ Typed
  BY DEF Locked, Typed
<1> PICK q \in AdvanceCall : q = call[t]
  BY <1>0, CallShapes DEF CommitAdvance
<1> PICK r \in Reservations, version \in Version, next \in DeploymentStatus :
      r = q.reservation /\ version = q.version /\ next = q.next
  BY DEF AdvanceCall
<1>1. /\ UpdateDeployment(r, next, version) /\ Audited("deployment", r)
      /\ UNCHANGED <<site, scenario, reservation, review, job>>
  BY DEF CommitAdvance
<1>2. DeploymentCanMove(deployment[r].status, next)
  BY <1>1 DEF UpdateDeployment, Locked, Ready, AdvanceReady
<1> QED
  BY <1>0, <1>1, <1>2, UpdateDeploymentEffect

\* Stopping moves a deployment and ends its reservation.
LEMMA StopEffect ==
  ASSUME Locked, NEW t \in Threads, CommitStopDeployment(t)
  PROVE  \E r \in Reservations :
           /\ DeploymentMoved(r) /\ deployment'[r].status = "stopped"
           /\ Returned(r) /\ reservation'[r].status = "released"
<1>0. TypeOK /\ Typed
  BY DEF Locked, Typed
<1> PICK q \in StopCall : q = call[t]
  BY <1>0, CallShapes DEF CommitStopDeployment
<1> PICK r \in Reservations, version \in Version : r = q.reservation /\ version = q.version
  BY DEF StopCall
<1>1. /\ UpdateDeployment(r, "stopped", version) /\ Audited("deployment", r)
      /\ reservation[r].status = "confirmed"
      /\ MoveReservation(r, "released") /\ ReturnUnits(r)
      /\ UNCHANGED <<scenario, review, job>>
  BY DEF CommitStopDeployment
<1>2. DeploymentCanMove(deployment[r].status, "stopped")
  BY <1>1 DEF UpdateDeployment, DeploymentCanMove, Locked, Ready, StopReady
<1>3. reservation[r] # Absent /\ HoldsCapacity(reservation[r].status)
  BY <1>1 DEF Absent, HoldsCapacity
<1>4. DeploymentMoved(r) /\ deployment'[r].status = "stopped"
  BY <1>0, <1>1, <1>2, UpdateDeploymentEffect DEF DeploymentStatus
<1>5. Returned(r) /\ reservation'[r].status = "released"
  BY <1>0, <1>1, <1>3, ReturnedEffect
<1> QED
  BY <1>4, <1>5

\* A deployment of r is created.
Deployed(r) ==
  /\ deployment[r] = Absent
  /\ deployment' = [deployment EXCEPT ![r] = [status |-> "queued", version |-> 1]]
  /\ AuditedOnly(<<"deployment", r>>)
  /\ job' = job \cup {<<"activate_deployment", r>>}
  /\ UNCHANGED <<site, scenario, reservation, review>>

\* CommitCreateDeployment makes one deployment.
LEMMA DeployEffect ==
  ASSUME Typed, NEW t \in Threads, CommitCreateDeployment(t)
  PROVE  \E r \in Reservations : Deployed(r)
<1>0. TypeOK
  BY DEF Typed
<1> PICK r \in Reservations : r = call[t].reservation
  BY <1>0, CallShapes DEF CommitCreateDeployment, DeployCall
<1>1. Audited("deployment", r)
  BY DEF CommitCreateDeployment
<1>2. AuditedOnly(<<"deployment", r>>)
  BY <1>0, <1>1, AuditEffect DEF Objects
<1> QED
  BY <1>2 DEF CommitCreateDeployment, Deployed

\* Every step writes the tables in one of these ways.
LEMMA TableSteps ==
  ASSUME Locked, [Next]_vars
  PROVE  \/ UNCHANGED tables
         \/ \E s \in Sites : CreateSite(s) \/ SiteMoved(s)
         \/ \E c \in Scenarios : SubmitScenario(c) \/ ScenarioMoved(c)
         \/ \E r \in Reservations : \E s \in Sites : Reserved(r, s)
         \/ \E r \in Reservations :
              /\ Returned(r) /\ AuditedOnly(<<"reservation", r>>)
              /\ UNCHANGED <<scenario, deployment, review, job>>
         \/ \E r \in Reservations :
              \/ Deployed(r)
              \/ DeploymentMoved(r) /\ UNCHANGED <<site, reservation>>
              \/ /\ DeploymentMoved(r) /\ deployment'[r].status = "stopped"
                 /\ Returned(r) /\ reservation'[r].status = "released"
<1>0. TypeOK /\ Typed
  BY DEF Locked, Typed
<1>1. \/ UNCHANGED tables
      \/ \E s \in Sites : CreateSite(s)
      \/ \E c \in Scenarios : SubmitScenario(c)
      \/ \E t \in Threads : CommitStep(t)
  BY <1>0, ReadStepTyped DEF Next, ReachExpiry, Abandon, vars
<1> QED
  BY <1>0, <1>1, SiteEffect, ScenarioEffect, ReserveEffect, ReturnEffect, AdvanceEffect, StopEffect,
     DeployEffect DEF CommitStep

-----------------------------------------------------------------------------
(* Jobs and decisions *)

\* A job is inserted with the row it is about, and never without one.
LEMMA OutboxStep ==
  ASSUME Locked, OutboxComplete, [Next]_vars
  PROVE  OutboxComplete'
<1>0. TypeOK
  BY DEF Locked, Typed
<1> DEFINE Same ==
      /\ \A r \in Reservations : /\ reservation'[r] # Absent <=> reservation[r] # Absent
                                 /\ deployment'[r] # Absent <=> deployment[r] # Absent
      /\ job' = job
<1>1. ASSUME Same PROVE OutboxComplete'
  BY <1>1 DEF OutboxComplete
<1>2. \A row \in SiteRow \cup ScenarioRow \cup ReservationRow \cup DeploymentRow : row # Absent
  BY DEF SiteRow, ScenarioRow, ReservationRow, DeploymentRow, Version, Absent
<1>3. ASSUME NEW r \in Reservations, NEW s \in Sites, Reserved(r, s)
      PROVE  OutboxComplete'
  <2>1. {x \in Reservations : reservation'[x] # Absent}
          = {x \in Reservations : reservation[x] # Absent} \cup {r}
    BY <1>2, <1>3 DEF Reserved
  <2>2. deployment' = deployment /\ job' = job \cup {<<"expire_reservation", r>>}
    BY <1>3 DEF Reserved
  <2> QED
    BY <2>1, <2>2 DEF OutboxComplete
<1>4. ASSUME NEW r \in Reservations, Deployed(r)
      PROVE  OutboxComplete'
  <2>1. /\ deployment'[r] # Absent
        /\ \A x \in Reservations \ {r} : deployment'[x] = deployment[x]
    BY <1>0, <1>4 DEF Deployed, TypeOK, Absent
  <2>2. {x \in Reservations : deployment'[x] # Absent}
          = {x \in Reservations : deployment[x] # Absent} \cup {r}
    BY <2>1
  <2>3. reservation' = reservation /\ job' = job \cup {<<"activate_deployment", r>>}
    BY <1>4 DEF Deployed
  <2> QED
    BY <2>2, <2>3 DEF OutboxComplete
<1>5. ASSUME NEW r \in Reservations, Returned(r), UNCHANGED job,
             \/ UNCHANGED deployment
             \/ DeploymentMoved(r)
      PROVE  Same
  BY <1>2, <1>5 DEF Returned, Ended, DeploymentMoved
<1>6. ASSUME NEW r \in Reservations, DeploymentMoved(r), UNCHANGED reservation
      PROVE  Same
  BY <1>2, <1>6 DEF DeploymentMoved
<1>7. ASSUME \/ UNCHANGED tables
             \/ \E s \in Sites : CreateSite(s) \/ SiteMoved(s)
             \/ \E c \in Scenarios : SubmitScenario(c) \/ ScenarioMoved(c)
      PROVE  Same
  BY <1>7 DEF tables, CreateSite, SiteMoved, SubmitScenario, ScenarioMoved
<1>8. \A r \in Reservations : DeploymentMoved(r) => UNCHANGED job
  BY DEF DeploymentMoved
<1> HIDE DEF Same
<1> QED
  BY <1>1, <1>3, <1>4, <1>5, <1>6, <1>7, <1>8, TableSteps

\* Every reservation has the job that expires it and every deployment the one
\* that activates it, inserted in the same transaction; no other job exists.
THEOREM OutboxAlwaysComplete == Spec => []OutboxComplete
<1>1. Init => OutboxComplete
  BY DEF Init, OutboxComplete
<1>2. Locked /\ OutboxComplete /\ [Next]_vars => OutboxComplete'
  BY OutboxStep
<1> QED
  BY <1>1, <1>2, OptimisticLocking, PTL DEF Spec

\* A decision is recorded with the move it decides, and ends the lifecycle.
LEMMA ScenariosDecidedStep ==
  ASSUME Locked, ScenariosDecided, [Next]_vars
  PROVE  ScenariosDecided'
<1>0. TypeOK
  BY DEF Locked, Typed
<1>1. ASSUME UNCHANGED scenario, NoDecision PROVE ScenariosDecided'
  BY <1>1 DEF ScenariosDecided, NoDecision, Decisions
<1>2. ASSUME UNCHANGED review PROVE NoDecision
  BY <1>2 DEF NoDecision
<1>3. ASSUME NEW c \in Scenarios, SubmitScenario(c) PROVE ScenariosDecided'
  <2>1. /\ scenario[c].status = "absent" /\ scenario'[c].status = "submitted" /\ review' = review
        /\ \A z \in Scenarios \ {c} : scenario'[z] = scenario[z]
    BY <1>0, <1>3 DEF SubmitScenario, TypeOK, Absent
  <2> QED
    BY <2>1 DEF ScenariosDecided, Decisions
<1>4. ASSUME NEW c \in Scenarios, ScenarioMoved(c) PROVE ScenariosDecided'
  <2>1. scenario[c].status \notin Decisions
    BY <1>4 DEF ScenarioMoved, ScenarioCanMove, Decisions
  <2>2. ASSUME NEW z \in Scenarios, NEW decision \in Decisions
        PROVE  review'[<<"scenario", z, decision>>]
                 = IF scenario'[z].status = decision THEN 1 ELSE 0
    <3>1. /\ review[<<"scenario", z, decision>>] = IF scenario[z].status = decision THEN 1 ELSE 0
          /\ review'[<<"scenario", z, decision>>] = review[<<"scenario", z, decision>>]
               + (IF z = c /\ decision = scenario'[c].status THEN 1 ELSE 0)
          /\ z # c => scenario'[z] = scenario[z]
      BY <1>4 DEF ScenariosDecided, ScenarioMoved
    <3> QED
      BY <2>1, <3>1
  <2> QED
    BY <2>2 DEF ScenariosDecided, Decisions
<1>5. ASSUME NEW s \in Sites, CreateSite(s) \/ SiteMoved(s) PROVE UNCHANGED scenario /\ NoDecision
  BY <1>2, <1>5 DEF CreateSite, SiteMoved
<1>6. ASSUME NEW r \in Reservations,
             (\E s \in Sites : Reserved(r, s)) \/ Deployed(r) \/ DeploymentMoved(r)
      PROVE  UNCHANGED <<scenario, review>>
  BY <1>6 DEF Reserved, Deployed, DeploymentMoved
<1>7. UNCHANGED tables => UNCHANGED <<scenario, review>>
  BY DEF tables
<1> QED
  BY <1>1, <1>2, <1>3, <1>4, <1>5, <1>6, <1>7, TableSteps

\* A site that is not there or a draft after a step was so before it.
LEMMA DraftsAreNew ==
  ASSUME Locked, [Next]_vars, NEW s \in Sites, site'[s].status \in {"absent", "draft"}
  PROVE  site[s].status \in {"absent", "draft"}
<1>1. FollowsLifecycle(site[s], site'[s], SiteCanMove)
  BY LifecycleStep
<1> QED
  BY <1>1 DEF FollowsLifecycle, SiteCanMove, Absent

\* A review is of a draft, and a site is never a draft again.
LEMMA SitesReviewedStep ==
  ASSUME Locked, SitesReviewedOnce, [Next]_vars
  PROVE  SitesReviewedOnce'
<1>0. TypeOK
  BY DEF Locked, Typed
<1> SUFFICES ASSUME NEW s \in Sites
             PROVE  SiteReviews(s)' <= IF site'[s].status \in {"absent", "draft"} THEN 0 ELSE 1
  BY DEF SitesReviewedOnce
<1>1. SiteReviews(s) \in Nat /\ (site[s].status \in {"absent", "draft"} => SiteReviews(s) = 0)
      /\ SiteReviews(s) <= 1
  BY <1>0 DEF SitesReviewedOnce, SiteReviews, TypeOK, Verdicts, Decisions
<1>2. ASSUME SiteReviews(s)' = SiteReviews(s)
      PROVE  SiteReviews(s)' <= IF site'[s].status \in {"absent", "draft"} THEN 0 ELSE 1
  BY <1>1, <1>2, DraftsAreNew
<1>3. ASSUME SiteMoved(s), site[s].status = "draft", SiteReviews(s)' = SiteReviews(s) + 1
      PROVE  SiteReviews(s)' <= IF site'[s].status \in {"absent", "draft"} THEN 0 ELSE 1
  <2>1. site'[s].status \notin {"absent", "draft"}
    BY <1>3 DEF SiteMoved, SiteRow, SiteStatus
  <2> QED
    BY <1>1, <1>3, <2>1
<1>4. UNCHANGED review => SiteReviews(s)' = SiteReviews(s)
  BY DEF SiteReviews
<1>5. ASSUME NEW z \in Sites, CreateSite(z) \/ SiteMoved(z)
      PROVE  \/ SiteReviews(s)' = SiteReviews(s)
             \/ /\ SiteMoved(s) /\ site[s].status = "draft"
                /\ SiteReviews(s)' = SiteReviews(s) + 1
  BY <1>4, <1>5 DEF CreateSite, SiteMoved
<1>6. ASSUME NEW c \in Scenarios, SubmitScenario(c) \/ ScenarioMoved(c)
      PROVE  SiteReviews(s)' = SiteReviews(s)
  BY <1>4, <1>6 DEF SubmitScenario, ScenarioMoved
<1>7. ASSUME NEW r \in Reservations,
             (\E z \in Sites : Reserved(r, z)) \/ Deployed(r) \/ DeploymentMoved(r)
      PROVE  UNCHANGED review
  BY <1>7 DEF Reserved, Deployed, DeploymentMoved
<1>8. UNCHANGED tables => UNCHANGED review
  BY DEF tables
<1> QED
  BY <1>2, <1>3, <1>4, <1>5, <1>6, <1>7, <1>8, TableSteps

\* A decided scenario has the one review on record that decided it, and a site
\* has one at most, whatever reviewers race.
THEOREM DecisionsAlwaysRecorded == Spec => []DecisionsRecorded
<1>1. Init => DecisionsRecorded
  BY DEF Init, DecisionsRecorded, ScenariosDecided, SitesReviewedOnce, SiteReviews, Absent,
         Verdicts, Decisions
<1>2. Locked /\ DecisionsRecorded /\ [Next]_vars => DecisionsRecorded'
  BY ScenariosDecidedStep, SitesReviewedStep DEF DecisionsRecorded
<1> QED
  BY <1>1, <1>2, OptimisticLocking, PTL DEF Spec

-----------------------------------------------------------------------------
(* Capacity is taken on active sites *)

\* The UPDATE that takes units looks at the status of the site again.
THEOREM ReservedWhileActive == Spec => ReservedOnActiveSite
<1> DEFINE OnActive ==
      \A r \in Reservations :
        reservation[r] = Absent /\ reservation'[r] # Absent =>
          site[reservation'[r].site].status = "active"
<1>1. ASSUME Locked, [Next]_vars PROVE OnActive
  <2> SUFFICES ASSUME NEW r \in Reservations, reservation[r] = Absent, reservation'[r] # Absent
               PROVE  site[reservation'[r].site].status = "active"
    OBVIOUS
  <2>1. PICK t \in Threads : CommitReserveCapacity(t, r)
    BY <1>1, ReservationSteps DEF Locked, Ended, ReservationRow, Version, Absent
  <2>2. PICK s \in Sites : Reserved(r, s)
    BY <1>1, <2>1, ReserveEffect DEF Locked
  <2> QED
    BY <2>2 DEF Reserved
<1>2. Locked /\ [Next]_vars => [OnActive]_vars
  BY <1>1
<1> QED
  BY <1>2, OptimisticLocking, PTL DEF Spec, ReservedOnActiveSite

-----------------------------------------------------------------------------
(* Every change has its audit event *)

ReturnedOn(s) == {r \in ReservationsOn(s) : ~HoldsCapacity(reservation[r].status)}

\* The inductive form of ChangesAudited says of rows that do not exist that
\* there is no event about them.
SiteCounted(s) ==
  IF site[s] = Absent THEN audit[<<"site", s>>] = 0
  ELSE site[s].version = 1 + audit[<<"site", s>>]
                           + Cardinality(ReservationsOn(s)) + Cardinality(ReturnedOn(s))

ScenarioCounted(c) ==
  audit[<<"scenario", c>>] = IF scenario[c] = Absent THEN 0 ELSE scenario[c].version - 1

DeploymentCounted(r) == audit[<<"deployment", r>>] = deployment[r].version

ReservationCounted(r) ==
  \/ audit[<<"reservation", r>>] = reservation[r].version
  \/ /\ audit[<<"reservation", r>>] = reservation[r].version - 1
     /\ reservation[r].status = "released"
     /\ deployment[r].status = "stopped"

\* Every version is accounted for.
Counted ==
  /\ \A s \in Sites : SiteCounted(s)
  /\ \A c \in Scenarios : ScenarioCounted(c)
  /\ \A r \in Reservations : DeploymentCounted(r) /\ ReservationCounted(r)

\* Of the rows that exist, that is what ChangesAudited says.
LEMMA CountedAudited == Counted => ChangesAudited
BY DEF Counted, ChangesAudited, SiteCounted, ScenarioCounted, DeploymentCounted,
       ReservationCounted, ReturnedOn

\* Rows are not Absent, and objects of different kinds are different.
LEMMA RowsExist ==
  /\ \A row \in SiteRow \cup ScenarioRow \cup ReservationRow \cup DeploymentRow :
       row # Absent /\ row.version \in Nat
  /\ \A s \in Sites : <<"site", s>> \in Objects
  /\ \A c \in Scenarios : <<"scenario", c>> \in Objects
  /\ \A r \in Reservations : <<"reservation", r>> \in Objects /\ <<"deployment", r>> \in Objects
BY DEF SiteRow, ScenarioRow, ReservationRow, DeploymentRow, Version, Absent, Objects

\* A scenario that moves, and only that one, gets an event.
LEMMA ScenariosCountedStep ==
  ASSUME Locked, Counted, [Next]_vars, NEW c \in Scenarios
  PROVE  ScenarioCounted(c)'
<1>0. TypeOK
  BY DEF Locked, Typed
<1>1. audit[<<"scenario", c>>] \in Nat
  BY <1>0, RowsExist DEF TypeOK
<1>2. ASSUME scenario'[c] = scenario[c], audit'[<<"scenario", c>>] = audit[<<"scenario", c>>]
      PROVE  ScenarioCounted(c)'
  BY <1>2 DEF Counted, ScenarioCounted
<1>3. ASSUME NEW z \in Scenarios, SubmitScenario(z) PROVE ScenarioCounted(c)'
  <2>1. CASE z = c
    <3>1. scenario[c] = Absent /\ scenario'[c].version = 1 /\ scenario'[c].status = "submitted"
          /\ audit' = audit
      BY <1>0, <1>3, <2>1 DEF SubmitScenario, TypeOK
    <3> QED
      BY <3>1 DEF Counted, ScenarioCounted, Absent
  <2>2. CASE z # c
    <3>1. scenario'[c] = scenario[c] /\ audit' = audit
      BY <1>0, <1>3, <2>2 DEF SubmitScenario, TypeOK
    <3> QED
      BY <1>2, <3>1
  <2> QED
    BY <2>1, <2>2
<1>4. ASSUME NEW z \in Scenarios, ScenarioMoved(z) PROVE ScenarioCounted(c)'
  <2>1. CASE z = c
    <3>1. audit'[<<"scenario", c>>] = audit[<<"scenario", c>>] + 1
          /\ scenario'[c].version = scenario[c].version + 1
          /\ scenario[c] \in ScenarioRow /\ scenario'[c] \in ScenarioRow
      BY <1>4, <2>1 DEF ScenarioMoved, AuditedOnly
    <3> QED
      BY <1>1, <3>1, RowsExist DEF Counted, ScenarioCounted
  <2>2. CASE z # c
    <3>1. scenario'[c] = scenario[c] /\ audit'[<<"scenario", c>>] = audit[<<"scenario", c>>]
      BY <1>4, <2>2, RowsExist DEF ScenarioMoved, AuditedOnly
    <3> QED
      BY <1>2, <3>1
  <2> QED
    BY <2>1, <2>2
<1>5. ASSUME NEW kind \in {"site", "reservation", "deployment"}, NEW id, AuditedOnly(<<kind, id>>)
      PROVE  audit'[<<"scenario", c>>] = audit[<<"scenario", c>>]
  BY <1>5, RowsExist DEF AuditedOnly
<1>6. ASSUME NEW s \in Sites, CreateSite(s) \/ SiteMoved(s) PROVE ScenarioCounted(c)'
  BY <1>2, <1>5, <1>6 DEF CreateSite, SiteMoved
<1>7. ASSUME NEW r \in Reservations,
             \/ \E s \in Sites : Reserved(r, s)
             \/ Returned(r) /\ AuditedOnly(<<"reservation", r>>) /\ UNCHANGED scenario
             \/ Deployed(r) \/ DeploymentMoved(r)
      PROVE  ScenarioCounted(c)'
  BY <1>2, <1>5, <1>7 DEF Reserved, Deployed, DeploymentMoved
<1>8. CASE UNCHANGED tables
  BY <1>2, <1>8 DEF tables
<1> QED
  BY <1>3, <1>4, <1>6, <1>7, <1>8, TableSteps

\* So does a deployment, whose creation is an event as well.
LEMMA DeploymentsCountedStep ==
  ASSUME Locked, Counted, [Next]_vars, NEW r \in Reservations
  PROVE  DeploymentCounted(r)'
<1>0. TypeOK
  BY DEF Locked, Typed
<1>1. audit[<<"deployment", r>>] \in Nat
  BY <1>0, RowsExist DEF TypeOK
<1>2. ASSUME deployment'[r] = deployment[r], audit'[<<"deployment", r>>] = audit[<<"deployment", r>>]
      PROVE  DeploymentCounted(r)'
  BY <1>2 DEF Counted, DeploymentCounted
<1>3. ASSUME NEW x \in Reservations, Deployed(x) PROVE DeploymentCounted(r)'
  <2>1. CASE x = r
    <3>1. deployment[r] = Absent /\ deployment'[r].version = 1
          /\ audit'[<<"deployment", r>>] = audit[<<"deployment", r>>] + 1
      BY <1>0, <1>3, <2>1 DEF Deployed, AuditedOnly, TypeOK
    <3> QED
      BY <3>1 DEF Counted, DeploymentCounted, Absent
  <2>2. CASE x # r
    <3>1. deployment'[r] = deployment[r] /\ audit'[<<"deployment", r>>] = audit[<<"deployment", r>>]
      BY <1>0, <1>3, <2>2, RowsExist DEF Deployed, AuditedOnly, TypeOK
    <3> QED
      BY <1>2, <3>1
  <2> QED
    BY <2>1, <2>2
<1>4. ASSUME NEW x \in Reservations, DeploymentMoved(x) PROVE DeploymentCounted(r)'
  <2>1. CASE x = r
    <3>1. audit'[<<"deployment", r>>] = audit[<<"deployment", r>>] + 1
          /\ deployment'[r].version = deployment[r].version + 1
      BY <1>4, <2>1 DEF DeploymentMoved, AuditedOnly
    <3> QED
      BY <3>1 DEF Counted, DeploymentCounted
  <2>2. CASE x # r
    <3>1. deployment'[r] = deployment[r] /\ audit'[<<"deployment", r>>] = audit[<<"deployment", r>>]
      BY <1>4, <2>2, RowsExist DEF DeploymentMoved, AuditedOnly
    <3> QED
      BY <1>2, <3>1
  <2> QED
    BY <2>1, <2>2
<1>5. ASSUME NEW kind \in {"site", "reservation", "scenario"}, NEW id, AuditedOnly(<<kind, id>>)
      PROVE  audit'[<<"deployment", r>>] = audit[<<"deployment", r>>]
  BY <1>5, RowsExist DEF AuditedOnly
<1>6. ASSUME \/ \E s \in Sites : CreateSite(s) \/ SiteMoved(s)
             \/ \E c \in Scenarios : SubmitScenario(c) \/ ScenarioMoved(c)
      PROVE  DeploymentCounted(r)'
  BY <1>2, <1>5, <1>6 DEF CreateSite, SiteMoved, SubmitScenario, ScenarioMoved
<1>7. ASSUME NEW x \in Reservations,
             \/ \E s \in Sites : Reserved(x, s)
             \/ AuditedOnly(<<"reservation", x>>) /\ UNCHANGED deployment
      PROVE  DeploymentCounted(r)'
  BY <1>2, <1>5, <1>7 DEF Reserved
<1>8. CASE UNCHANGED tables
  BY <1>2, <1>8 DEF tables
<1> QED
  BY <1>3, <1>4, <1>6, <1>7, <1>8, TableSteps

\* The one change without an event of its own is the release that ends a stop,
\* and nothing follows it: both rows are at the end of their lifecycles.
LEMMA ReservationsCountedStep ==
  ASSUME Locked, Counted, [Next]_vars, NEW r \in Reservations
  PROVE  ReservationCounted(r)'
<1>0. TypeOK
  BY DEF Locked, Typed
<1>1. audit[<<"reservation", r>>] \in Nat /\ reservation[r].version \in Nat
  <2>1. audit[<<"reservation", r>>] \in Nat
    BY <1>0, RowsExist DEF TypeOK
  <2>2. reservation[r] = Absent \/ reservation[r] \in ReservationRow
    BY <1>0 DEF TypeOK
  <2>3. Absent.version \in Nat
    BY DEF Absent
  <2> QED
    BY <2>1, <2>2, <2>3, RowsExist
<1>2. deployment[r].status = "stopped" => deployment'[r].status = "stopped"
  BY LifecycleStep DEF FollowsLifecycle, DeploymentCanMove, Absent
<1>3. ASSUME reservation'[r] = reservation[r],
             audit'[<<"reservation", r>>] = audit[<<"reservation", r>>]
      PROVE  ReservationCounted(r)'
  BY <1>2, <1>3 DEF Counted, ReservationCounted
<1>4. ASSUME NEW x \in Reservations, NEW s \in Sites, Reserved(x, s) PROVE ReservationCounted(r)'
  <2>1. CASE x = r
    <3>1. reservation[r] = Absent /\ reservation'[r].version = 1
          /\ audit'[<<"reservation", r>>] = audit[<<"reservation", r>>] + 1
      BY <1>4, <2>1 DEF Reserved, AuditedOnly
    <3>2. audit[<<"reservation", r>>] = 0
      BY <3>1 DEF Counted, ReservationCounted, Absent
    <3> QED
      BY <3>1, <3>2 DEF ReservationCounted
  <2>2. CASE x # r
    <3>1. reservation'[r] = reservation[r]
          /\ audit'[<<"reservation", r>>] = audit[<<"reservation", r>>]
      BY <1>4, <2>2, RowsExist DEF Reserved, AuditedOnly
    <3> QED
      BY <1>3, <3>1
  <2> QED
    BY <2>1, <2>2
<1>5. ASSUME Returned(r) PROVE audit[<<"reservation", r>>] = reservation[r].version
  BY <1>5 DEF Returned, Ended, HoldsCapacity, Counted, ReservationCounted
<1>6. ASSUME NEW x \in Reservations, Returned(x), AuditedOnly(<<"reservation", x>>)
      PROVE  ReservationCounted(r)'
  <2>1. CASE x = r
    BY <1>1, <1>5, <1>6, <2>1 DEF Returned, AuditedOnly, ReservationCounted
  <2>2. CASE x # r
    <3>1. reservation'[r] = reservation[r]
          /\ audit'[<<"reservation", r>>] = audit[<<"reservation", r>>]
      BY <1>6, <2>2, RowsExist DEF Returned, AuditedOnly
    <3> QED
      BY <1>3, <3>1
  <2> QED
    BY <2>1, <2>2
<1>7. ASSUME NEW kind \in {"site", "deployment", "scenario"}, NEW id, AuditedOnly(<<kind, id>>)
      PROVE  audit'[<<"reservation", r>>] = audit[<<"reservation", r>>]
  BY <1>7, RowsExist DEF AuditedOnly
<1>8. ASSUME NEW x \in Reservations, DeploymentMoved(x), deployment'[x].status = "stopped",
             Returned(x), reservation'[x].status = "released"
      PROVE  ReservationCounted(r)'
  <2>1. audit'[<<"reservation", r>>] = audit[<<"reservation", r>>]
    BY <1>7, <1>8 DEF DeploymentMoved
  <2>2. CASE x = r
    BY <1>1, <1>5, <1>8, <2>1, <2>2 DEF Returned, ReservationCounted
  <2>3. CASE x # r
    BY <1>3, <1>8, <2>1, <2>3 DEF Returned
  <2> QED
    BY <2>2, <2>3
<1>9. ASSUME \/ \E s \in Sites : CreateSite(s) \/ SiteMoved(s)
             \/ \E c \in Scenarios : SubmitScenario(c) \/ ScenarioMoved(c)
      PROVE  ReservationCounted(r)'
  BY <1>3, <1>7, <1>9 DEF CreateSite, SiteMoved, SubmitScenario, ScenarioMoved
<1>10. ASSUME NEW x \in Reservations, Deployed(x) \/ DeploymentMoved(x), UNCHANGED reservation
       PROVE  ReservationCounted(r)'
  BY <1>3, <1>7, <1>10 DEF Deployed, DeploymentMoved
<1>11. CASE UNCHANGED tables
  BY <1>3, <1>11 DEF tables
<1>12. \A x \in Reservations : Deployed(x) => UNCHANGED reservation
  BY DEF Deployed
<1> QED
  BY <1>4, <1>6, <1>8, <1>9, <1>10, <1>11, <1>12, TableSteps
\* Both sets that the version of a site counts are finite.
LEMMA CountsFinite ==
  ASSUME NEW s \in Sites
  PROVE  /\ IsFiniteSet(ReservationsOn(s)) /\ IsFiniteSet(ReturnedOn(s))
         /\ Cardinality(ReservationsOn(s)) \in Nat /\ Cardinality(ReturnedOn(s)) \in Nat
<1>1. ReservationsOn(s) \subseteq Reservations /\ ReturnedOn(s) \subseteq Reservations
  BY DEF ReservationsOn, ReturnedOn
<1>2. IsFiniteSet(ReservationsOn(s)) /\ IsFiniteSet(ReturnedOn(s))
  BY <1>1, LaunchpadAssumption, FS_Subset
<1> QED
  BY <1>2, FS_CardinalityType

\* A new reservation is on its site and on no other, and has not ended.
LEMMA ReservedCounts ==
  ASSUME TypeOK, NEW r \in Reservations, NEW z \in Sites, Reserved(r, z), NEW s \in Sites
  PROVE  /\ Cardinality(ReservationsOn(s)') =
              Cardinality(ReservationsOn(s)) + (IF s = z THEN 1 ELSE 0)
         /\ Cardinality(ReturnedOn(s)') = Cardinality(ReturnedOn(s))
<1>1. ReservationsOn(s)' = ReservationsOn(s) \cup (IF s = z THEN {r} ELSE {})
  BY RowsExist DEF ReservationsOn, Reserved
<1>2. r \notin ReservationsOn(s)
  BY DEF ReservationsOn, Reserved
<1>3. ReturnedOn(s)' = ReturnedOn(s)
  <2>1. r \notin ReturnedOn(s)' /\ r \notin ReturnedOn(s)
    BY <1>2 DEF ReturnedOn, Reserved, HoldsCapacity
  <2>2. ASSUME NEW x \in Reservations \ {r}
        PROVE  x \in ReturnedOn(s)' <=> x \in ReturnedOn(s)
    BY <1>1 DEF ReturnedOn, Reserved
  <2>3. ReturnedOn(s) \subseteq Reservations /\ ReturnedOn(s)' \subseteq Reservations
    BY DEF ReturnedOn, ReservationsOn
  <2> QED
    BY <2>1, <2>2, <2>3
<1>4. Cardinality(ReservationsOn(s) \cup {r}) = Cardinality(ReservationsOn(s)) + 1
  BY <1>2, CountsFinite, FS_AddElement
<1>5. CASE s = z
  BY <1>1, <1>3, <1>4, <1>5
<1>6. CASE s # z
  <2>1. ReservationsOn(s)' = ReservationsOn(s)
    BY <1>1, <1>6
  <2> QED
    BY <1>3, <1>6, <2>1, CountsFinite
<1> QED
  BY <1>5, <1>6

\* One that ends stays on its site and has returned its units from then on.
LEMMA ReturnedCounts ==
  ASSUME TypeOK, NEW r \in Reservations, Returned(r), NEW s \in Sites
  PROVE  /\ Cardinality(ReservationsOn(s)') = Cardinality(ReservationsOn(s))
         /\ Cardinality(ReturnedOn(s)') =
              Cardinality(ReturnedOn(s)) + (IF s = reservation[r].site THEN 1 ELSE 0)
<1>1. ReservationsOn(s)' = ReservationsOn(s)
  BY RowsExist DEF ReservationsOn, Returned, Ended
<1>2. ReturnedOn(s)' = ReturnedOn(s) \cup (IF s = reservation[r].site THEN {r} ELSE {})
  <2>1. r \in ReservationsOn(s) <=> s = reservation[r].site
    BY RowsExist DEF ReservationsOn, Returned, Ended
  <2>2. ~HoldsCapacity(reservation'[r].status) /\ HoldsCapacity(reservation[r].status)
    BY DEF Returned, Ended, HoldsCapacity
  <2>3. r \in ReturnedOn(s)' <=> s = reservation[r].site
    BY <1>1, <2>1, <2>2 DEF ReturnedOn
  <2>4. r \notin ReturnedOn(s)
    BY <2>2 DEF ReturnedOn
  <2>5. ASSUME NEW x \in Reservations \ {r}
        PROVE  x \in ReturnedOn(s)' <=> x \in ReturnedOn(s)
    BY <1>1 DEF ReturnedOn, Returned, Ended
  <2>6. ReturnedOn(s) \subseteq Reservations /\ ReturnedOn(s)' \subseteq Reservations
    BY DEF ReturnedOn, ReservationsOn
  <2>7. CASE s = reservation[r].site
    BY <2>3, <2>4, <2>5, <2>6, <2>7
  <2>8. CASE s # reservation[r].site
    BY <2>3, <2>4, <2>5, <2>6, <2>8
  <2> QED
    BY <2>7, <2>8
<1>3. r \notin ReturnedOn(s)
  BY DEF ReturnedOn, Returned, Ended
<1>4. Cardinality(ReturnedOn(s) \cup {r}) = Cardinality(ReturnedOn(s)) + 1
  BY <1>3, CountsFinite, FS_AddElement
<1>5. CASE s = reservation[r].site
  BY <1>1, <1>2, <1>4, <1>5
<1>6. CASE s # reservation[r].site
  <2>1. ReturnedOn(s)' = ReturnedOn(s)
    BY <1>2, <1>6
  <2> QED
    BY <1>1, <1>6, <2>1, CountsFinite
<1> QED
  BY <1>5, <1>6

\* A site moves with its own events and with what is reserved and returned on it.
LEMMA SitesCountedStep ==
  ASSUME Locked, Counted, [Next]_vars, NEW s \in Sites
  PROVE  SiteCounted(s)'
<1>0. TypeOK /\ Typed
  BY DEF Locked, Typed
<1>1. /\ audit[<<"site", s>>] \in Nat
      /\ site[s] # Absent => site[s] \in SiteRow
      /\ \A row \in SiteRow : row # Absent /\ row.version \in Nat
  BY <1>0, RowsExist DEF TypeOK
<1>2. ASSUME UNCHANGED reservation
      PROVE  ReservationsOn(s)' = ReservationsOn(s) /\ ReturnedOn(s)' = ReturnedOn(s)
  BY <1>2 DEF ReservationsOn, ReturnedOn
<1>3. ASSUME site'[s] = site[s], audit'[<<"site", s>>] = audit[<<"site", s>>],
             Cardinality(ReservationsOn(s)') = Cardinality(ReservationsOn(s)),
             Cardinality(ReturnedOn(s)') = Cardinality(ReturnedOn(s))
      PROVE  SiteCounted(s)'
  BY <1>3 DEF Counted, SiteCounted
<1>4. ASSUME NEW z \in Sites, CreateSite(z) PROVE SiteCounted(s)'
  <2>0. audit' = audit /\ UNCHANGED reservation
    BY <1>4 DEF CreateSite
  <2>1. CASE z = s
    <3>1. /\ site[s] = Absent /\ site'[s].version = 1
          /\ site'[s].status = "draft"
      BY <1>0, <1>4, <2>1 DEF CreateSite, TypeOK
    <3>2. ReservationsOn(s) = {} /\ ReturnedOn(s) = {}
      BY <1>0, <3>1 DEF ReservationsOn, ReturnedOn, Typed, ReservedSiteExists
    <3>3. Cardinality(ReservationsOn(s)') = 0 /\ Cardinality(ReturnedOn(s)') = 0
      BY <1>2, <2>0, <3>2, FS_EmptySet
    <3>4. audit'[<<"site", s>>] = 0 /\ site'[s] # Absent
      BY <2>0, <3>1 DEF Counted, SiteCounted, Absent
    <3> QED
      BY <3>1, <3>3, <3>4 DEF SiteCounted
  <2>2. CASE z # s
    <3>1. site'[s] = site[s]
      BY <1>0, <1>4, <2>2 DEF CreateSite, TypeOK
    <3> QED
      BY <1>2, <1>3, <2>0, <3>1
  <2> QED
    BY <2>1, <2>2
<1>5. ASSUME NEW z \in Sites, SiteMoved(z) PROVE SiteCounted(s)'
  <2>0. ReservationsOn(s)' = ReservationsOn(s) /\ ReturnedOn(s)' = ReturnedOn(s)
    BY <1>2, <1>5 DEF SiteMoved
  <2>1. CASE z = s
    <3>1. /\ site[s] # Absent /\ site'[s] # Absent
          /\ site'[s].version = site[s].version + 1
          /\ audit'[<<"site", s>>] = audit[<<"site", s>>] + 1
      BY <1>1, <1>5, <2>1 DEF SiteMoved, AuditedOnly
    <3> QED
      BY <1>1, <2>0, <3>1, CountsFinite DEF Counted, SiteCounted
  <2>2. CASE z # s
    <3>1. site'[s] = site[s] /\ audit'[<<"site", s>>] = audit[<<"site", s>>]
      BY <1>5, <2>2, RowsExist DEF SiteMoved, AuditedOnly
    <3> QED
      BY <1>3, <2>0, <3>1
  <2> QED
    BY <2>1, <2>2
<1>6. ASSUME NEW kind \in {"scenario", "reservation", "deployment"}, NEW id,
             AuditedOnly(<<kind, id>>)
      PROVE  audit'[<<"site", s>>] = audit[<<"site", s>>]
  BY <1>6, RowsExist DEF AuditedOnly
<1>7. ASSUME NEW r \in Reservations, NEW z \in Sites, Reserved(r, z) PROVE SiteCounted(s)'
  <2>0. audit'[<<"site", s>>] = audit[<<"site", s>>]
    BY <1>6, <1>7 DEF Reserved
  <2>1. CASE z = s
    <3>1. /\ site[s] # Absent /\ site'[s] # Absent
          /\ site'[s].version = site[s].version + 1
      BY <1>1, <1>7, <2>1 DEF Reserved
    <3>2. /\ Cardinality(ReservationsOn(s)') = Cardinality(ReservationsOn(s)) + 1
          /\ Cardinality(ReturnedOn(s)') = Cardinality(ReturnedOn(s))
      BY <1>0, <1>7, <2>1, ReservedCounts
    <3> QED
      BY <1>1, <2>0, <3>1, <3>2, CountsFinite DEF Counted, SiteCounted
  <2>2. CASE z # s
    <3>1. site'[s] = site[s]
      BY <1>7, <2>2 DEF Reserved
    <3>2. /\ Cardinality(ReservationsOn(s)') = Cardinality(ReservationsOn(s))
          /\ Cardinality(ReturnedOn(s)') = Cardinality(ReturnedOn(s))
      BY <1>0, <1>7, <2>2, ReservedCounts, CountsFinite
    <3> QED
      BY <1>3, <2>0, <3>1, <3>2
  <2> QED
    BY <2>1, <2>2
<1>8. ASSUME NEW r \in Reservations, Returned(r), audit'[<<"site", s>>] = audit[<<"site", s>>]
      PROVE  SiteCounted(s)'
  <2>1. CASE s = reservation[r].site
    <3>1. /\ site[s] # Absent /\ site'[s] # Absent
          /\ site'[s].version = site[s].version + 1
      BY <1>1, <1>8, <2>1 DEF Returned
    <3>2. /\ Cardinality(ReservationsOn(s)') = Cardinality(ReservationsOn(s))
          /\ Cardinality(ReturnedOn(s)') = Cardinality(ReturnedOn(s)) + 1
      BY <1>0, <1>8, <2>1, ReturnedCounts
    <3> QED
      BY <1>1, <1>8, <3>1, <3>2, CountsFinite DEF Counted, SiteCounted
  <2>2. CASE s # reservation[r].site
    <3>1. site'[s] = site[s]
      BY <1>8, <2>2 DEF Returned
    <3>2. /\ Cardinality(ReservationsOn(s)') = Cardinality(ReservationsOn(s))
          /\ Cardinality(ReturnedOn(s)') = Cardinality(ReturnedOn(s))
      BY <1>0, <1>8, <2>2, ReturnedCounts, CountsFinite
    <3> QED
      BY <1>3, <1>8, <3>1, <3>2
  <2> QED
    BY <2>1, <2>2
<1>9. ASSUME NEW c \in Scenarios, SubmitScenario(c) \/ ScenarioMoved(c)
      PROVE  SiteCounted(s)'
  BY <1>2, <1>3, <1>6, <1>9 DEF SubmitScenario, ScenarioMoved
<1>10. ASSUME NEW r \in Reservations,
              Deployed(r) \/ (DeploymentMoved(r) /\ UNCHANGED <<site, reservation>>)
       PROVE  SiteCounted(s)'
  BY <1>2, <1>3, <1>6, <1>10 DEF Deployed, DeploymentMoved
<1>11. CASE UNCHANGED tables
  BY <1>2, <1>3, <1>11 DEF tables
<1>12. ASSUME NEW r \in Reservations, AuditedOnly(<<"reservation", r>>) \/ DeploymentMoved(r)
       PROVE  audit'[<<"site", s>>] = audit[<<"site", s>>]
  BY <1>6, <1>12 DEF DeploymentMoved
<1> QED
  BY <1>4, <1>5, <1>7, <1>8, <1>9, <1>10, <1>11, <1>12, TableSteps

\* No change of a row is lost and none goes without its audit event: versions
\* and events can be counted against each other in every state.
THEOREM ChangesAlwaysAudited == Spec => []ChangesAudited
<1>1. Init => Counted
  BY DEF Init, Counted, SiteCounted, ScenarioCounted, DeploymentCounted, ReservationCounted,
         Absent, Objects
<1>2. Locked /\ Counted /\ [Next]_vars => Counted'
  BY SitesCountedStep, ScenariosCountedStep, DeploymentsCountedStep, ReservationsCountedStep
     DEF Counted
<1> QED
  BY <1>1, <1>2, CountedAudited, OptimisticLocking, PTL DEF Spec
=============================================================================
