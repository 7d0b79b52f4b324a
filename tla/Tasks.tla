-------------------------------- MODULE Tasks --------------------------------
(***************************************************************************)
(* The durable work of the platform: the queue of Jobs composed with the   *)
(* handlers its workers run and the rows those handlers change.            *)
(*                                                                         *)
(* A reservation is inserted with the job that expires it, a deployment    *)
(* with the job that activates it; the id of the row names the job. A      *)
(* handler reads its row, and commits later if the version is still the    *)
(* same. Meanwhile the partner releases, the operator moves the deployment *)
(* on or reconciles, and another worker may run the same job: its lease    *)
(* was over, or its owner died after committing and before recording it.   *)
(* What users do is one step here; Launchpad has their reads and commits.  *)
(***************************************************************************)
EXTENDS Integers, FiniteSets, Lifecycles

CONSTANTS
  Reservations, Deployments,
  ReservationOf,   \* the reservation a deployment is made on
  Workers, NoOwner, MaxAttempts, Lease, MaxDelay, MaxWait, MaxFaults,
  MaxErrors        \* statements of handlers that fail

ASSUME TasksAssumption ==
  /\ Reservations \cap Deployments = {}
  /\ ReservationOf \in [Deployments -> Reservations]
  /\ IsFiniteSet(Workers) /\ NoOwner \notin Workers
  /\ {MaxAttempts, Lease} \subseteq Nat \ {0}
  /\ {MaxDelay, MaxWait, MaxFaults, MaxErrors} \subseteq Nat

VARIABLES
  job, worker, faults,   \* as in Jobs
  reservation,           \* reservations: status, version, ticks left to expires_at
  deployment,            \* deployments: status, version
  seen,                  \* seen[w]: status and version the handler of w holds
  errors                 \* how many of the MaxErrors errors have happened

vars == <<job, worker, faults, reservation, deployment, seen, errors>>

Queue == INSTANCE Jobs WITH Jobs <- Reservations \cup Deployments

rows == <<reservation, deployment>>

Absent  == [status |-> "absent"]
NotRead == [status |-> "none"]

ReservationRow == [status : ReservationStatus, version : Nat \ {0}, left : 0 .. MaxDelay]
DeploymentRow  == [status : DeploymentStatus, version : Nat \ {0}]
SeenRow        == [status : ReservationStatus \cup DeploymentStatus, version : Nat \ {0}]

Init ==
  /\ Queue!Init
  /\ reservation = [r \in Reservations |-> Absent]
  /\ deployment = [d \in Deployments |-> Absent]
  /\ seen = [w \in Workers |-> NotRead]
  /\ errors = 0

Live(r)    == HoldsCapacity(reservation[r].status)
Expired(r) == reservation[r].left = 0

EndReservation(r, status) ==
  reservation' = [reservation EXCEPT ![r].status = status, ![r].version = @ + 1]

MoveDeployment(d, next) ==
  deployment' = [deployment EXCEPT ![d].status = next, ![d].version = @ + 1]

-----------------------------------------------------------------------------
(* Users *)

\* Mutant: the job is not part of the transaction.
ReserveCapacityNoJob(r, ttl) ==
  /\ reservation[r] = Absent
  /\ reservation' = [reservation EXCEPT
       ![r] = [status |-> "confirmed", version |-> 1, left |-> ttl]]
  /\ UNCHANGED <<job, worker, faults, deployment, seen, errors>>

\* Mutant: the job does not wait for the reservation to expire.
ReserveCapacityJobAtOnce(r, ttl) ==
  /\ reservation[r] = Absent
  /\ reservation' = [reservation EXCEPT
       ![r] = [status |-> "confirmed", version |-> 1, left |-> ttl]]
  /\ Queue!InsertJob(r, 0)
  /\ UNCHANGED <<deployment, seen, errors>>

ReserveCapacity(r, ttl) ==
  /\ reservation[r] = Absent
  /\ reservation' = [reservation EXCEPT
       ![r] = [status |-> "confirmed", version |-> 1, left |-> ttl]]
  /\ Queue!InsertJob(r, ttl)
  /\ UNCHANGED <<deployment, seen, errors>>

ReleaseReservation(r) ==
  /\ Live(r)
  /\ EndReservation(r, "released")
  /\ UNCHANGED <<job, worker, faults, deployment, seen, errors>>

\* An operator has the reservation expired without its job.
Reconcile(r) ==
  /\ Live(r) /\ Expired(r)
  /\ EndReservation(r, "expired")
  /\ UNCHANGED <<job, worker, faults, deployment, seen, errors>>

CreateDeployment(d) ==
  /\ deployment[d] = Absent
  /\ Live(ReservationOf[d]) /\ ~Expired(ReservationOf[d])
  /\ deployment' = [deployment EXCEPT ![d] = [status |-> "queued", version |-> 1]]
  /\ Queue!InsertJob(d, 0)
  /\ UNCHANGED <<reservation, seen, errors>>

AdvanceDeployment(d, next) ==
  /\ DeploymentCanMove(deployment[d].status, next)
  /\ MoveDeployment(d, next)
  /\ UNCHANGED <<job, worker, faults, reservation, seen, errors>>

\* The second call of StopDeployment; the first one only advances.
StopDeployment(d) ==
  /\ deployment[d].status = "stopping"
  /\ Live(ReservationOf[d])
  /\ MoveDeployment(d, "stopped")
  /\ EndReservation(ReservationOf[d], "released")
  /\ UNCHANGED <<job, worker, faults, seen, errors>>

-----------------------------------------------------------------------------
(* Handlers *)

Handles(w, jobs) == worker[w].state = "handling" /\ worker[w].job \in jobs

Return(w, outcome) ==
  /\ Queue!HandleAs(w, outcome)
  /\ seen' = [seen EXCEPT ![w] = NotRead]
  /\ UNCHANGED errors

\* The handler goes on with what it holds.
Hold(w, row) ==
  /\ seen' = [seen EXCEPT ![w] = [status |-> row.status, version |-> row.version]]
  /\ UNCHANGED <<job, worker, faults, errors>>

\* Mutant: the expiry is compared the wrong way round, and nothing is done.
FindReservationAndSettle(w) ==
  /\ Handles(w, Reservations) /\ seen[w] = NotRead
  /\ LET r == worker[w].job IN
       IF Live(r) /\ ~Expired(r) THEN Hold(w, reservation[r]) ELSE Return(w, "succeeded")
  /\ UNCHANGED rows

\* ExpireReservation up to its transaction. Coming too early is an error.
FindReservation(w) ==
  /\ Handles(w, Reservations) /\ seen[w] = NotRead
  /\ LET r == worker[w].job IN
       IF ~Live(r) THEN Return(w, "succeeded")
       ELSE IF ~Expired(r) THEN Return(w, "errored")
       ELSE Hold(w, reservation[r])
  /\ UNCHANGED rows

\* Mutant: the transaction settles the job, too.
ExpireReservationSettling(w) ==
  /\ Handles(w, Reservations) /\ seen[w] # NotRead
  /\ LET r == worker[w].job IN
       IF Live(r) /\ reservation[r].version = seen[w].version
       THEN /\ EndReservation(r, "expired")
            /\ job' = Queue!Freed(r, "succeeded", 0)
            /\ worker' = [worker EXCEPT ![w] = Queue!Idle]
            /\ seen' = [seen EXCEPT ![w] = NotRead]
            /\ UNCHANGED <<faults, errors>>
       ELSE UNCHANGED reservation /\ Return(w, "errored")
  /\ UNCHANGED deployment

ExpireReservation(w) ==
  /\ Handles(w, Reservations) /\ seen[w] # NotRead
  /\ LET r == worker[w].job IN
       IF Live(r) /\ reservation[r].version = seen[w].version
       THEN EndReservation(r, "expired") /\ Return(w, "succeeded")
       ELSE UNCHANGED reservation /\ Return(w, "errored")
  /\ UNCHANGED deployment

\* ActivateDeploymentJob up to its first transaction.
FindDeployment(w) ==
  /\ Handles(w, Deployments) /\ seen[w] = NotRead
  /\ LET row == deployment[worker[w].job] IN
       IF row.status = "running" THEN Return(w, "succeeded")
       ELSE IF row.status \in {"queued", "activating"} THEN Hold(w, row)
       ELSE Return(w, "errored")
  /\ UNCHANGED rows

\* Its first transaction, for a queued deployment, after which it goes on
\* with the row it wrote; and its second one.
BeginActivation(w) ==
  /\ Handles(w, Deployments) /\ seen[w].status = "queued"
  /\ LET d == worker[w].job IN
       IF deployment[d].version = seen[w].version
       THEN MoveDeployment(d, "activating") /\ Hold(w, deployment'[d])
       ELSE UNCHANGED deployment /\ Return(w, "errored")
  /\ UNCHANGED reservation

CompleteActivation(w) ==
  /\ Handles(w, Deployments) /\ seen[w].status = "activating"
  /\ LET d == worker[w].job IN
       IF deployment[d].version = seen[w].version
       THEN MoveDeployment(d, "running") /\ Return(w, "succeeded")
       ELSE UNCHANGED deployment /\ Return(w, "errored")
  /\ UNCHANGED reservation

\* A statement of the handler fails.
HandlerError(w) ==
  /\ errors < MaxErrors
  /\ errors' = errors + 1
  /\ Queue!HandleAs(w, "errored")
  /\ seen' = [seen EXCEPT ![w] = NotRead]
  /\ UNCHANGED rows

Handler(w) ==
  \/ FindReservation(w) \/ ExpireReservation(w)
  \/ FindDeployment(w) \/ BeginActivation(w) \/ CompleteActivation(w)

-----------------------------------------------------------------------------
(* The queue *)

Start(w)    == Queue!Start(w) /\ UNCHANGED <<rows, seen, errors>>
ClaimJob(w) == Queue!ClaimJob(w) /\ UNCHANGED <<rows, seen, errors>>
Record(w)   == Queue!Record(w) /\ UNCHANGED <<rows, seen, errors>>
LoseCall(w) == Queue!LoseCall(w) /\ UNCHANGED <<rows, seen, errors>>

Crash(w) ==
  /\ Queue!Crash(w)
  /\ seen' = [seen EXCEPT ![w] = NotRead]
  /\ UNCHANGED <<rows, errors>>

Tick ==
  /\ Queue!Tick
  /\ reservation' = [r \in Reservations |->
       IF Live(r) /\ ~Expired(r) THEN [reservation[r] EXCEPT !.left = @ - 1]
       ELSE reservation[r]]
  /\ UNCHANGED <<deployment, seen, errors>>

WorkerStep(w) == Start(w) \/ ClaimJob(w) \/ Handler(w) \/ Record(w)

Next ==
  \/ \E r \in Reservations :
       (\E ttl \in 1 .. MaxDelay : ReserveCapacity(r, ttl))
         \/ ReleaseReservation(r) \/ Reconcile(r)
  \/ \E d \in Deployments :
       \/ CreateDeployment(d) \/ StopDeployment(d)
       \/ \E next \in DeploymentStatus : AdvanceDeployment(d, next)
  \/ \E w \in Workers : WorkerStep(w) \/ HandlerError(w) \/ LoseCall(w) \/ Crash(w)
  \/ Tick

\* As in Jobs. No user has to do anything.
Fairness == WF_vars(Tick) /\ \A w \in Workers : WF_vars(WorkerStep(w))

Spec == Init /\ [][Next]_vars /\ Fairness

-----------------------------------------------------------------------------
(* Properties *)

Done(j) ==
  IF j \in Reservations THEN reservation[j].status \in {"released", "expired"}
  ELSE deployment[j].status \in {"running", "stopping", "stopped", "failed"}

\* Rows and jobs are well formed, they come together, and only a worker that
\* handles a job holds a row.
TypeOK ==
  /\ Queue!TypeOK
  /\ reservation \in [Reservations -> {Absent} \cup ReservationRow]
  /\ deployment \in [Deployments -> {Absent} \cup DeploymentRow]
  /\ \A r \in Reservations : reservation[r] = Absent <=> job[r] = Queue!Absent
  /\ \A d \in Deployments : deployment[d] = Absent <=> job[d] = Queue!Absent
  /\ seen \in [Workers -> {NotRead} \cup SeenRow]
  /\ \A w \in Workers : seen[w] # NotRead => worker[w].state = "handling"
  /\ errors \in 0 .. MaxErrors

\* What an attempt on j may have been lost to: a fault, a failed statement, or
\* whoever else moved the deployment to activating meanwhile.
Moved(j)   == IF j \in Deployments /\ deployment[j].status = "activating" THEN 1 ELSE 0
Excuses(j) == faults + errors + Moved(j)

\* A job that succeeded did its work, or somebody else did, whichever workers
\* ran it, lost it, or ran it twice. And a job fails for good, with units still
\* held or a deployment not yet running, only if each of its attempts has met a
\* fault, an error, or the one move of an operator: neither a handler that comes
\* too early or with an old row nor a second worker uses them up.
SettledMeansDone ==
  \A j \in Reservations \cup Deployments :
    /\ job[j].status = "succeeded" => Done(j)
    /\ job[j].status = "failed" => Done(j) \/ Excuses(j) >= MaxAttempts

\* Every step of the queue with these handlers is one of Jobs, whose handlers
\* return whatever they like, or changes no job: no handler and no user
\* touches a job, and so what a step of Jobs may never do none does here.
ImplementsQueue == Queue!Init /\ [][Queue!Next]_(Queue!vars)

\* Units held by a reservation come back: by the partner, by the operator, and
\* if nobody cares, by a worker after the reservation has expired, also those of
\* deployments which were moved to stopped or failed without a release. And a
\* queued deployment is activated, or an operator has moved it on. The exception
\* is a job that has failed for good, of which SettledMeansDone says when.
WorkGetsDone ==
  /\ \A r \in Reservations : Live(r) ~> (~Live(r) \/ job[r].status = "failed")
  /\ \A d \in Deployments :
       deployment[d].status = "queued" ~> (Done(d) \/ job[d].status = "failed")
=============================================================================
