---------------------------- MODULE TasksProofs ----------------------------
(***************************************************************************)
(* The platform's durable work, for any rows, workers, faults and errors:  *)
(* every step is one of the queue or changes no job, rows and jobs come    *)
(* together, and a job that has ended has done its work.                   *)
(*                                                                         *)
(* What the queue itself promises is proved in JobsProofs and used here    *)
(* through QueueProofs.                                                    *)
(***************************************************************************)
EXTENDS Tasks, TLAPS

QueueProofs == INSTANCE JobsProofs WITH Jobs <- Reservations \cup Deployments

AllJobs == Reservations \cup Deployments

-----------------------------------------------------------------------------
(* The inductive invariant *)

Version(j) == IF j \in Reservations THEN reservation[j].version ELSE deployment[j].version

\* The handler of w holds a row that has been changed since.
Stale(w) == seen[w] # NotRead /\ seen[w].version # Version(worker[w].job)

\* The owner of j is handling it, within its lease, and nothing is lost yet.
Trying(j) ==
  /\ QueueProofs!Held(j)
  /\ worker[job[j].owner].state = "handling" /\ ~Stale(job[j].owner)

\* A job whose work is not done has lost every attempt to something, but for
\* the one its owner is making.
Excused(j) ==
  ~Done(j) =>
    /\ job[j].status # "succeeded"
    /\ job[j].status = "failed" => MaxAttempts <= Excuses(j)
    /\ job[j].status = "pending" => job[j].attempts <= Excuses(j)
    /\ job[j].status = "running" =>
         job[j].attempts <= Excuses(j) + (IF Trying(j) THEN 1 ELSE 0)

\* A row in its first status has its first version.
FirstVersions ==
  /\ \A r \in Reservations : Live(r) => reservation[r].version = 1
  /\ \A d \in Deployments : deployment[d].status = "queued" => deployment[d].version = 1

\* What a handler holds is an earlier version of its row, or the row.
SeenAgrees(w) ==
  seen[w] # NotRead =>
    /\ seen[w].version <= Version(worker[w].job)
    /\ worker[w].job \in Deployments /\ seen[w].version = deployment[worker[w].job].version =>
         seen[w].status = deployment[worker[w].job].status

\* No job to expire a reservation runs before the reservation expires.
NeverEarly ==
  \A r \in Reservations : Live(r) /\ ~Expired(r) =>
    /\ job[r].status = "pending" /\ job[r].available >= reservation[r].left
    /\ \A w \in Workers : QueueProofs!IsWorking(w) => worker[w].job # r

\* A handler that reports success has done its work, or found it done.
SuccessMeansDone ==
  \A w \in Workers : worker[w].state = "succeeded" => Done(worker[w].job)

IInv ==
  /\ TypeOK
  /\ QueueProofs!HolderAgrees
  /\ FirstVersions
  /\ \A w \in Workers : SeenAgrees(w)
  /\ NeverEarly
  /\ SuccessMeansDone
  /\ \A j \in AllJobs : Excused(j)

-----------------------------------------------------------------------------
(* The queue of Tasks is the queue JobsProofs is about *)

\* The assumptions of Jobs hold of the constants of Tasks.
LEMMA QueueConstants ==
  /\ QueueProofs!JobsAssumption
  /\ MaxAttempts \in Nat \ {0} /\ Lease \in Nat \ {0}
  /\ MaxDelay \in Nat /\ MaxWait \in Nat /\ MaxFaults \in Nat /\ MaxErrors \in Nat
BY TasksAssumption DEF QueueProofs!JobsAssumption, QueueProofs!IsFiniteSet, IsFiniteSet

LEMMA SameTypes == Queue!TypeOK <=> QueueProofs!TypeOK
BY DEF Queue!TypeOK, Queue!Absent, Queue!FreeRow, Queue!LeasedRow, Queue!Settled,
       Queue!Resting, Queue!Working,
       QueueProofs!TypeOK, QueueProofs!Absent, QueueProofs!FreeRow, QueueProofs!LeasedRow,
       QueueProofs!Settled, QueueProofs!Resting, QueueProofs!Working

LEMMA SameClaim ==
  ASSUME NEW w \in Workers
  PROVE  Queue!ClaimJob(w) <=> QueueProofs!ClaimJob(w)
BY DEF Queue!ClaimJob, Queue!Earliest, Queue!Claimable, Queue!Open, Queue!Idle,
       QueueProofs!ClaimJob, QueueProofs!Earliest, QueueProofs!Claimable,
       QueueProofs!Open, QueueProofs!Idle

LEMMA SameRecord ==
  ASSUME NEW w \in Workers
  PROVE  Queue!Record(w) <=> QueueProofs!Record(w)
BY DEF Queue!Record, Queue!CompleteJob, Queue!RetryJob, Queue!Owns, Queue!Freed,
       Queue!IsLastAttempt, Queue!Backoff, Queue!Idle,
       QueueProofs!Record, QueueProofs!CompleteJob, QueueProofs!RetryJob, QueueProofs!Owns,
       QueueProofs!Freed, QueueProofs!IsLastAttempt, QueueProofs!Backoff, QueueProofs!Idle

LEMMA SameTick == Queue!Tick <=> QueueProofs!Tick
BY DEF Queue!Tick, Queue!Open, Queue!IsWorking, Queue!Fault, Queue!Cardinality,
       QueueProofs!Tick, QueueProofs!Open, QueueProofs!IsWorking, QueueProofs!Fault,
       QueueProofs!Cardinality

-----------------------------------------------------------------------------
(* Every step is one of the queue *)

\* A handler goes on with a row, or returns and lets go of it.
LEMMA HandlerEffect ==
  ASSUME NEW w \in Workers, Handler(w) \/ HandlerError(w)
  PROVE  /\ worker[w].state = "handling" /\ job' = job /\ faults' = faults
         /\ \/ /\ worker' = worker
               /\ \E row : seen' = [seen EXCEPT ![w] = [status |-> row.status, version |-> row.version]]
            \/ /\ \E outcome \in {"succeeded", "errored"} : Queue!HandleAs(w, outcome)
               /\ seen' = [seen EXCEPT ![w] = NotRead]
<1>1. ASSUME NEW row, Hold(w, row), Handles(w, AllJobs)
      PROVE  /\ worker[w].state = "handling" /\ job' = job /\ faults' = faults
             /\ worker' = worker
             /\ \E x : seen' = [seen EXCEPT ![w] = [status |-> x.status, version |-> x.version]]
  BY <1>1 DEF Hold, Handles
<1>2. ASSUME NEW outcome \in {"succeeded", "errored"}, Queue!HandleAs(w, outcome)
      PROVE  worker[w].state = "handling" /\ job' = job /\ faults' = faults
  BY <1>2 DEF Queue!HandleAs
<1>3. CASE FindReservation(w)
  BY <1>1, <1>2, <1>3 DEF FindReservation, Return, Handles, AllJobs
<1>4. CASE ExpireReservation(w)
  BY <1>2, <1>4 DEF ExpireReservation, Return
<1>5. CASE FindDeployment(w)
  BY <1>1, <1>2, <1>5 DEF FindDeployment, Return, Handles, AllJobs
<1>6. CASE BeginActivation(w)
  BY <1>1, <1>2, <1>6 DEF BeginActivation, Return, Handles, AllJobs
<1>7. CASE CompleteActivation(w)
  BY <1>2, <1>7 DEF CompleteActivation, Return
<1>8. CASE HandlerError(w)
  BY <1>2, <1>8 DEF HandlerError
<1> QED
  BY <1>3, <1>4, <1>5, <1>6, <1>7, <1>8 DEF Handler

\* Handlers run between a claim and a report.
LEMMA NotHandling ==
  ASSUME NEW w \in Workers, Start(w) \/ ClaimJob(w) \/ Record(w) \/ LoseCall(w)
  PROVE  worker[w].state # "handling"
<1>1. CASE Start(w) \/ LoseCall(w)
  BY <1>1 DEF Start, LoseCall, Queue!Start, Queue!LoseCall
<1>2. CASE ClaimJob(w)
  <2>1. worker[w] = [state |-> "idle"]
    BY <1>2 DEF ClaimJob, Queue!ClaimJob, Queue!Idle
  <2> QED
    BY <2>1
<1>3. CASE Record(w)
  BY <1>3 DEF Record, Queue!Record, Queue!CompleteJob, Queue!RetryJob
<1> QED
  BY <1>1, <1>2, <1>3

\* What users do inserts a job with its row or leaves the jobs alone, what
\* handlers do is what Jobs calls Handle, and the rest is the queue itself.
LEMMA QueueStep ==
  ASSUME [Next]_vars
  PROVE  [Queue!Next]_(Queue!vars)
<1>1. ASSUME NEW r \in Reservations, NEW ttl \in 1 .. MaxDelay, ReserveCapacity(r, ttl)
      PROVE  Queue!Next
  <2>1. r \in Reservations \cup Deployments /\ ttl \in 0 .. MaxDelay
    BY QueueConstants
  <2> QED
    BY <1>1, <2>1 DEF ReserveCapacity, Queue!Next
<1>2. ASSUME NEW d \in Deployments, CreateDeployment(d) PROVE Queue!Next
  <2>1. d \in Reservations \cup Deployments /\ 0 \in 0 .. MaxDelay
    BY QueueConstants
  <2> QED
    BY <1>2, <2>1 DEF CreateDeployment, Queue!Next
<1>3. ASSUME NEW r \in Reservations, ReleaseReservation(r) \/ Reconcile(r)
      PROVE  UNCHANGED Queue!vars
  BY <1>3 DEF ReleaseReservation, Reconcile, Queue!vars
<1>4. ASSUME NEW d \in Deployments,
             StopDeployment(d) \/ \E next \in DeploymentStatus : AdvanceDeployment(d, next)
      PROVE  UNCHANGED Queue!vars
  BY <1>4 DEF StopDeployment, AdvanceDeployment, Queue!vars
<1>5. ASSUME NEW w \in Workers, Handler(w) \/ HandlerError(w)
      PROVE  [Queue!Next]_(Queue!vars)
  BY <1>5, HandlerEffect DEF Queue!Next, Queue!WorkerStep, Queue!Handle, Queue!vars
<1>6. ASSUME NEW w \in Workers, Start(w) \/ ClaimJob(w) \/ Record(w) \/ LoseCall(w) \/ Crash(w)
      PROVE  Queue!Next
  BY <1>6 DEF Start, ClaimJob, Record, LoseCall, Crash, Queue!Next, Queue!WorkerStep
<1>7. ASSUME Tick PROVE Queue!Next
  BY <1>7 DEF Tick, Queue!Next
<1>8. CASE UNCHANGED vars
  BY <1>8 DEF vars, Queue!vars
<1> QED
  BY <1>1, <1>2, <1>3, <1>4, <1>5, <1>6, <1>7, <1>8 DEF Next, WorkerStep

\* No handler and no user touches a job: the queue of Tasks is that of Jobs,
\* and what a step of Jobs never does no step does here.
THEOREM QueueRefined == Spec => ImplementsQueue
<1>1. Init => Queue!Init
  BY DEF Init
<1> QED
  BY <1>1, QueueStep, PTL DEF Spec, ImplementsQueue

\* The same step, as JobsProofs has it.
LEMMA QueueProofsStep ==
  ASSUME [Next]_vars
  PROVE  [QueueProofs!Next]_(QueueProofs!vars)
<1>1. [Queue!Next]_(Queue!vars)
  BY QueueStep
<1>2. CASE UNCHANGED Queue!vars
  BY <1>2 DEF Queue!vars, QueueProofs!vars
<1>3. ASSUME NEW j \in AllJobs, NEW delay \in 0 .. MaxDelay, Queue!InsertJob(j, delay)
      PROVE  QueueProofs!InsertJob(j, delay)
  BY <1>3 DEF Queue!InsertJob, Queue!Absent, QueueProofs!InsertJob, QueueProofs!Absent
<1>4. ASSUME NEW j \in AllJobs, Queue!CancelJob(j) PROVE QueueProofs!CancelJob(j)
  BY <1>4 DEF Queue!CancelJob, Queue!Freed, Queue!Open,
              QueueProofs!CancelJob, QueueProofs!Freed, QueueProofs!Open
<1>5. ASSUME NEW w \in Workers, Queue!Handle(w) PROVE QueueProofs!Handle(w)
  BY <1>5 DEF Queue!Handle, Queue!HandleAs, QueueProofs!Handle, QueueProofs!HandleAs
<1>6. ASSUME NEW w \in Workers, Queue!Start(w) \/ Queue!LoseCall(w) \/ Queue!Crash(w)
      PROVE  QueueProofs!Start(w) \/ QueueProofs!LoseCall(w) \/ QueueProofs!Crash(w)
  BY <1>6 DEF Queue!Start, Queue!LoseCall, Queue!Crash, Queue!Fault, Queue!Idle,
              Queue!IsWorking,
              QueueProofs!Start, QueueProofs!LoseCall, QueueProofs!Crash, QueueProofs!Fault,
              QueueProofs!Idle, QueueProofs!IsWorking
<1>7. CASE Queue!Next
  BY <1>3, <1>4, <1>5, <1>6, <1>7, SameClaim, SameRecord, SameTick
     DEF Queue!Next, Queue!WorkerStep, QueueProofs!Next, QueueProofs!WorkerStep, AllJobs
<1> QED
  BY <1>1, <1>2, <1>7

-----------------------------------------------------------------------------
(* What the queue promises holds with the handlers in it *)

LEMMA QueueInit == Init => QueueProofs!IInv
<1> SUFFICES ASSUME Init PROVE QueueProofs!IInv
  OBVIOUS
<1>1. QueueProofs!Init
  BY DEF Init, Queue!Init, Queue!Absent, QueueProofs!Init, QueueProofs!Absent
<1> QED
  BY <1>1, QueueConstants, QueueProofs!InvariantInit

LEMMA QueueInvariantStep ==
  ASSUME QueueProofs!IInv, [Next]_vars
  PROVE  QueueProofs!IInv'
BY QueueConstants, QueueProofsStep, QueueProofs!InvariantStep

\* Leases exclude and attempts are accounted for, whatever handlers and users
\* do: JobsProofs carries over to the queue of the platform.
THEOREM QueueKept == Spec => [](Queue!LeaseExclusive /\ Queue!RetryBudget)
<1>1. QueueProofs!IInv => QueueProofs!LeaseExclusive /\ QueueProofs!RetryBudget
  BY DEF QueueProofs!IInv, QueueProofs!HolderAgrees, QueueProofs!Budget,
         QueueProofs!LeaseExclusive, QueueProofs!RetryBudget
<1>2. QueueProofs!LeaseExclusive => Queue!LeaseExclusive
  BY DEF Queue!LeaseExclusive, Queue!IsWorking, Queue!Owns,
         QueueProofs!LeaseExclusive, QueueProofs!IsWorking, QueueProofs!Owns
<1>3. QueueProofs!RetryBudget => Queue!RetryBudget
  BY DEF Queue!RetryBudget, Queue!Absent, QueueProofs!RetryBudget, QueueProofs!Absent
<1> QED
  BY <1>1, <1>2, <1>3, QueueInit, QueueInvariantStep, PTL DEF Spec

-----------------------------------------------------------------------------
(* Types *)

\* What the steps of the queue do to the jobs of a row and to other workers.
LEMMA QueueTypes ==
  ASSUME TypeOK, [Next]_vars
  PROVE  QueueProofs!TypeOK /\ QueueProofs!TypeOK' /\ Queue!TypeOK'
<1>1. QueueProofs!TypeOK
  BY SameTypes DEF TypeOK
<1>2. QueueProofs!TypeOK'
  BY <1>1, QueueConstants, QueueProofsStep, QueueProofs!TypeStep
<1>3. Queue!TypeOK'
  BY <1>2 DEF Queue!TypeOK, Queue!Absent, Queue!FreeRow, Queue!LeasedRow, Queue!Settled,
       Queue!Resting, Queue!Working,
       QueueProofs!TypeOK, QueueProofs!Absent, QueueProofs!FreeRow, QueueProofs!LeasedRow,
       QueueProofs!Settled, QueueProofs!Resting, QueueProofs!Working
<1> QED
  BY <1>1, <1>2, <1>3

LEMMA SameAbsent == Queue!Absent = QueueProofs!Absent /\ Queue!Absent = Absent
BY DEF Queue!Absent, QueueProofs!Absent, Absent

\* A row that holds units, or has a deployment's status, is a row.
LEMMA RowsThere ==
  ASSUME TypeOK
  PROVE  /\ \A r \in Reservations : reservation[r].status # "absent" => reservation[r] \in ReservationRow
         /\ \A d \in Deployments : deployment[d].status # "absent" => deployment[d] \in DeploymentRow
BY DEF TypeOK, Absent

LEMMA EndType ==
  ASSUME TypeOK, NEW r \in Reservations, Live(r),
         NEW status \in {"released", "expired"}, EndReservation(r, status)
  PROVE  /\ reservation' \in [Reservations -> {Absent} \cup ReservationRow]
         /\ reservation'[r] \in ReservationRow
         /\ reservation'[r].status = status
         /\ reservation'[r].version = reservation[r].version + 1
         /\ \A q \in Reservations \ {r} : reservation'[q] = reservation[q]
<1>1. reservation[r] \in ReservationRow
  BY RowsThere DEF Live, HoldsCapacity
<1>2. [reservation[r] EXCEPT !.status = status, !.version = @ + 1] \in ReservationRow
  <2>1. reservation[r].version + 1 \in Nat \ {0} /\ status \in ReservationStatus
    BY <1>1 DEF ReservationRow, ReservationStatus
  <2> QED
    BY <1>1, <2>1 DEF ReservationRow
<1>3. /\ reservation'[r] = [reservation[r] EXCEPT !.status = status, !.version = @ + 1]
      /\ \A q \in Reservations \ {r} : reservation'[q] = reservation[q]
      /\ reservation' \in [Reservations -> {Absent} \cup ReservationRow]
  BY <1>2 DEF EndReservation, TypeOK
<1>4. reservation'[r].status = status /\ reservation'[r].version = reservation[r].version + 1
  BY <1>1, <1>3 DEF ReservationRow
<1> QED
  BY <1>2, <1>3, <1>4

LEMMA MoveType ==
  ASSUME TypeOK, NEW d \in Deployments, deployment[d].status # "absent",
         NEW next \in DeploymentStatus, MoveDeployment(d, next)
  PROVE  /\ deployment' \in [Deployments -> {Absent} \cup DeploymentRow]
         /\ deployment[d] \in DeploymentRow
         /\ deployment'[d] \in DeploymentRow
         /\ deployment'[d].status = next
         /\ deployment'[d].version = deployment[d].version + 1
         /\ \A e \in Deployments \ {d} : deployment'[e] = deployment[e]
<1>1. deployment[d] \in DeploymentRow
  BY RowsThere
<1>2. [deployment[d] EXCEPT !.status = next, !.version = @ + 1] \in DeploymentRow
  <2>1. deployment[d].version + 1 \in Nat \ {0}
    BY <1>1 DEF DeploymentRow
  <2> QED
    BY <1>1, <2>1 DEF DeploymentRow
<1>3. /\ deployment'[d] = [deployment[d] EXCEPT !.status = next, !.version = @ + 1]
      /\ \A e \in Deployments \ {d} : deployment'[e] = deployment[e]
      /\ deployment' \in [Deployments -> {Absent} \cup DeploymentRow]
  BY <1>2 DEF MoveDeployment, TypeOK
<1>4. deployment'[d].status = next /\ deployment'[d].version = deployment[d].version + 1
  BY <1>1, <1>3 DEF DeploymentRow
<1> QED
  BY <1>1, <1>2, <1>3, <1>4

\* Time brings a reservation that holds units closer to its end, and does
\* nothing else to it.
LEMMA LeftType ==
  ASSUME TypeOK, Tick, NEW r \in Reservations
  PROVE  /\ reservation'[r] \in {Absent} \cup ReservationRow
         /\ reservation'[r] = Absent <=> reservation[r] = Absent
         /\ reservation'[r].status = reservation[r].status
         /\ reservation'[r].version = reservation[r].version
         /\ ~(Live(r) /\ ~Expired(r)) => reservation'[r] = reservation[r]
         /\ Live(r) /\ ~Expired(r) => /\ reservation[r].left \in Nat \ {0}
                                      /\ reservation'[r].left = reservation[r].left - 1
<1>1. CASE ~(Live(r) /\ ~Expired(r))
  BY <1>1 DEF Tick, TypeOK
<1>2. CASE Live(r) /\ ~Expired(r)
  <2>1. reservation[r] \in ReservationRow
    BY <1>2, RowsThere DEF Live, HoldsCapacity
  <2>2. reservation'[r] = [reservation[r] EXCEPT !.left = @ - 1]
    BY <1>2 DEF Tick
  <2>3. reservation[r].left \in Nat \ {0} /\ reservation[r].left - 1 \in 0 .. MaxDelay
    BY <1>2, <2>1, QueueConstants DEF ReservationRow, Expired
  <2>4. reservation'[r] \in ReservationRow
    BY <2>1, <2>2, <2>3 DEF ReservationRow
  <2>5. /\ reservation'[r].status = reservation[r].status
        /\ reservation'[r].version = reservation[r].version
        /\ reservation'[r].left = reservation[r].left - 1
    BY <2>1, <2>2 DEF ReservationRow
  <2>6. reservation[r] # Absent /\ reservation'[r] # Absent
    BY <2>1, <2>4 DEF ReservationRow, ReservationStatus, Absent
  <2> QED
    BY <1>2, <2>3, <2>4, <2>5, <2>6
<1> QED
  BY <1>1, <1>2

\* The row of a job that somebody works on is there.
LEMMA RowOfWorker ==
  ASSUME TypeOK, QueueProofs!HolderAgrees, NEW w \in Workers, QueueProofs!IsWorking(w)
  PROVE  /\ worker[w] \in Queue!Working /\ worker[w].job \in AllJobs
         /\ job[worker[w].job] # Queue!Absent
         /\ worker[w].job \in Reservations => reservation[worker[w].job] \in ReservationRow
         /\ worker[w].job \in Deployments => deployment[worker[w].job] \in DeploymentRow
<1>1. worker[w] \in Queue!Working
  BY DEF TypeOK, Queue!TypeOK, Queue!Resting, QueueProofs!IsWorking
<1>2. worker[w].job \in AllJobs
  BY <1>1 DEF Queue!Working, AllJobs
<1>3. job[worker[w].job] # Queue!Absent
  BY <1>2 DEF QueueProofs!HolderAgrees, Queue!Absent
<1> QED
  BY <1>1, <1>2, <1>3 DEF TypeOK

\* Handlers leave rows that are rows and hold what they have read of them.
LEMMA HandlerTypes ==
  ASSUME TypeOK, QueueProofs!HolderAgrees, NEW w \in Workers, Handler(w) \/ HandlerError(w)
  PROVE  /\ reservation' \in [Reservations -> {Absent} \cup ReservationRow]
         /\ deployment' \in [Deployments -> {Absent} \cup DeploymentRow]
         /\ \A r \in Reservations : reservation'[r] = Absent <=> reservation[r] = Absent
         /\ \A d \in Deployments : deployment'[d] = Absent <=> deployment[d] = Absent
         /\ seen' \in [Workers -> {NotRead} \cup SeenRow]
         /\ errors' \in 0 .. MaxErrors
<1> DEFINE j == worker[w].job
<1>1. ASSUME NEW outcome, Return(w, outcome)
      PROVE  seen' \in [Workers -> {NotRead} \cup SeenRow] /\ errors' \in 0 .. MaxErrors
  BY <1>1 DEF Return, TypeOK
<1>2. ASSUME NEW row \in ReservationRow \cup DeploymentRow, Hold(w, row)
      PROVE  seen' \in [Workers -> {NotRead} \cup SeenRow] /\ errors' \in 0 .. MaxErrors
  <2>1. [status |-> row.status, version |-> row.version] \in SeenRow
    BY DEF SeenRow, ReservationRow, DeploymentRow
  <2> QED
    BY <1>2, <2>1 DEF Hold, TypeOK
<1>3. CASE FindReservation(w)
  <2>1. Live(j) /\ j \in Reservations => reservation[j] \in ReservationRow
    BY RowsThere DEF Live, HoldsCapacity
  <2> QED
    BY <1>1, <1>2, <1>3, <2>1 DEF FindReservation, Handles, rows, TypeOK
<1>4. CASE ExpireReservation(w)
  <2>1. CASE Live(j) /\ EndReservation(j, "expired")
    <3>1. /\ j \in Reservations /\ reservation[j] # Absent
      BY <1>4, <2>1 DEF ExpireReservation, Handles, Live, HoldsCapacity, Absent
    <3>2. /\ reservation' \in [Reservations -> {Absent} \cup ReservationRow]
          /\ reservation'[j] # Absent
          /\ \A q \in Reservations \ {j} : reservation'[q] = reservation[q]
      BY <2>1, <3>1, EndType DEF ReservationRow, ReservationStatus, Absent
    <3> QED
      BY <1>1, <1>4, <3>1, <3>2 DEF ExpireReservation, TypeOK
  <2>2. CASE UNCHANGED reservation
    BY <1>1, <1>4, <2>2 DEF ExpireReservation, TypeOK
  <2> QED
    BY <1>4, <2>1, <2>2 DEF ExpireReservation
<1>5. CASE FindDeployment(w)
  <2>1. deployment[j].status \in {"queued", "activating"} /\ j \in Deployments =>
          deployment[j] \in DeploymentRow
    BY RowsThere
  <2> QED
    BY <1>1, <1>2, <1>5, <2>1 DEF FindDeployment, Handles, rows, TypeOK
<1>6. CASE BeginActivation(w) \/ CompleteActivation(w)
  <2>0. /\ j \in Deployments /\ reservation' = reservation
        /\ seen[w] \in SeenRow
    BY <1>6 DEF BeginActivation, CompleteActivation, Handles, TypeOK, NotRead
  <2>1. ASSUME NEW next \in DeploymentStatus, MoveDeployment(j, next),
               deployment[j].version = seen[w].version
        PROVE  /\ deployment' \in [Deployments -> {Absent} \cup DeploymentRow]
               /\ deployment'[j] \in DeploymentRow
               /\ \A d \in Deployments : deployment'[d] = Absent <=> deployment[d] = Absent
    <3>1. deployment[j].status # "absent" /\ deployment[j] # Absent
      <4>1. worker[w].state = "handling"
        BY <1>6 DEF BeginActivation, CompleteActivation, Handles
      <4>2. deployment[j] \in DeploymentRow
        BY <2>0, <4>1, RowOfWorker DEF QueueProofs!IsWorking
      <4> QED
        BY <4>2 DEF DeploymentRow, DeploymentStatus, Absent
    <3>2. /\ deployment' \in [Deployments -> {Absent} \cup DeploymentRow]
          /\ deployment'[j] \in DeploymentRow
          /\ \A e \in Deployments \ {j} : deployment'[e] = deployment[e]
      BY <2>0, <2>1, <3>1, MoveType
    <3> QED
      BY <2>0, <3>1, <3>2 DEF DeploymentRow, DeploymentStatus, Absent
  <2>2. CASE UNCHANGED deployment /\ Return(w, "errored")
    BY <1>1, <2>0, <2>2 DEF TypeOK
  <2>3. CASE /\ deployment[j].version = seen[w].version
             /\ MoveDeployment(j, "activating") /\ Hold(w, deployment'[j])
    BY <1>2, <2>0, <2>1, <2>3 DEF TypeOK, DeploymentStatus
  <2>4. CASE /\ deployment[j].version = seen[w].version
             /\ MoveDeployment(j, "running") /\ Return(w, "succeeded")
    BY <1>1, <2>0, <2>1, <2>4 DEF TypeOK, DeploymentStatus
  <2> QED
    BY <1>6, <2>2, <2>3, <2>4 DEF BeginActivation, CompleteActivation
<1>7. CASE HandlerError(w)
  BY <1>7, QueueConstants DEF HandlerError, TypeOK, rows
<1> QED
  BY <1>3, <1>4, <1>5, <1>6, <1>7 DEF Handler

LEMMA TypeInit == Init => TypeOK
<1> SUFFICES ASSUME Init PROVE TypeOK
  OBVIOUS
<1>1. Queue!TypeOK
  <2>1. QueueProofs!Init
    BY DEF Init, Queue!Init, Queue!Absent, QueueProofs!Init, QueueProofs!Absent
  <2> QED
    BY <2>1, QueueConstants, QueueProofs!TypeInit, SameTypes
<1>2. \A j \in AllJobs : job[j] = Queue!Absent
  BY DEF Init, Queue!Init, AllJobs
<1> QED
  BY <1>1, <1>2, QueueConstants, SameAbsent DEF Init, TypeOK, NotRead, AllJobs

LEMMA TypeStep ==
  ASSUME TypeOK, QueueProofs!HolderAgrees, [Next]_vars
  PROVE  TypeOK'
<1>0. Queue!TypeOK' /\ QueueProofs!TypeOK
  BY QueueTypes
<1>1. ASSUME NEW r \in Reservations, NEW ttl \in 1 .. MaxDelay, ReserveCapacity(r, ttl)
      PROVE  TypeOK'
  <2> DEFINE row == [status |-> "confirmed", version |-> 1, left |-> ttl]
  <2>1. row \in ReservationRow /\ row # Absent
    BY QueueConstants DEF ReservationRow, ReservationStatus, Absent
  <2>2. reservation' = [reservation EXCEPT ![r] = row]
    BY <1>1 DEF ReserveCapacity
  <2>3. /\ job'[r] # Queue!Absent
        /\ \A j \in AllJobs \ {r} : job'[j] = job[j]
    BY <1>1 DEF ReserveCapacity, Queue!InsertJob, Queue!Absent, Queue!TypeOK, TypeOK, AllJobs
  <2> HIDE DEF row
  <2>4. r \notin Deployments
    BY TasksAssumption
  <2> QED
    BY <1>0, <1>1, <2>1, <2>2, <2>3, <2>4
       DEF ReserveCapacity, Queue!InsertJob, TypeOK, AllJobs
<1>2. ASSUME NEW d \in Deployments, CreateDeployment(d) PROVE TypeOK'
  <2> DEFINE row == [status |-> "queued", version |-> 1]
  <2>1. row \in DeploymentRow /\ row # Absent
    BY DEF DeploymentRow, DeploymentStatus, Absent
  <2>2. deployment' = [deployment EXCEPT ![d] = row]
    BY <1>2 DEF CreateDeployment
  <2>3. /\ job'[d] # Queue!Absent
        /\ \A j \in AllJobs \ {d} : job'[j] = job[j]
    BY <1>2 DEF CreateDeployment, Queue!InsertJob, Queue!Absent, Queue!TypeOK, TypeOK, AllJobs
  <2> HIDE DEF row
  <2>4. d \notin Reservations
    BY TasksAssumption
  <2> QED
    BY <1>0, <1>2, <2>1, <2>2, <2>3, <2>4
       DEF CreateDeployment, Queue!InsertJob, TypeOK, AllJobs
<1>3. ASSUME NEW r \in Reservations, ReleaseReservation(r) \/ Reconcile(r) PROVE TypeOK'
  <2>1. Live(r) /\ reservation[r] # Absent
    BY <1>3 DEF ReleaseReservation, Reconcile, Live, HoldsCapacity, Absent
  <2>2. /\ reservation' \in [Reservations -> {Absent} \cup ReservationRow]
        /\ reservation'[r] # Absent
        /\ \A q \in Reservations \ {r} : reservation'[q] = reservation[q]
    BY <1>3, <2>1, EndType DEF ReleaseReservation, Reconcile, ReservationRow, ReservationStatus, Absent
  <2> QED
    BY <1>0, <1>3, <2>1, <2>2 DEF ReleaseReservation, Reconcile, TypeOK
<1>4. ASSUME NEW d \in Deployments, NEW next \in DeploymentStatus, AdvanceDeployment(d, next)
      PROVE  TypeOK'
  <2>1. deployment[d].status # "absent" /\ deployment[d] # Absent
    BY <1>4 DEF AdvanceDeployment, DeploymentCanMove, Absent
  <2>2. /\ deployment' \in [Deployments -> {Absent} \cup DeploymentRow]
        /\ deployment'[d] # Absent
        /\ \A e \in Deployments \ {d} : deployment'[e] = deployment[e]
    BY <1>4, <2>1, MoveType DEF AdvanceDeployment, DeploymentRow, DeploymentStatus, Absent
  <2> QED
    BY <1>0, <1>4, <2>1, <2>2 DEF AdvanceDeployment, TypeOK
<1>5. ASSUME NEW d \in Deployments, StopDeployment(d) PROVE TypeOK'
  <2> DEFINE r == ReservationOf[d]
  <2>1. /\ r \in Reservations /\ Live(r) /\ reservation[r] # Absent
        /\ deployment[d].status # "absent" /\ deployment[d] # Absent
    BY <1>5, TasksAssumption DEF StopDeployment, Live, HoldsCapacity, Absent
  <2>2. /\ deployment' \in [Deployments -> {Absent} \cup DeploymentRow]
        /\ deployment'[d] # Absent
        /\ \A e \in Deployments \ {d} : deployment'[e] = deployment[e]
    BY <1>5, <2>1, MoveType DEF StopDeployment, DeploymentRow, DeploymentStatus, Absent
  <2>3. /\ reservation' \in [Reservations -> {Absent} \cup ReservationRow]
        /\ reservation'[r] # Absent
        /\ \A q \in Reservations \ {r} : reservation'[q] = reservation[q]
    BY <1>5, <2>1, EndType DEF StopDeployment, ReservationRow, ReservationStatus, Absent
  <2> QED
    BY <1>0, <1>5, <2>1, <2>2, <2>3 DEF StopDeployment, TypeOK
<1>6. ASSUME NEW w \in Workers, Handler(w) \/ HandlerError(w) PROVE TypeOK'
  <2>1. /\ reservation' \in [Reservations -> {Absent} \cup ReservationRow]
        /\ deployment' \in [Deployments -> {Absent} \cup DeploymentRow]
        /\ \A r \in Reservations : reservation'[r] = Absent <=> reservation[r] = Absent
        /\ \A d \in Deployments : deployment'[d] = Absent <=> deployment[d] = Absent
        /\ seen' \in [Workers -> {NotRead} \cup SeenRow]
        /\ errors' \in 0 .. MaxErrors
    BY <1>6, HandlerTypes
  <2>2. /\ job' = job /\ worker[w].state = "handling"
        /\ \/ worker' = worker
           \/ /\ seen'[w] = NotRead
              /\ \A v \in Workers \ {w} : worker'[v] = worker[v]
        /\ \A v \in Workers \ {w} : seen'[v] = seen[v]
    BY <1>6, HandlerEffect DEF Queue!HandleAs, TypeOK, Queue!TypeOK
  <2> QED
    BY <1>0, <2>1, <2>2 DEF TypeOK
<1>7. ASSUME NEW w \in Workers, Start(w) \/ LoseCall(w) \/ Crash(w) PROVE TypeOK'
  <2>1. /\ job' = job /\ UNCHANGED <<rows, errors>>
        /\ \A v \in Workers \ {w} : worker'[v] = worker[v]
    BY <1>7 DEF Start, LoseCall, Crash, Queue!Start, Queue!LoseCall, Queue!Crash,
                TypeOK, Queue!TypeOK
  <2>2. /\ seen' \in [Workers -> {NotRead} \cup SeenRow] /\ seen'[w] = NotRead
        /\ \A v \in Workers \ {w} : seen'[v] = seen[v]
    BY <1>7 DEF Start, LoseCall, Crash, Queue!Start, Queue!LoseCall, TypeOK
  <2> QED
    BY <1>0, <2>1, <2>2 DEF TypeOK, rows
<1>8. ASSUME NEW w \in Workers, ClaimJob(w) \/ Record(w) PROVE TypeOK'
  <2>1. /\ UNCHANGED <<rows, seen, errors>>
        /\ \A v \in Workers \ {w} : worker'[v] = worker[v]
        /\ seen[w] = NotRead
    <3>1. CASE ClaimJob(w)
      BY <3>1 DEF ClaimJob, Queue!ClaimJob, Queue!Idle, TypeOK, Queue!TypeOK
    <3>2. CASE Record(w)
      <4>1. worker[w].state # "handling" /\ \E row : worker' = [worker EXCEPT ![w] = row]
        BY <3>2, NotHandling DEF Record, Queue!Record
      <4> QED
        BY <3>2, <4>1 DEF Record, TypeOK, Queue!TypeOK
    <3> QED
      BY <1>8, <3>1, <3>2
  <2>2. \A j \in AllJobs : job'[j] = Queue!Absent <=> job[j] = Queue!Absent
    BY <1>0, <1>8, QueueConstants, QueueProofs!Presence, SameClaim, SameRecord, SameAbsent
       DEF ClaimJob, Record, AllJobs
  <2> QED
    BY <1>0, <2>1, <2>2 DEF TypeOK, rows, AllJobs
<1>9. ASSUME Tick PROVE TypeOK'
  <2>1. \A j \in AllJobs : job'[j] = Queue!Absent <=> job[j] = Queue!Absent
    BY <1>0, <1>9, QueueConstants, QueueProofs!Presence, SameTick, SameAbsent DEF Tick, AllJobs
  <2>2. \A w \in Workers : worker'[w].state = worker[w].state
    BY <1>0, <1>9, QueueConstants, QueueProofs!TickEffect, SameTick DEF Tick
  <2>3. ASSUME NEW r \in Reservations
        PROVE  /\ reservation'[r] \in {Absent} \cup ReservationRow
               /\ reservation'[r] = Absent <=> reservation[r] = Absent
    BY <1>9, LeftType
  <2>4. reservation' \in [Reservations -> {Absent} \cup ReservationRow]
    BY <1>9, <2>3 DEF Tick
  <2> QED
    BY <1>0, <1>9, <2>1, <2>2, <2>3, <2>4 DEF TypeOK, Tick, AllJobs
<1>10. CASE UNCHANGED vars
  BY <1>0, <1>10 DEF vars, TypeOK
<1> QED
  BY <1>1, <1>2, <1>3, <1>4, <1>5, <1>6, <1>7, <1>8, <1>9, <1>10 DEF Next, WorkerStep

\* A worker's row is there, while somebody works on it.
LEMMA HolderStep ==
  ASSUME TypeOK, QueueProofs!HolderAgrees, [Next]_vars
  PROVE  QueueProofs!HolderAgrees'
BY QueueTypes, QueueConstants, QueueProofsStep, QueueProofs!HolderStep

\* Rows and jobs are well formed and come together.
THEOREM TypeCorrect == Spec => []TypeOK
<1>1. Init => QueueProofs!HolderAgrees
  BY DEF Init, Queue!Init, QueueProofs!HolderAgrees, QueueProofs!IsWorking
<1> QED
  BY <1>1, TypeInit, TypeStep, HolderStep, PTL DEF Spec

-----------------------------------------------------------------------------
(* Rows *)

\* The status and version of j's row stay.
Stays(j) ==
  IF j \in Reservations
  THEN /\ reservation'[j].status = reservation[j].status
       /\ reservation'[j].version = reservation[j].version
       /\ reservation'[j].left = reservation[j].left \/ (Live(j) /\ ~Expired(j) /\ Tick)
  ELSE deployment'[j] = deployment[j]

\* They change together, along the lifecycle.
Moves(j) ==
  IF j \in Reservations
  THEN /\ Live(j) /\ reservation'[j].status \in {"released", "expired"}
       /\ reservation'[j].version = reservation[j].version + 1
  ELSE /\ DeploymentCanMove(deployment[j].status, deployment'[j].status)
       /\ deployment'[j].version = deployment[j].version + 1

\* The row and its job are new.
Appears(j) ==
  /\ job[j] = Absent
  /\ job'[j].status = "pending" /\ job'[j].attempts = 0 /\ worker' = worker
  /\ IF j \in Reservations
     THEN /\ reservation'[j].status = "confirmed" /\ reservation'[j].version = 1
          /\ job'[j].available = reservation'[j].left
     ELSE deployment'[j].status = "queued" /\ deployment'[j].version = 1

LEMMA EndMoves ==
  ASSUME TypeOK, NEW r \in Reservations, Live(r),
         NEW status \in {"released", "expired"}, EndReservation(r, status)
  PROVE  Moves(r) /\ \A q \in Reservations \ {r} : Stays(q)
BY EndType DEF Moves, Stays

LEMMA MoveMoves ==
  ASSUME TypeOK, NEW d \in Deployments, NEW next \in DeploymentStatus,
         DeploymentCanMove(deployment[d].status, next), MoveDeployment(d, next)
  PROVE  Moves(d) /\ \A e \in Deployments \ {d} : Stays(e)
<1>1. deployment[d].status # "absent"
  BY DEF DeploymentCanMove
<1>2. d \notin Reservations /\ \A e \in Deployments : e \notin Reservations
  BY TasksAssumption
<1> QED
  BY <1>1, <1>2, MoveType DEF Moves, Stays

LEMMA FrameRows ==
  /\ reservation' = reservation => \A r \in Reservations : Stays(r)
  /\ deployment' = deployment => \A d \in Deployments : Stays(d)
<1>1. \A d \in Deployments : d \notin Reservations
  BY TasksAssumption
<1> QED
  BY <1>1 DEF Stays

\* Whoever steps, a row stays, moves or appears.
LEMMA RowStep ==
  ASSUME TypeOK, QueueProofs!HolderAgrees, \A w \in Workers : SeenAgrees(w), [Next]_vars,
         NEW j \in AllJobs
  PROVE  Stays(j) \/ Moves(j) \/ Appears(j)
<1>0. \A d \in Deployments : d \notin Reservations
  BY TasksAssumption
<1>1. ASSUME NEW r \in Reservations, NEW ttl \in 1 .. MaxDelay, ReserveCapacity(r, ttl)
      PROVE  Stays(j) \/ Appears(j)
  <2>1. Appears(r)
    BY <1>1 DEF ReserveCapacity, Queue!InsertJob, Queue!Absent, Absent, Appears, TypeOK, Queue!TypeOK
  <2>2. deployment' = deployment /\ \A q \in Reservations \ {r} : reservation'[q] = reservation[q]
    BY <1>1 DEF ReserveCapacity, TypeOK
  <2> QED
    BY <1>0, <2>1, <2>2 DEF Stays, AllJobs
<1>2. ASSUME NEW d \in Deployments, CreateDeployment(d) PROVE Stays(j) \/ Appears(j)
  <2>1. Appears(d)
    BY <1>0, <1>2 DEF CreateDeployment, Queue!InsertJob, Queue!Absent, Absent, Appears, TypeOK, Queue!TypeOK
  <2>2. reservation' = reservation /\ \A e \in Deployments \ {d} : deployment'[e] = deployment[e]
    BY <1>2 DEF CreateDeployment, TypeOK
  <2> QED
    BY <1>0, <2>1, <2>2 DEF Stays, AllJobs
<1>3. ASSUME NEW r \in Reservations, ReleaseReservation(r) \/ Reconcile(r)
      PROVE  Stays(j) \/ Moves(j)
  BY <1>3, EndMoves, FrameRows DEF ReleaseReservation, Reconcile, AllJobs
<1>4. ASSUME NEW d \in Deployments, NEW next \in DeploymentStatus, AdvanceDeployment(d, next)
      PROVE  Stays(j) \/ Moves(j)
  BY <1>4, MoveMoves, FrameRows DEF AdvanceDeployment, AllJobs
<1>5. ASSUME NEW d \in Deployments, StopDeployment(d) PROVE Stays(j) \/ Moves(j)
  <2>1. ReservationOf[d] \in Reservations /\ DeploymentCanMove(deployment[d].status, "stopped")
        /\ "stopped" \in DeploymentStatus
    BY <1>5, TasksAssumption DEF StopDeployment, DeploymentCanMove, DeploymentStatus
  <2> QED
    BY <1>5, <2>1, EndMoves, MoveMoves DEF StopDeployment, AllJobs
<1>6. ASSUME NEW w \in Workers, Handler(w) PROVE Stays(j) \/ Moves(j)
  <2> DEFINE k == worker[w].job
  <2>1. CASE FindReservation(w) \/ FindDeployment(w)
    BY <2>1, FrameRows DEF FindReservation, FindDeployment, rows, AllJobs
  <2>2. CASE ExpireReservation(w)
    BY <2>2, EndMoves, FrameRows DEF ExpireReservation, Handles, AllJobs
  <2>3. CASE BeginActivation(w) \/ CompleteActivation(w)
    <3>1. /\ k \in Deployments /\ reservation' = reservation /\ seen[w] # NotRead
          /\ seen[w].version = deployment[k].version => seen[w].status = deployment[k].status
      BY <2>3 DEF BeginActivation, CompleteActivation, Handles, NotRead, SeenAgrees
    <3>2. CASE UNCHANGED deployment
      BY <3>1, <3>2, FrameRows DEF AllJobs
    <3>3. CASE /\ BeginActivation(w) /\ deployment[k].version = seen[w].version
               /\ MoveDeployment(k, "activating")
      <4>1. DeploymentCanMove(deployment[k].status, "activating") /\ "activating" \in DeploymentStatus
        BY <3>1, <3>3 DEF BeginActivation, DeploymentCanMove, DeploymentStatus
      <4> QED
        BY <3>1, <3>3, <4>1, MoveMoves, FrameRows DEF AllJobs
    <3>4. CASE /\ CompleteActivation(w) /\ deployment[k].version = seen[w].version
               /\ MoveDeployment(k, "running")
      <4>1. DeploymentCanMove(deployment[k].status, "running") /\ "running" \in DeploymentStatus
        BY <3>1, <3>4 DEF CompleteActivation, DeploymentCanMove, DeploymentStatus
      <4> QED
        BY <3>1, <3>4, <4>1, MoveMoves, FrameRows DEF AllJobs
    <3> QED
      BY <2>3, <3>2, <3>3, <3>4 DEF BeginActivation, CompleteActivation
  <2> QED
    BY <1>6, <2>1, <2>2, <2>3 DEF Handler
<1>7. ASSUME NEW w \in Workers, HandlerError(w) \/ Start(w) \/ ClaimJob(w) \/ Record(w)
                                  \/ LoseCall(w) \/ Crash(w)
      PROVE  Stays(j)
  BY <1>7, FrameRows DEF HandlerError, Start, ClaimJob, Record, LoseCall, Crash, rows, AllJobs
<1>8. ASSUME Tick PROVE Stays(j)
  <2>1. deployment' = deployment
    BY <1>8 DEF Tick
  <2> QED
    BY <1>8, <2>1, LeftType DEF Stays, AllJobs
<1>9. CASE UNCHANGED vars
  BY <1>9, FrameRows DEF vars, AllJobs
<1> QED
  BY <1>1, <1>2, <1>3, <1>4, <1>5, <1>6, <1>7, <1>8, <1>9 DEF Next, WorkerStep

\* A row that is there has a version, its status is one of its lifecycle, and
\* in a reservation that status says whether it holds units.
LEMMA RowFacts ==
  ASSUME TypeOK, NEW j \in AllJobs, job[j] # Absent
  PROVE  /\ Version(j) \in Nat \ {0}
         /\ j \in Reservations => Done(j) \/ Live(j)
         /\ j \in Deployments =>
              Done(j) \/ deployment[j].status \in {"queued", "activating"}
<1>1. CASE j \in Reservations
  <2>1. reservation[j] \in ReservationRow
    BY <1>1, SameAbsent DEF TypeOK
  <2> QED
    BY <1>1, <2>1, TasksAssumption
       DEF ReservationRow, ReservationStatus, Version, Done, Live, HoldsCapacity
<1>2. CASE j \in Deployments
  <2>1. deployment[j] \in DeploymentRow /\ j \notin Reservations
    BY <1>2, SameAbsent, TasksAssumption DEF TypeOK
  <2> QED
    BY <1>2, <2>1 DEF DeploymentRow, DeploymentStatus, Version, Done
<1> QED
  BY <1>1, <1>2 DEF AllJobs

\* What a move means for the work: it is done now, or a queued deployment is
\* activating, which is an excuse more.
LEMMA MoveEffect ==
  ASSUME TypeOK, NEW j \in AllJobs, job[j] # Absent, Moves(j)
  PROVE  /\ Version(j)' = Version(j) + 1
         /\ Done(j)' \/ (j \in Deployments /\ Moved(j) = 0 /\ Moved(j)' = 1)
<1>1. CASE j \in Reservations
  BY <1>1 DEF Moves, Version, Done
<1>2. CASE j \in Deployments
  <2>1. j \notin Reservations
    BY <1>2, TasksAssumption
  <2> QED
    BY <1>2, <2>1 DEF Moves, DeploymentCanMove, Version, Done, Moved
<1> QED
  BY <1>1, <1>2 DEF AllJobs

LEMMA StayEffect ==
  ASSUME TypeOK, NEW j \in AllJobs, Stays(j)
  PROVE  Version(j)' = Version(j) /\ (Done(j)' <=> Done(j)) /\ Moved(j)' = Moved(j)
<1>1. j \in Deployments <=> j \notin Reservations
  BY TasksAssumption DEF AllJobs
<1> QED
  BY <1>1 DEF Stays, Version, Done, Moved

\* Work that is done stays done.
LEMMA DoneStays ==
  ASSUME TypeOK, NEW j \in AllJobs, job[j] # Absent, Done(j), Stays(j) \/ Moves(j)
  PROVE  Done(j)'
<1>1. j \in Deployments <=> j \notin Reservations
  BY TasksAssumption DEF AllJobs
<1> QED
  BY <1>1, StayEffect DEF Moves, Done, Live, HoldsCapacity, DeploymentCanMove

LEMMA FirstVersionsStep ==
  ASSUME TypeOK, QueueProofs!HolderAgrees, \A w \in Workers : SeenAgrees(w),
         FirstVersions, [Next]_vars
  PROVE  FirstVersions'
<1>1. ASSUME NEW r \in Reservations, Live(r)' PROVE reservation'[r].version = 1
  <2>1. Stays(r) \/ Moves(r) \/ Appears(r)
    BY RowStep DEF AllJobs
  <2> QED
    BY <1>1, <2>1 DEF FirstVersions, Stays, Moves, Appears, Live, HoldsCapacity
<1>2. ASSUME NEW d \in Deployments, deployment'[d].status = "queued"
      PROVE  deployment'[d].version = 1
  <2>1. (Stays(d) \/ Moves(d) \/ Appears(d)) /\ d \notin Reservations
    BY RowStep, TasksAssumption DEF AllJobs
  <2> QED
    BY <1>2, <2>1 DEF FirstVersions, Stays, Moves, Appears, DeploymentCanMove
<1> QED
  BY <1>1, <1>2 DEF FirstVersions

-----------------------------------------------------------------------------
(* What handlers hold *)

\* A worker that holds a row had it before, or has it from the row as it is now.
LEMMA HoldStep ==
  ASSUME TypeOK, QueueProofs!HolderAgrees, [Next]_vars,
         NEW w \in Workers, seen'[w] # NotRead
  PROVE  /\ QueueProofs!IsWorking(w) /\ worker'[w].job = worker[w].job
         /\ \/ seen'[w] = seen[w]
            \/ /\ seen'[w].version = Version(worker[w].job)'
               /\ worker[w].job \in Deployments =>
                    seen'[w].status = deployment'[worker[w].job].status
<1> DEFINE j == worker[w].job
<1>1. ASSUME NEW v \in Workers, Handler(v) \/ HandlerError(v), v # w
      PROVE  worker'[w] = worker[w] /\ seen'[w] = seen[w]
  BY <1>1, HandlerEffect DEF Queue!HandleAs, TypeOK, Queue!TypeOK
<1>2. ASSUME seen'[w] = seen[w], worker'[w] = worker[w]
      PROVE  QueueProofs!IsWorking(w) /\ worker'[w].job = worker[w].job
  BY <1>2 DEF TypeOK, QueueProofs!IsWorking
<1>3. CASE Handler(w) \/ HandlerError(w)
  <2>1. PICK row : /\ seen' = [seen EXCEPT ![w] = [status |-> row.status, version |-> row.version]]
                   /\ worker' = worker
                   /\ row = IF j \in Reservations THEN reservation'[j] ELSE deployment'[j]
    <3>0. \A d \in Deployments : d \notin Reservations
      BY TasksAssumption
    <3>1. ~(\E outcome : Return(w, outcome)) /\ ~HandlerError(w)
      BY DEF Return, HandlerError, TypeOK
    <3>2. CASE FindReservation(w) \/ FindDeployment(w)
      BY <3>0, <3>1, <3>2 DEF FindReservation, FindDeployment, Handles, Hold, rows
    <3>3. CASE ExpireReservation(w) \/ CompleteActivation(w)
      BY <3>1, <3>3 DEF ExpireReservation, CompleteActivation
    <3>4. CASE BeginActivation(w)
      BY <3>0, <3>1, <3>4 DEF BeginActivation, Handles, Hold
    <3> QED
      BY <1>3, <3>1, <3>2, <3>3, <3>4 DEF Handler
  <2>2. seen'[w].version = row.version /\ seen'[w].status = row.status
    BY <2>1 DEF TypeOK
  <2>3. worker[w].state = "handling"
    BY <1>3, HandlerEffect
  <2>4. \A d \in Deployments : d \notin Reservations
    BY TasksAssumption
  <2> QED
    BY <2>1, <2>2, <2>3, <2>4 DEF QueueProofs!IsWorking, Version
<1>4. ASSUME NEW v \in Workers, Start(v) \/ ClaimJob(v) \/ Record(v) \/ LoseCall(v) \/ Crash(v)
      PROVE  worker'[w] = worker[w] /\ seen'[w] = seen[w]
  <2>1. seen'[w] = seen[w] /\ (Crash(v) => v # w)
    BY <1>4 DEF Start, ClaimJob, Record, LoseCall, Crash, TypeOK
  <2>2. worker[w].state = "handling"
    BY <2>1 DEF TypeOK
  <2>3. v # w
    BY <1>4, <2>1, <2>2, NotHandling
  <2>4. \E row : worker' = [worker EXCEPT ![v] = row]
    BY <1>4 DEF Start, ClaimJob, Record, LoseCall, Crash, Queue!Start, Queue!ClaimJob,
                Queue!Record, Queue!LoseCall, Queue!Crash
  <2> QED
    BY <2>1, <2>3, <2>4 DEF TypeOK, Queue!TypeOK
<1>5. CASE Tick
  <2>1. seen'[w] = seen[w] /\ QueueProofs!IsWorking(w)
    BY <1>5 DEF Tick, TypeOK, QueueProofs!IsWorking
  <2> QED
    BY <1>5, <2>1, QueueTypes, QueueConstants, QueueProofs!TickEffect, SameTick DEF Tick
<1>6. ASSUME \/ UNCHANGED vars
             \/ \E r \in Reservations :
                  (\E ttl \in 1 .. MaxDelay : ReserveCapacity(r, ttl))
                    \/ ReleaseReservation(r) \/ Reconcile(r)
             \/ \E d \in Deployments :
                  \/ CreateDeployment(d) \/ StopDeployment(d)
                  \/ \E next \in DeploymentStatus : AdvanceDeployment(d, next)
      PROVE  worker'[w] = worker[w] /\ seen'[w] = seen[w]
  BY <1>6 DEF vars, ReserveCapacity, ReleaseReservation, Reconcile, CreateDeployment,
              StopDeployment, AdvanceDeployment, Queue!InsertJob
<1> QED
  BY <1>1, <1>2, <1>3, <1>4, <1>5, <1>6 DEF Next, WorkerStep

LEMMA SeenStep ==
  ASSUME TypeOK, QueueProofs!HolderAgrees, \A w \in Workers : SeenAgrees(w), [Next]_vars,
         NEW w \in Workers
  PROVE  SeenAgrees(w)'
<1> SUFFICES ASSUME seen'[w] # NotRead PROVE SeenAgrees(w)'
  BY DEF SeenAgrees
<1> PICK j \in AllJobs : j = worker[w].job /\ j = worker'[w].job /\ job[j] # Absent
  BY HoldStep, RowOfWorker, SameAbsent
<1>2. seen'[w] \in SeenRow /\ Version(j) \in Nat
  BY TypeStep, RowFacts DEF TypeOK
<1>3. CASE /\ seen'[w].version = Version(j)'
           /\ j \in Deployments => seen'[w].status = deployment'[j].status
  BY <1>2, <1>3 DEF SeenAgrees, SeenRow, Version
<1>4. CASE seen'[w] = seen[w]
  <2>1. /\ seen[w] \in SeenRow /\ seen[w].version <= Version(j)
        /\ j \in Deployments /\ seen[w].version = deployment[j].version =>
             seen[w].status = deployment[j].status
    <3>1. seen[w] \in SeenRow /\ seen[w] # NotRead /\ SeenAgrees(w)
      BY <1>2, <1>4
    <3> QED
      BY <3>1 DEF SeenAgrees
  <2>2. j \in Deployments => Version(j) = deployment[j].version /\ Version(j)' = deployment'[j].version
    BY TasksAssumption DEF Version
  <2>3. CASE Stays(j)
    <3>1. Version(j)' = Version(j) /\ (j \in Deployments => deployment'[j] = deployment[j])
      BY <2>3, StayEffect, TasksAssumption DEF Stays
    <3> QED
      BY <1>4, <2>1, <3>1 DEF SeenAgrees, Version
  <2>4. CASE Moves(j)
    <3>1. Version(j)' = Version(j) + 1
      BY <2>4, MoveEffect
    <3>2. seen'[w].version < Version(j)'
      BY <1>2, <1>4, <2>1, <3>1 DEF SeenRow
    <3> QED
      BY <1>2, <2>2, <3>1, <3>2 DEF SeenAgrees, SeenRow, Version
  <2> QED
    BY <2>3, <2>4, RowStep DEF Appears
<1> QED
  BY <1>3, <1>4, HoldStep DEF Version

-----------------------------------------------------------------------------
(* No handler comes early *)

\* Only the queue's own steps change what workers work on and what jobs say,
\* apart from the insertion of a job.
LEMMA JobStep ==
  ASSUME TypeOK, [Next]_vars, NEW j \in AllJobs, job[j] # Absent
  PROVE  \/ /\ job'[j] = job[j]
            /\ \A w \in Workers : worker'[w].job = j /\ QueueProofs!IsWorking(w)' =>
                 QueueProofs!IsWorking(w) /\ worker[w].job = j
         \/ QueueProofs!Claimable(j) /\ job'[j].status = "running"
         \/ \E w \in Workers : QueueProofs!IsWorking(w) /\ worker[w].job = j
                                 /\ QueueProofs!Record(w)
         \/ Tick
<1>0. QueueProofs!TypeOK
  BY SameTypes DEF TypeOK
<1>1. ASSUME NEW v \in Workers, Handler(v) \/ HandlerError(v)
      PROVE  /\ job' = job
             /\ \A w \in Workers : worker'[w].job = j /\ QueueProofs!IsWorking(w)' =>
                  QueueProofs!IsWorking(w) /\ worker[w].job = j
  <2>1. worker[v].state = "handling" /\ worker[v] \in Queue!Working /\ job' = job
    BY <1>1, HandlerEffect DEF TypeOK, Queue!TypeOK, Queue!Resting
  <2>2. CASE worker' = worker
    BY <2>1, <2>2 DEF QueueProofs!IsWorking
  <2>3. ASSUME NEW outcome, Queue!HandleAs(v, outcome)
        PROVE  \A w \in Workers : worker'[w].job = worker[w].job
                                    /\ (w # v => worker'[w] = worker[w])
    BY <2>1, <2>3 DEF Queue!HandleAs, Queue!Working, TypeOK, Queue!TypeOK
  <2> QED
    BY <1>1, <2>1, <2>2, <2>3, HandlerEffect DEF QueueProofs!IsWorking
<1>2. ASSUME NEW v \in Workers, Start(v) \/ LoseCall(v) \/ Crash(v)
      PROVE  /\ job' = job
             /\ \A w \in Workers : worker'[w].job = j /\ QueueProofs!IsWorking(w)' =>
                  QueueProofs!IsWorking(w) /\ worker[w].job = j
  BY <1>2 DEF Start, LoseCall, Crash, Queue!Start, Queue!LoseCall, Queue!Crash, Queue!Idle,
              QueueProofs!IsWorking, TypeOK, Queue!TypeOK
<1>3. ASSUME NEW v \in Workers, Record(v)
      PROVE  \/ /\ job'[j] = job[j]
                /\ \A w \in Workers : worker'[w].job = j /\ QueueProofs!IsWorking(w)' =>
                     QueueProofs!IsWorking(w) /\ worker[w].job = j
             \/ QueueProofs!IsWorking(v) /\ worker[v].job = j /\ QueueProofs!Record(v)
  <2>1. QueueProofs!Record(v)
    BY <1>3, SameRecord DEF Record
  <2>2. /\ QueueProofs!IsWorking(v) /\ worker' = [worker EXCEPT ![v] = Queue!Idle]
        /\ \/ job' = job
           \/ \E status, available : job' = QueueProofs!Freed(worker[v].job, status, available)
    BY <1>0, <2>1, QueueConstants, QueueProofs!RecordEffect DEF Queue!Idle, QueueProofs!Idle
  <2>3. CASE worker[v].job # j
    BY <2>2, <2>3 DEF QueueProofs!Freed, QueueProofs!IsWorking, Queue!Idle, TypeOK, Queue!TypeOK, AllJobs
  <2> QED
    BY <2>1, <2>2, <2>3
<1>4. ASSUME NEW v \in Workers, ClaimJob(v)
      PROVE  \/ /\ job'[j] = job[j]
                /\ \A w \in Workers : worker'[w].job = j /\ QueueProofs!IsWorking(w)' =>
                     QueueProofs!IsWorking(w) /\ worker[w].job = j
             \/ QueueProofs!Claimable(j) /\ job'[j].status = "running"
  <2>1. QueueProofs!ClaimJob(v)
    BY <1>4, SameClaim DEF ClaimJob
  <2> PICK k \in AllJobs :
        /\ QueueProofs!Claimable(k)
        /\ job'[k] \in QueueProofs!LeasedRow
        /\ job' = [job EXCEPT ![k] = job'[k]]
        /\ worker' = [worker EXCEPT
             ![v] = [state |-> "handling", job |-> k,
                     attempts |-> job[k].attempts + 1, lease |-> Lease]]
    BY <1>0, <2>1, QueueConstants, QueueProofs!ClaimEffect DEF AllJobs
  <2>2. CASE k = j
    BY <2>2 DEF QueueProofs!LeasedRow
  <2>3. CASE k # j
    BY <2>3 DEF QueueProofs!IsWorking, TypeOK, Queue!TypeOK, AllJobs
  <2> QED
    BY <2>2, <2>3
<1>5. ASSUME NEW r \in Reservations, NEW ttl \in 1 .. MaxDelay, ReserveCapacity(r, ttl)
      PROVE  job'[j] = job[j] /\ worker' = worker
  BY <1>5, SameAbsent DEF ReserveCapacity, Queue!InsertJob, TypeOK, Queue!TypeOK, AllJobs
<1>6. ASSUME NEW d \in Deployments, CreateDeployment(d)
      PROVE  job'[j] = job[j] /\ worker' = worker
  BY <1>6, SameAbsent DEF CreateDeployment, Queue!InsertJob, TypeOK, Queue!TypeOK, AllJobs
<1>7. ASSUME \/ UNCHANGED vars
             \/ \E r \in Reservations : ReleaseReservation(r) \/ Reconcile(r)
             \/ \E d \in Deployments :
                  StopDeployment(d) \/ \E next \in DeploymentStatus : AdvanceDeployment(d, next)
      PROVE  job'[j] = job[j] /\ worker' = worker
  BY <1>7 DEF vars, ReleaseReservation, Reconcile, StopDeployment, AdvanceDeployment
<1> QED
  BY <1>1, <1>2, <1>3, <1>4, <1>5, <1>6, <1>7 DEF Next, WorkerStep, QueueProofs!IsWorking

LEMMA NeverEarlyStep ==
  ASSUME TypeOK, QueueProofs!HolderAgrees, \A w \in Workers : SeenAgrees(w),
         NeverEarly, [Next]_vars
  PROVE  NeverEarly'
<1> SUFFICES ASSUME NEW r \in Reservations, Live(r)', ~Expired(r)'
             PROVE  /\ job'[r].status = "pending" /\ job'[r].available >= reservation'[r].left
                    /\ \A w \in Workers : QueueProofs!IsWorking(w)' => worker'[w].job # r
  BY DEF NeverEarly
<1>0. r \in AllJobs /\ QueueProofs!TypeOK
  BY SameTypes DEF AllJobs, TypeOK
<1>1. Stays(r) \/ Appears(r)
  BY <1>0, RowStep DEF Moves, Live, HoldsCapacity
<1>2. CASE Appears(r)
  <2>1. /\ job'[r].status = "pending" /\ job'[r].available = reservation'[r].left
        /\ reservation'[r].left \in Nat
    <3>1. reservation'[r] \in ReservationRow
      BY <1>2, TypeStep, RowsThere DEF Appears, TypeOK, Absent
    <3> QED
      BY <1>2, <3>1, QueueConstants DEF Appears, ReservationRow
  <2>2. \A w \in Workers : QueueProofs!IsWorking(w)' => worker'[w].job # r
    BY <1>2, RowOfWorker, SameAbsent DEF Appears, QueueProofs!IsWorking
  <2> QED
    BY <2>1, <2>2
<1>3. CASE Stays(r)
  <2>1. Live(r) /\ ~Expired(r)
    BY <1>3 DEF Stays, Live, Expired
  <2>2. /\ job[r].status = "pending" /\ job[r].available >= reservation[r].left
        /\ \A w \in Workers : QueueProofs!IsWorking(w) => worker[w].job # r
    BY <2>1 DEF NeverEarly
  <2>3. job[r] # Absent /\ job[r] \in QueueProofs!FreeRow /\ job[r].available \in Int
    BY <1>0, <2>2 DEF Absent, QueueProofs!TypeOK, QueueProofs!Absent, QueueProofs!FreeRow,
                      QueueProofs!LeasedRow
  <2>4. reservation[r].left \in Nat \ {0}
    <3>1. reservation[r] \in ReservationRow
      BY <2>1, RowsThere DEF Live, HoldsCapacity
    <3> QED
      BY <2>1, <3>1, QueueConstants DEF ReservationRow, Expired
  <2>5. CASE Tick
    <3>1. reservation'[r].left = reservation[r].left - 1
      BY <2>1, <2>5, LeftType
    <3>2. job[r].available > -MaxWait
      BY <2>2, <2>3, <2>4, QueueConstants
    <3>3. job'[r] = [job[r] EXCEPT !.available = job[r].available - 1,
                                   !.lease = IF @ > 0 THEN @ - 1 ELSE 0]
      BY <1>0, <2>2, <2>5, <3>2 DEF Tick, Queue!Tick, Queue!Open, AllJobs
    <3>4. job'[r].status = "pending" /\ job'[r].available = job[r].available - 1
      BY <2>2, <2>3, <3>3 DEF QueueProofs!FreeRow
    <3>5. \A w \in Workers : QueueProofs!IsWorking(w)' => worker'[w].job # r
      <4>1. QueueProofs!Tick
        BY <2>5, SameTick DEF Tick
      <4> QED
        BY <1>0, <2>2, <4>1, QueueConstants, QueueProofs!TickEffect DEF QueueProofs!IsWorking
    <3> QED
      BY <2>2, <2>3, <2>4, <3>1, <3>4, <3>5
  <2>6. CASE ~Tick
    <3>1. reservation'[r].left = reservation[r].left
      BY <1>3, <2>6 DEF Stays
    <3>2. ~QueueProofs!Claimable(r)
      BY <2>2, <2>3, <2>4 DEF QueueProofs!Claimable
    <3> QED
      BY <1>0, <2>2, <2>3, <2>6, <3>1, <3>2, JobStep
  <2> QED
    BY <2>5, <2>6
<1> QED
  BY <1>1, <1>2, <1>3

-----------------------------------------------------------------------------
(* Jobs that end have done their work *)

\* What it takes a handler to return.
LEMMA ReturnEffect ==
  ASSUME TypeOK, QueueProofs!HolderAgrees, \A w \in Workers : SeenAgrees(w),
         FirstVersions, NeverEarly,
         NEW w \in Workers, NEW outcome, Handler(w), Return(w, outcome),
         NEW j \in AllJobs, j = worker[w].job
  PROVE  \/ outcome = "succeeded" /\ Done(j)'
         \/ outcome = "errored" /\ (Done(j) \/ Stale(w))
<1>1. QueueProofs!IsWorking(w) /\ job[j] # Absent
  <2>1. QueueProofs!IsWorking(w)
    BY HandlerEffect DEF QueueProofs!IsWorking
  <2> QED
    BY <2>1, RowOfWorker, SameAbsent
<1>2. (j \in Reservations <=> j \notin Deployments) /\ "succeeded" # "errored"
  BY TasksAssumption DEF AllJobs
<1>3. ASSUME NEW o, Queue!HandleAs(w, o), Queue!HandleAs(w, outcome) PROVE o = outcome
  <2>1. worker[w] \in Queue!Working
    BY <1>1, RowOfWorker
  <2>2. worker'[w].state = o /\ worker'[w].state = outcome
    BY <1>3, <2>1 DEF Queue!HandleAs, Queue!Working, TypeOK, Queue!TypeOK
  <2> QED
    BY <2>2
<1>4. ASSUME NEW row PROVE ~Hold(w, row)
  <2>1. worker'[w].state # "handling" \/ outcome = "handling"
    BY DEF Return, Queue!HandleAs, TypeOK, Queue!TypeOK
  <2>2. worker[w].state = "handling" /\ seen'[w] = NotRead
    BY HandlerEffect DEF Return, TypeOK
  <2> QED
    BY <2>2 DEF Hold, NotRead, TypeOK
<1>5. CASE FindReservation(w)
  <2>1. j \in Reservations /\ UNCHANGED rows
    BY <1>5 DEF FindReservation, Handles
  <2>2. Live(j) => Expired(j)
    BY <1>1, <2>1 DEF NeverEarly
  <2>3. ~Live(j) => Done(j) /\ Done(j)'
    BY <1>1, <1>2, <2>1, RowFacts DEF Done, rows
  <2> QED
    BY <1>3, <1>4, <1>5, <2>2, <2>3 DEF FindReservation, Return
<1>6. CASE ExpireReservation(w)
  <2>1. j \in Reservations /\ seen[w] # NotRead
    BY <1>6 DEF ExpireReservation, Handles
  <2>2. CASE Live(j) /\ reservation[j].version = seen[w].version
    <3>1. EndReservation(j, "expired") /\ Return(w, "succeeded")
      BY <1>6, <2>2 DEF ExpireReservation
    <3>2. outcome = "succeeded"
      BY <1>3, <3>1 DEF Return
    <3>3. Done(j)'
      BY <2>1, <2>2, <3>1, EndType DEF Done
    <3> QED
      BY <3>2, <3>3
  <2>3. CASE ~(Live(j) /\ reservation[j].version = seen[w].version)
    <3>1. outcome = "errored"
      BY <1>3, <1>6, <2>3 DEF ExpireReservation, Return
    <3>2. Done(j) \/ Stale(w)
      BY <1>1, <2>1, <2>3, RowFacts DEF Stale, Version
    <3> QED
      BY <3>1, <3>2
  <2> QED
    BY <2>2, <2>3
<1>7. CASE FindDeployment(w)
  <2>1. j \in Deployments /\ j \notin Reservations /\ UNCHANGED rows
    BY <1>2, <1>7 DEF FindDeployment, Handles
  <2>2. deployment[j].status = "running" => Done(j) /\ Done(j)'
    BY <2>1 DEF Done, rows
  <2>3. deployment[j].status \notin {"queued", "activating"} => Done(j)
    BY <1>1, <2>1, RowFacts
  <2> QED
    BY <1>3, <1>4, <1>7, <2>2, <2>3 DEF FindDeployment, Return
<1>8. CASE BeginActivation(w) \/ CompleteActivation(w)
  <2>1. j \in Deployments /\ j \notin Reservations /\ seen[w] # NotRead
    BY <1>2, <1>8 DEF BeginActivation, CompleteActivation, Handles, NotRead
  <2>2. CASE deployment[j].version = seen[w].version
    <3>1. CompleteActivation(w) /\ MoveDeployment(j, "running") /\ Return(w, "succeeded")
      BY <1>4, <1>8, <2>2 DEF BeginActivation, CompleteActivation
    <3>2. outcome = "succeeded" /\ deployment[j].status # "absent"
      BY <1>1, <1>3, <2>1, <3>1, RowFacts DEF Return, Done
    <3>3. Done(j)'
      BY <2>1, <3>1, <3>2, MoveType DEF Done, DeploymentStatus
    <3> QED
      BY <3>2, <3>3
  <2>3. CASE deployment[j].version # seen[w].version
    BY <1>3, <1>8, <2>1, <2>3 DEF BeginActivation, CompleteActivation, Return, Stale, Version
  <2> QED
    BY <2>2, <2>3
<1> QED
  BY <1>5, <1>6, <1>7, <1>8 DEF Handler

LEMMA SuccessStep ==
  ASSUME TypeOK, QueueProofs!HolderAgrees, \A w \in Workers : SeenAgrees(w),
         FirstVersions, NeverEarly, SuccessMeansDone, [Next]_vars
  PROVE  SuccessMeansDone'
<1> SUFFICES ASSUME NEW w \in Workers, worker'[w].state = "succeeded"
             PROVE  Done(worker[w].job)'
  BY DEF SuccessMeansDone
<1>1. ASSUME worker[w].state = "succeeded", worker'[w].job = worker[w].job
      PROVE  Done(worker[w].job)'
  <2> PICK j \in AllJobs : j = worker[w].job /\ j = worker'[w].job /\ job[j] # Absent
    BY <1>1, RowOfWorker, SameAbsent DEF QueueProofs!IsWorking
  <2>1. Done(j)'
    BY <1>1, RowStep, DoneStays DEF SuccessMeansDone, Appears
  <2> QED
    BY <2>1
<1>2. ASSUME NEW outcome \in {"succeeded", "errored"}, Return(w, outcome), Handler(w)
      PROVE  Done(worker[w].job)'
  <2>1. worker[w] \in Queue!Working /\ worker[w].job \in AllJobs
    BY <1>2, HandlerEffect, RowOfWorker DEF QueueProofs!IsWorking
  <2>2. worker'[w].state = outcome /\ worker'[w].job = worker[w].job
    BY <1>2, <2>1 DEF Return, Queue!HandleAs, Queue!Working, TypeOK, Queue!TypeOK
  <2> PICK j \in AllJobs : j = worker[w].job /\ j = worker'[w].job
    BY <2>1, <2>2
  <2>3. Done(j)'
    BY <1>2, <2>2, ReturnEffect
  <2> QED
    BY <2>3
<1>3. ASSUME worker'[w] = worker[w] PROVE Done(worker[w].job)'
  BY <1>1, <1>3
<1>4. ASSUME NEW v \in Workers, Handler(v) \/ HandlerError(v) PROVE Done(worker[w].job)'
  <2>1. CASE worker'[w] = worker[w]
    BY <1>3, <2>1
  <2>2. CASE v = w /\ HandlerError(v)
    <3>1. worker[w] \in Queue!Working
      BY <2>2, HandlerEffect, RowOfWorker DEF QueueProofs!IsWorking
    <3>2. worker'[w].state = "errored"
      BY <2>2, <3>1 DEF HandlerError, Queue!HandleAs, Queue!Working, TypeOK, Queue!TypeOK
    <3> QED
      BY <3>2
  <2>3. CASE v = w /\ Handler(v) /\ worker'[w] # worker[w]
    <3>1. \E outcome \in {"succeeded", "errored"} : Return(w, outcome)
      BY <2>3 DEF Handler, FindReservation, ExpireReservation, FindDeployment, BeginActivation,
                  CompleteActivation, Hold
    <3> QED
      BY <1>2, <2>3, <3>1
  <2> QED
    BY <1>4, <2>1, <2>2, <2>3, HandlerEffect DEF Queue!HandleAs, TypeOK, Queue!TypeOK
<1>5. ASSUME NEW v \in Workers, Start(v) \/ ClaimJob(v) \/ Record(v) \/ LoseCall(v) \/ Crash(v)
      PROVE  worker'[w] = worker[w]
  <2>1. CASE Start(v)
    BY <2>1 DEF Start, Queue!Start, Queue!Idle, TypeOK, Queue!TypeOK
  <2>2. CASE ClaimJob(v)
    BY <2>2 DEF ClaimJob, Queue!ClaimJob, TypeOK, Queue!TypeOK
  <2>3. CASE Record(v)
    BY <2>3 DEF Record, Queue!Record, Queue!Idle, TypeOK, Queue!TypeOK
  <2>4. CASE LoseCall(v) \/ Crash(v)
    BY <2>4 DEF LoseCall, Crash, Queue!LoseCall, Queue!Crash, Queue!Idle, TypeOK, Queue!TypeOK
  <2> QED
    BY <1>5, <2>1, <2>2, <2>3, <2>4
<1>6. CASE Tick
  <2>1. \/ worker'[w] = worker[w]
        \/ worker'[w].state = worker[w].state /\ worker'[w].job = worker[w].job
    BY <1>6, QueueTypes, QueueConstants, QueueProofs!TickEffect, SameTick DEF Tick
  <2> QED
    BY <1>1, <1>3, <2>1
<1>7. ASSUME \/ UNCHANGED vars
             \/ \E r \in Reservations :
                  (\E ttl \in 1 .. MaxDelay : ReserveCapacity(r, ttl))
                    \/ ReleaseReservation(r) \/ Reconcile(r)
             \/ \E d \in Deployments :
                  \/ CreateDeployment(d) \/ StopDeployment(d)
                  \/ \E next \in DeploymentStatus : AdvanceDeployment(d, next)
      PROVE  worker'[w] = worker[w]
  BY <1>7 DEF vars, ReserveCapacity, ReleaseReservation, Reconcile, CreateDeployment,
              StopDeployment, AdvanceDeployment, Queue!InsertJob
<1> QED
  BY <1>3, <1>4, <1>5, <1>6, <1>7 DEF Next, WorkerStep

\* Faults and errors only get more.
LEMMA CountsGrow ==
  ASSUME TypeOK, [Next]_vars
  PROVE  /\ faults \in 0 .. MaxFaults /\ errors \in 0 .. MaxErrors
         /\ faults' \in Nat /\ errors' \in Nat
         /\ faults' >= faults /\ errors' >= errors
<1>1. faults' \in Nat /\ faults' >= faults
  BY QueueTypes, QueueConstants, QueueProofsStep, QueueProofs!FaultsGrow
<1>2. errors' \in Nat /\ errors' >= errors
  <2>1. ASSUME NEW w \in Workers, Handler(w) PROVE errors' = errors
    BY <2>1 DEF Handler, FindReservation, ExpireReservation, FindDeployment, BeginActivation,
                CompleteActivation, Hold, Return
  <2>2. CASE errors' = errors
    BY <2>2, QueueConstants DEF TypeOK
  <2>3. CASE errors' = errors + 1
    BY <2>3, QueueConstants DEF TypeOK
  <2> QED
    BY <2>1, <2>2, <2>3 DEF Next, WorkerStep, vars, ReserveCapacity, ReleaseReservation,
       Reconcile, CreateDeployment, StopDeployment, AdvanceDeployment, HandlerError,
       Start, ClaimJob, Record, LoseCall, Crash, Tick
<1> QED
  BY <1>1, <1>2 DEF TypeOK, Queue!TypeOK

\* The attempt of an owner goes on, or a fault, an error or a move is its excuse.
LEMMA TryingStep ==
  ASSUME TypeOK, QueueProofs!HolderAgrees, \A w \in Workers : SeenAgrees(w),
         FirstVersions, NeverEarly, [Next]_vars,
         NEW j \in AllJobs, job[j].status = "running", job'[j].owner = job[j].owner,
         ~Done(j), ~Done(j)', Trying(j)
  PROVE  Trying(j)' \/ Excuses(j)' >= Excuses(j) + 1
<1>0. /\ job[j] # Absent /\ QueueProofs!TypeOK
      /\ Moved(j) \in {0, 1} /\ Moved(j)' \in {0, 1}
  BY SameTypes DEF Absent, Moved, TypeOK
<1> PICK w \in Workers : w = job[j].owner
  BY <1>0 DEF QueueProofs!TypeOK, QueueProofs!LeasedRow, QueueProofs!FreeRow,
              QueueProofs!Absent, QueueProofs!Settled, AllJobs
<1>1. /\ worker[w].state = "handling" /\ worker[w].job = j /\ worker[w].lease > 0
      /\ ~Stale(w) /\ QueueProofs!IsWorking(w) /\ worker[w] \in Queue!Working
  <2>1. /\ worker[w].state = "handling" /\ worker[w].job = j /\ worker[w].lease > 0
        /\ ~Stale(w) /\ QueueProofs!IsWorking(w)
    BY DEF Trying, QueueProofs!Held
  <2> QED
    BY <2>1, RowOfWorker
<1>2. CASE Moves(j)
  <2>1. Moved(j) = 0 /\ Moved(j)' = 1
    BY <1>0, <1>2, MoveEffect
  <2> QED
    BY <2>1, CountsGrow, QueueConstants DEF Excuses
<1>3. CASE Stays(j)
  <2>0. Version(j)' = Version(j) /\ Moved(j)' = Moved(j)
    BY <1>3, StayEffect
  <2>1. ASSUME faults' >= faults + 1 \/ errors' >= errors + 1
        PROVE  Excuses(j)' >= Excuses(j) + 1
    BY <1>0, <2>0, <2>1, CountsGrow, QueueConstants DEF Excuses
  <2>2. ASSUME worker'[w].state = "handling", worker'[w].job = j, worker'[w].lease > 0
        PROVE  Trying(j)'
    <3>1. ~Stale(w)'
      <4>1. CASE seen'[w] = NotRead
        BY <4>1 DEF Stale
      <4>2. CASE seen'[w] # NotRead /\ seen'[w] = seen[w]
        BY <1>1, <2>0, <2>2, <4>2 DEF Stale, Version
      <4>3. CASE seen'[w] # NotRead /\ seen'[w].version = Version(worker[w].job)'
        BY <4>3 DEF Stale
      <4> QED
        BY <4>1, <4>2, <4>3, HoldStep
    <3> QED
      BY <2>2, <3>1 DEF Trying, QueueProofs!Held, QueueProofs!IsWorking
  <2>3. CASE worker'[w] = worker[w]
    BY <1>1, <2>2, <2>3
  <2>4. ASSUME NEW v \in Workers, Handler(v), worker'[w] # worker[w] PROVE FALSE
    <3>1. v = w
      BY <2>4, HandlerEffect DEF Queue!HandleAs, TypeOK, Queue!TypeOK
    <3>2. PICK outcome : Return(w, outcome)
      BY <2>4, <3>1 DEF Handler, FindReservation, ExpireReservation, FindDeployment,
                        BeginActivation, CompleteActivation, Hold
    <3> QED
      BY <1>1, <2>4, <3>1, <3>2, ReturnEffect
  <2>5. ASSUME NEW v \in Workers, HandlerError(v) PROVE errors' >= errors + 1
    BY <2>5, QueueConstants DEF HandlerError, TypeOK
  <2>6. ASSUME NEW v \in Workers, LoseCall(v) \/ Crash(v) PROVE faults' >= faults + 1
    <3>1. faults' = faults + 1
      BY <2>6 DEF LoseCall, Crash, Queue!LoseCall, Queue!Crash, Queue!Fault
    <3> QED
      BY <3>1, CountsGrow, QueueConstants
  <2>7. ASSUME NEW v \in Workers, Start(v) \/ ClaimJob(v) \/ Record(v)
        PROVE  worker'[w] = worker[w]
    <3>1. worker[v].state # "handling"
      BY <2>7, NotHandling
    <3>2. \E row : worker' = [worker EXCEPT ![v] = row]
      BY <2>7 DEF Start, ClaimJob, Record, Queue!Start, Queue!ClaimJob, Queue!Record
    <3> QED
      BY <1>1, <3>1, <3>2 DEF TypeOK, Queue!TypeOK
  <2>8. CASE Tick
    <3>1. QueueProofs!Tick
      BY <2>8, SameTick DEF Tick
    <3>2. /\ worker'[w].state = "handling" /\ worker'[w].job = j
          /\ worker'[w].lease = worker[w].lease - 1
      BY <1>0, <1>1, <3>1, QueueConstants, QueueProofs!TickEffect DEF QueueProofs!Less
    <3>3. worker[w].lease \in Nat
      BY <1>1, QueueConstants DEF Queue!Working
    <3>4. CASE worker[w].lease = 1
      <4>1. faults' >= faults + 1
        BY <1>0, <1>1, <3>1, <3>4, QueueConstants, QueueProofs!OverrunEffect
      <4> QED
        BY <2>1, <4>1
    <3>5. CASE worker[w].lease # 1
      BY <1>1, <2>2, <3>2, <3>3, <3>5
    <3> QED
      BY <3>4, <3>5
  <2>9. ASSUME \/ UNCHANGED vars
               \/ \E r \in Reservations :
                    (\E ttl \in 1 .. MaxDelay : ReserveCapacity(r, ttl))
                      \/ ReleaseReservation(r) \/ Reconcile(r)
               \/ \E d \in Deployments :
                    \/ CreateDeployment(d) \/ StopDeployment(d)
                    \/ \E next \in DeploymentStatus : AdvanceDeployment(d, next)
        PROVE  worker'[w] = worker[w]
    BY <2>9 DEF vars, ReserveCapacity, ReleaseReservation, Reconcile, CreateDeployment,
                StopDeployment, AdvanceDeployment, Queue!InsertJob
  <2> QED
    BY <2>1, <2>3, <2>4, <2>5, <2>6, <2>7, <2>8, <2>9 DEF Next, WorkerStep
<1> QED
  BY <1>0, <1>2, <1>3, RowStep DEF Appears

\* A job that nobody took a step on keeps its excuses.
LEMMA ExcusedFrame ==
  ASSUME TypeOK, QueueProofs!HolderAgrees, \A w \in Workers : SeenAgrees(w),
         FirstVersions, NeverEarly, [Next]_vars,
         NEW j \in AllJobs, job[j] # Absent, Excused(j), ~Done(j), ~Done(j)',
         job'[j].status = job[j].status, job'[j].attempts = job[j].attempts,
         job'[j].owner = job[j].owner
  PROVE  Excused(j)'
<1>1. Stays(j) \/ Moves(j)
  BY RowStep DEF Appears
<1>2. Excuses(j) \in Nat /\ Excuses(j)' \in Nat /\ Excuses(j)' >= Excuses(j)
  <2>1. Moved(j)' >= Moved(j) /\ Moved(j) \in {0, 1} /\ Moved(j)' \in {0, 1}
    <3>1. Moved(j) \in {0, 1} /\ Moved(j)' \in {0, 1}
      BY DEF Moved
    <3> QED
      BY <1>1, <3>1, StayEffect, MoveEffect
  <2> QED
    BY <2>1, CountsGrow, QueueConstants DEF Excuses
<1>3. job[j].attempts \in Nat
  BY SameAbsent DEF TypeOK, Queue!TypeOK, Queue!FreeRow, Queue!LeasedRow, AllJobs
<1>4. CASE job[j].status = "running"
  <2>1. job[j].attempts <= Excuses(j) + (IF Trying(j) THEN 1 ELSE 0)
    BY <1>4 DEF Excused
  <2>2. Trying(j) => Trying(j)' \/ Excuses(j)' >= Excuses(j) + 1
    BY <1>4, TryingStep
  <2>3. job'[j].attempts <= Excuses(j)' + (IF Trying(j)' THEN 1 ELSE 0)
    BY <1>2, <1>3, <2>1, <2>2
  <2> QED
    BY <1>4, <2>3 DEF Excused
<1>5. CASE job[j].status # "running"
  BY <1>2, <1>3, <1>5, QueueConstants DEF Excused
<1> QED
  BY <1>4, <1>5

LEMMA ExcusedStep ==
  ASSUME TypeOK, QueueProofs!HolderAgrees, \A w \in Workers : SeenAgrees(w),
         FirstVersions, NeverEarly, SuccessMeansDone, [Next]_vars,
         NEW j \in AllJobs, Excused(j)
  PROVE  Excused(j)'
<1> SUFFICES ASSUME ~Done(j)' PROVE Excused(j)'
  BY DEF Excused
<1>0. /\ QueueProofs!TypeOK /\ TypeOK'
      /\ (j \in Reservations <=> j \notin Deployments)
      /\ faults' + errors' \in Nat /\ Excuses(j)' \in Nat /\ Excuses(j) \in Nat
  <2>1. Moved(j) \in {0, 1} /\ Moved(j)' \in {0, 1}
    BY DEF Moved
  <2> QED
    BY <2>1, SameTypes, TypeStep, TasksAssumption, CountsGrow, QueueConstants
       DEF TypeOK, AllJobs, Excuses
<1>1. CASE job[j] = Absent
  <2>1. CASE job'[j] = Absent
    BY <2>1 DEF Excused, Absent
  <2>2. CASE job'[j] # Absent
    <3>1. Appears(j)
      <4>1. CASE j \in Reservations
        <5>1. reservation[j] = Absent /\ reservation'[j] # Absent
          BY <1>0, <1>1, <2>2, <4>1, SameAbsent DEF TypeOK
        <5>2. reservation'[j] \in ReservationRow
          BY <1>0, <4>1, <5>1 DEF TypeOK
        <5> QED
          BY <4>1, <5>1, <5>2, RowStep
             DEF Stays, Moves, Absent, Live, HoldsCapacity, ReservationRow, ReservationStatus
      <4>2. CASE j \in Deployments
        <5>1. deployment[j] = Absent /\ deployment'[j] # Absent
          BY <1>0, <1>1, <2>2, <4>2, SameAbsent DEF TypeOK
        <5> QED
          BY <1>0, <4>2, <5>1, RowStep DEF Stays, Moves, Absent, DeploymentCanMove
      <4> QED
        BY <4>1, <4>2 DEF AllJobs
    <3> QED
      BY <1>0, <3>1 DEF Appears, Excused
  <2> QED
    BY <2>1, <2>2
<1>2. CASE job[j] # Absent
  <2>0. /\ ~Done(j) /\ job[j].attempts \in Nat
        /\ job[j] \in QueueProofs!FreeRow \cup QueueProofs!LeasedRow
    <3>1. ~Done(j)
      BY <1>2, RowStep, DoneStays DEF Appears
    <3> QED
      BY <1>0, <1>2, <3>1, SameAbsent
         DEF QueueProofs!TypeOK, QueueProofs!FreeRow, QueueProofs!LeasedRow, AllJobs
  <2>1. CASE job'[j] = job[j]
    BY <1>2, <2>0, <2>1, ExcusedFrame
  <2>2. CASE Tick
    <3>1. QueueProofs!Tick
      BY <2>2, SameTick DEF Tick
    <3>2. /\ job'[j].status = job[j].status /\ job'[j].attempts = job[j].attempts
          /\ job'[j].owner = job[j].owner
      BY <1>0, <3>1, QueueConstants, QueueProofs!TickEffect DEF AllJobs
    <3> QED
      BY <1>2, <2>0, <3>2, ExcusedFrame
  <2>3. ASSUME NEW w \in Workers, QueueProofs!IsWorking(w), worker[w].job = j,
               Record(w)
        PROVE  Excused(j)'
    <3>1. QueueProofs!Record(w) /\ rows' = rows /\ errors' = errors
      BY <2>3, SameRecord DEF Record
    <3>2. faults' = faults
      BY <1>0, <3>1, QueueConstants, QueueProofs!RecordEffect
    <3>3. CASE job' = job
      BY <2>1, <3>3
    <3>4. CASE QueueProofs!Owns(w)
      <4> PICK status \in {"pending", "succeeded", "failed"}, available \in Int :
            /\ job' = QueueProofs!Freed(j, status, available)
            /\ status = "succeeded" => worker[w].state = "succeeded"
            /\ status = "failed" => worker[w].attempts >= MaxAttempts
        BY <1>0, <2>3, <3>1, <3>4, QueueConstants, QueueProofs!RecordEffect
      <4>1. /\ job[j].status = "running" /\ job[j].owner = w
            /\ job[j].attempts = worker[w].attempts
        BY <2>3, <3>4 DEF QueueProofs!Owns, QueueProofs!HolderAgrees
      <4>2. job'[j].status = status /\ job'[j].attempts = job[j].attempts
        BY <1>0, <4>1, QueueConstants, QueueProofs!FreedType
           DEF QueueProofs!Open, QueueProofs!Settled, AllJobs
      <4>3. ~Trying(j)
        BY <2>3, <4>1, NotHandling DEF Trying
      <4>4. job[j].attempts <= Excuses(j)
        BY <1>0, <2>0, <4>1, <4>3 DEF Excused
      <4>5. status # "succeeded" /\ (status = "failed" => MaxAttempts <= Excuses(j))
        BY <1>0, <2>0, <2>3, <4>1, <4>4, QueueConstants DEF SuccessMeansDone
      <4>6. Excuses(j)' = Excuses(j)
        BY <3>1, <3>2 DEF Excuses, Moved, rows
      <4> QED
        BY <4>2, <4>4, <4>5, <4>6 DEF Excused
    <3> QED
      BY <1>0, <3>1, <3>3, <3>4, QueueConstants, QueueProofs!RecordEffect
  <2>4. ASSUME NEW v \in Workers, ClaimJob(v), job'[j] # job[j] PROVE Excused(j)'
    <3>1. QueueProofs!ClaimJob(v) /\ rows' = rows /\ errors' = errors /\ seen' = seen
      BY <2>4, SameClaim DEF ClaimJob
    <3> PICK k \in AllJobs :
          /\ QueueProofs!Claimable(k) /\ worker[v] = QueueProofs!Idle /\ faults' = faults
          /\ job'[k] \in QueueProofs!LeasedRow
          /\ job'[k].attempts = job[k].attempts + 1
          /\ job'[k].owner = v
          /\ job' = [job EXCEPT ![k] = job'[k]]
          /\ worker' = [worker EXCEPT
               ![v] = [state |-> "handling", job |-> k,
                       attempts |-> job[k].attempts + 1, lease |-> Lease]]
      BY <1>0, <3>1, QueueConstants, QueueProofs!ClaimEffect DEF AllJobs
    <3>2. k = j
      BY <2>4 DEF TypeOK, Queue!TypeOK, AllJobs
    <3>3. job[j].attempts <= Excuses(j)
      <4>1. CASE job[j].status = "pending"
        BY <2>0, <4>1 DEF Excused
      <4>2. CASE job[j].status = "running"
        <5>1. job[j].lease = 0 /\ job[j].owner \in Workers
          BY <2>0, <3>2, <4>2 DEF QueueProofs!Claimable, QueueProofs!LeasedRow,
                                  QueueProofs!FreeRow, QueueProofs!Settled
        <5>2. ~Trying(j)
          BY <4>2, <5>1 DEF Trying, QueueProofs!Held, QueueProofs!HolderAgrees,
                            QueueProofs!Owns
        <5> QED
          BY <1>0, <2>0, <4>2, <5>2 DEF Excused
      <4> QED
        BY <3>2, <4>1, <4>2 DEF QueueProofs!Claimable, QueueProofs!Open
    <3>4. Trying(j)'
      <4>1. /\ job'[j].owner = v /\ worker'[v].state = "handling" /\ worker'[v].job = j
            /\ worker'[v].lease > 0
        BY <3>2, QueueConstants DEF TypeOK, Queue!TypeOK
      <4>2. seen'[v] = NotRead
        BY <2>4, <3>1, NotHandling DEF TypeOK
      <4> QED
        BY <4>1, <4>2 DEF Trying, Stale, QueueProofs!Held, QueueProofs!IsWorking
    <3>5. Excuses(j)' = Excuses(j) /\ job'[j].status = "running"
      BY <3>1, <3>2 DEF Excuses, Moved, rows, QueueProofs!LeasedRow
    <3> QED
      BY <1>0, <2>0, <3>2, <3>3, <3>4, <3>5 DEF Excused
  <2>5. ASSUME ~Tick, ~\E w \in Workers : ClaimJob(w) \/ Record(w) PROVE job'[j] = job[j]
    BY <1>2, <2>5, HandlerEffect, SameAbsent
       DEF Next, WorkerStep, vars, ReserveCapacity, ReleaseReservation, Reconcile,
           CreateDeployment, StopDeployment, AdvanceDeployment, Start, LoseCall, Crash,
           Queue!InsertJob, Queue!Start, Queue!LoseCall, Queue!Crash, TypeOK, Queue!TypeOK, AllJobs
  <2>6. ASSUME NEW w \in Workers, Record(w), job'[j] # job[j]
        PROVE  QueueProofs!IsWorking(w) /\ worker[w].job = j
    <3>1. QueueProofs!Record(w)
      BY <2>6, SameRecord DEF Record
    <3>2. /\ QueueProofs!IsWorking(w)
          /\ \E status, available : job' = QueueProofs!Freed(worker[w].job, status, available)
      BY <1>0, <2>6, <3>1, QueueConstants, QueueProofs!RecordEffect
    <3> QED
      BY <2>6, <3>2 DEF QueueProofs!Freed, TypeOK, Queue!TypeOK, AllJobs
  <2> QED
    BY <2>1, <2>2, <2>3, <2>4, <2>5, <2>6
<1> QED
  BY <1>1, <1>2

-----------------------------------------------------------------------------

LEMMA InvariantStep ==
  ASSUME IInv, [Next]_vars
  PROVE  IInv'
BY TypeStep, HolderStep, FirstVersionsStep, SeenStep, NeverEarlyStep, SuccessStep, ExcusedStep
   DEF IInv

LEMMA InvariantInit == Init => IInv
<1> SUFFICES ASSUME Init PROVE IInv
  OBVIOUS
<1>1. /\ \A j \in AllJobs : job[j] = Queue!Absent
      /\ \A r \in Reservations : reservation[r] = Absent
      /\ \A d \in Deployments : deployment[d] = Absent
      /\ \A w \in Workers : seen[w] = NotRead /\ worker[w] = [state |-> "new"]
  BY DEF Init, Queue!Init, AllJobs
<1> QED
  BY <1>1, TypeInit
     DEF IInv, FirstVersions, SeenAgrees, NeverEarly, SuccessMeansDone, Excused, Live,
         HoldsCapacity, Absent, Queue!Absent, QueueProofs!HolderAgrees, QueueProofs!IsWorking

\* A job that succeeded has done its work or found it done, and one that failed
\* for good has lost each of its attempts to a fault, a failed statement or the
\* one move of an operator that may get in its way, whatever max_attempts is.
THEOREM EndedMeansDone == Spec => []SettledMeansDone
<1>1. IInv => SettledMeansDone
  <2> SUFFICES ASSUME IInv, NEW j \in AllJobs
               PROVE  /\ job[j].status = "succeeded" => Done(j)
                      /\ job[j].status = "failed" => Done(j) \/ Excuses(j) >= MaxAttempts
    BY DEF SettledMeansDone, AllJobs
  <2>1. Moved(j) \in {0, 1}
    BY DEF Moved
  <2>2. Excuses(j) \in Nat
    BY <2>1, QueueConstants DEF IInv, TypeOK, Queue!TypeOK, Excuses
  <2> QED
    BY <2>2, QueueConstants DEF IInv, Excused
<1> QED
  BY <1>1, InvariantInit, InvariantStep, PTL DEF Spec
=============================================================================
