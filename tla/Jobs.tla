-------------------------------- MODULE Jobs --------------------------------
(***************************************************************************)
(* The jobs table and the workers that lease its rows.                     *)
(*                                                                         *)
(* A worker claims one job, runs its handler, and records the outcome with *)
(* an UPDATE that names it as the owner. A job whose worker is gone becomes *)
(* claimable again when its lease is over, so several workers may be       *)
(* handling the same job. Every process draws a new owner name when it     *)
(* starts: a worker that died never comes back under its name.             *)
(*                                                                         *)
(* Time is counted relative to now, in ticks: available_at and lease_until *)
(* are the ticks left until then. A tick is longer than one SQL statement, *)
(* so a clock reading and the statement that uses it are one step.         *)
(***************************************************************************)
EXTENDS Integers, FiniteSets

CONSTANTS
  Jobs,         \* rows of the jobs table
  Workers,      \* lease owners, one for each start of a process
  NoOwner,      \* lease_owner IS NULL
  MaxAttempts,  \* max_attempts of a job
  Lease,        \* ticks a claim lasts
  MaxDelay,     \* the latest a job becomes available after its insertion
  MaxWait,      \* jobs available for MaxWait ticks or more are not told apart
  MaxFaults     \* crashes, failed calls and overrun leases there may be

ASSUME JobsAssumption ==
  /\ IsFiniteSet(Workers)
  /\ NoOwner \notin Workers
  /\ MaxAttempts \in Nat \ {0}
  /\ Lease \in Nat \ {0}
  /\ MaxDelay \in Nat
  /\ MaxWait \in Nat
  /\ MaxFaults \in Nat

VARIABLES
  job,      \* the jobs table
  worker,   \* what each worker does and the job it has in memory
  faults    \* how many of the MaxFaults faults have happened

vars == <<job, worker, faults>>

Absent == [status |-> "absent"]

Open    == {"pending", "running"}
Settled == {"succeeded", "failed", "cancelled"}

FreeRow   == [status : {"pending"} \cup Settled, attempts : Nat, available : Int,
              owner : {NoOwner}, lease : {0}]
LeasedRow == [status : {"running"}, attempts : Nat \ {0}, available : Int,
              owner : Workers, lease : 0 .. Lease]

Resting == [state : {"new", "idle", "dead"}]
Working == [state : {"handling", "succeeded", "errored"}, job : Jobs,
            attempts : Nat \ {0}, lease : 0 .. Lease]

IsWorking(w) == worker[w].state \in {"handling", "succeeded", "errored"}

Idle == [state |-> "idle"]

Init ==
  /\ job = [j \in Jobs |-> Absent]
  /\ worker = [w \in Workers |-> [state |-> "new"]]
  /\ faults = 0

Fault(n) == faults + n <= MaxFaults /\ faults' = faults + n

-----------------------------------------------------------------------------
(* The jobs table *)

InsertJob(j, delay) ==
  /\ job[j] = Absent
  /\ job' = [job EXCEPT
       ![j] = [status |-> "pending", attempts |-> 0, available |-> delay,
               owner |-> NoOwner, lease |-> 0]]
  /\ UNCHANGED <<worker, faults>>

\* Mutants: the lease is not looked at; only pending jobs are claimed.
ClaimableAnyLease(j) == job[j].status \in Open /\ job[j].available <= 0
ClaimablePending(j)  == job[j].status = "pending" /\ job[j].available <= 0

Claimable(j) ==
  /\ job[j].status \in Open
  /\ job[j].available <= 0
  /\ job[j].status = "pending" \/ job[j].lease = 0

\* ORDER BY available_at, id LIMIT 1. Ids are random: any of the earliest.
Earliest(j) ==
  \A k \in Jobs : Claimable(k) => job[j].available <= job[k].available

ClaimJob(w) ==
  /\ worker[w] = Idle
  /\ \E j \in Jobs :
       /\ Claimable(j)
       /\ Earliest(j)
       /\ job' = [job EXCEPT
            ![j].status = "running", ![j].attempts = @ + 1,
            ![j].owner = w, ![j].lease = Lease]
       /\ worker' = [worker EXCEPT
            ![w] = [state |-> "handling", job |-> j,
                    attempts |-> job[j].attempts + 1, lease |-> Lease]]
  /\ UNCHANGED faults

\* The row of j when its lease is given up.
Freed(j, status, available) ==
  [job EXCEPT ![j].status = status, ![j].available = available,
              ![j].owner = NoOwner, ![j].lease = 0]

\* Mutant: CancelJob leaves the lease on the row.
CancelJobKeepingLease(j) ==
  /\ job[j].status \in Open
  /\ job' = [job EXCEPT ![j].status = "cancelled"]
  /\ UNCHANGED <<worker, faults>>

\* Part of the store's contract; nothing in the program calls it yet.
CancelJob(j) ==
  /\ job[j].status \in Open
  /\ job' = Freed(j, "cancelled", job[j].available)
  /\ UNCHANGED <<worker, faults>>

\* Seconds to wait after the given attempt: 1, 2, 4, ... 128.
Backoff(attempts) == 2 ^ (IF attempts > 8 THEN 7 ELSE attempts - 1)

\* Mutant: one attempt too many.
IsLastAttemptLate(attempts) == attempts > MaxAttempts

IsLastAttempt(attempts) == attempts >= MaxAttempts

\* Mutant: the WHERE clause has only the id of the job.
OwnsAnyway(w) == TRUE

\* WHERE status = 'running' AND lease_owner = w. The lease may be over.
Owns(w) ==
  LET j == worker[w].job IN job[j].status = "running" /\ job[j].owner = w

CompleteJob(w) ==
  /\ worker[w].state = "succeeded"
  /\ LET j == worker[w].job IN
       job' = IF Owns(w) THEN Freed(j, "succeeded", job[j].available) ELSE job

RetryJob(w) ==
  /\ worker[w].state = "errored"
  /\ LET j == worker[w].job
         n == worker[w].attempts IN
       job' = IF ~Owns(w) THEN job
              ELSE IF IsLastAttempt(n) THEN Freed(j, "failed", 0)
              ELSE Freed(j, "pending", Backoff(n))

-----------------------------------------------------------------------------
(* Workers *)

Start(w) ==
  /\ worker[w].state = "new"
  /\ worker' = [worker EXCEPT ![w] = Idle]
  /\ UNCHANGED <<job, faults>>

\* The handler returns. What it did to the other tables is modelled in Tasks.
HandleAs(w, outcome) ==
  /\ worker[w].state = "handling"
  /\ worker' = [worker EXCEPT ![w].state = outcome]
  /\ UNCHANGED <<job, faults>>

Handle(w) == \E outcome \in {"succeeded", "errored"} : HandleAs(w, outcome)

\* An UPDATE that changes no row is only logged.
Record(w) ==
  /\ CompleteJob(w) \/ RetryJob(w)
  /\ worker' = [worker EXCEPT ![w] = Idle]
  /\ UNCHANGED faults

\* The statement that records the outcome fails: the row stays as it is.
LoseCall(w) ==
  /\ worker[w].state \in {"succeeded", "errored"}
  /\ Fault(1)
  /\ worker' = [worker EXCEPT ![w] = Idle]
  /\ UNCHANGED job

\* The process dies, or is told to stop and its context is cancelled, while
\* another one is running or still to be started.
Crash(w) ==
  /\ worker[w] = Idle \/ IsWorking(w)
  /\ \E v \in Workers \ {w} : worker[v].state # "dead"
  /\ Fault(1)
  /\ worker' = [worker EXCEPT ![w] = [state |-> "dead"]]
  /\ UNCHANGED job

\* A second passes. A handler that outlives its lease is a fault.
Tick ==
  /\ Fault(Cardinality({w \in Workers : IsWorking(w) /\ worker[w].lease = 1}))
  /\ job' = [j \in Jobs |->
       IF job[j].status \notin Open THEN job[j]
       ELSE [job[j] EXCEPT
         !.available = IF @ > -MaxWait THEN @ - 1 ELSE @,
         !.lease     = IF @ > 0 THEN @ - 1 ELSE 0]]
  /\ worker' = [w \in Workers |->
       IF IsWorking(w)
       THEN [worker[w] EXCEPT !.lease = IF @ > 0 THEN @ - 1 ELSE 0]
       ELSE worker[w]]

WorkerStep(w) == Start(w) \/ ClaimJob(w) \/ Handle(w) \/ Record(w)

Next ==
  \/ \E j \in Jobs : (\E delay \in 0 .. MaxDelay : InsertJob(j, delay)) \/ CancelJob(j)
  \/ \E w \in Workers : WorkerStep(w) \/ LoseCall(w) \/ Crash(w)
  \/ Tick

\* Worker.Run claims again after every poll until its process ends, every
\* handler is a bounded series of SQL statements, time passes, and whoever
\* runs the service starts it again. Nobody has to insert or cancel a job.
Fairness == WF_vars(Tick) /\ \A w \in Workers : WF_vars(WorkerStep(w))

Spec == Init /\ [][Next]_vars /\ Fairness

-----------------------------------------------------------------------------
(* Properties *)

\* A row has an owner and a lease exactly while it is running, and a worker
\* that works has the job it claimed.
TypeOK ==
  /\ job \in [Jobs -> {Absent} \cup FreeRow \cup LeasedRow]
  /\ worker \in [Workers -> Resting \cup Working]
  /\ faults \in 0 .. MaxFaults

\* A worker has its job to itself until its lease is over: the row is still
\* running in its name, unless somebody cancelled the job.
LeaseExclusive ==
  \A w \in Workers : IsWorking(w) /\ worker[w].lease > 0 =>
    \/ Owns(w) /\ job[worker[w].job].lease = worker[w].lease
    \/ job[worker[w].job].status = "cancelled"

\* A job waits only while it has attempts left and fails only when it has used
\* them all. It may be tried more often than max_attempts says, but only once
\* more for each crash, failed call or overrun lease.
RetryBudget ==
  \A j \in Jobs :
    /\ job[j].status = "pending" => job[j].attempts < MaxAttempts
    /\ job[j].status = "failed"  => job[j].attempts >= MaxAttempts
    /\ job[j] # Absent => job[j].attempts <= MaxAttempts + faults

\* However late a worker reports, a job that came to its end stays as it is.
SettledForever ==
  [][\A j \in Jobs : job[j].status \in Settled => job'[j] = job[j]]_vars

\* The report of a worker that lost its lease to another one changes nothing.
OnlyOwnerFinishes ==
  [][\A j \in Jobs :
       job[j].status = "running" /\ job'[j].status \in {"pending", "succeeded", "failed"} =>
         \E w \in Workers :
           /\ job[j].owner = w
           /\ IsWorking(w) /\ worker[w].job = j /\ worker[w].attempts = job[j].attempts
           /\ worker'[w] = Idle]_vars

\* Every job comes to its end, although workers die holding its lease.
JobsSettle ==
  \A j \in Jobs : job[j] # Absent ~> job[j].status \in Settled
=============================================================================
