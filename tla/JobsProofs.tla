----------------------------- MODULE JobsProofs -----------------------------
(***************************************************************************)
(* The leased queue, for any jobs, workers, leases and faults: leases      *)
(* exclude, late reports change nothing, attempts are accounted for.       *)
(***************************************************************************)
EXTENDS Jobs, FiniteSetTheorems, TLAPS

Row == FreeRow \cup LeasedRow

\* What the row of a job and the worker that works on it know of each other.
HolderAgrees ==
  \A w \in Workers : IsWorking(w) =>
    /\ job[worker[w].job].status # "absent"
    /\ Owns(w) => /\ job[worker[w].job].lease = worker[w].lease
                  /\ job[worker[w].job].attempts = worker[w].attempts
    /\ worker[w].lease > 0 => Owns(w) \/ job[worker[w].job].status = "cancelled"

\* The owner of j is at work on it, within its lease.
Held(j) ==
  LET w == job[j].owner IN
    IsWorking(w) /\ worker[w].job = j /\ worker[w].lease > 0

\* The attempts of j: RetryBudget, and a running job that nobody holds any more
\* has had a fault that is not yet used up by an attempt.
Budget(j) ==
  /\ job[j].status = "pending" => job[j].attempts < MaxAttempts
  /\ job[j].status = "failed"  => job[j].attempts >= MaxAttempts
  /\ job[j] # Absent => job[j].attempts <= MaxAttempts + faults
  /\ job[j].status = "running" => Held(j) \/ job[j].attempts < MaxAttempts + faults

\* The inductive invariant.
IInv == TypeOK /\ HolderAgrees /\ \A j \in Jobs : Budget(j)

\* A row that is not absent has all its fields.
LEMMA Rows ==
  ASSUME TypeOK, NEW j \in Jobs, job[j].status # "absent"
  PROVE  job[j] \in Row
BY DEF TypeOK, Absent, Row

\* The delays of RetryJob are whole numbers of seconds.
LEMMA BackoffType ==
  ASSUME NEW n \in Nat \ {0}
  PROVE  Backoff(n) \in Int
BY DEF Backoff

\* Giving a lease up leaves a row that is free.
LEMMA FreedType ==
  ASSUME TypeOK, NEW j \in Jobs, job[j].status \in Open,
         NEW status \in {"pending"} \cup Settled, NEW available \in Int
  PROVE  /\ Freed(j, status, available) \in [Jobs -> {Absent} \cup FreeRow \cup LeasedRow]
         /\ Freed(j, status, available)[j] \in FreeRow
         /\ Freed(j, status, available)[j].status = status
         /\ Freed(j, status, available)[j].attempts = job[j].attempts
         /\ \A k \in Jobs \ {j} : Freed(j, status, available)[k] = job[k]
<1>1. job[j] \in Row
  BY Rows DEF Open
<1>2. [job[j] EXCEPT !.status = status, !.available = available,
                     !.owner = NoOwner, !.lease = 0] \in FreeRow
  BY <1>1 DEF Row, FreeRow, LeasedRow
<1> QED
  BY <1>1, <1>2 DEF Freed, TypeOK, Row, FreeRow, LeasedRow

-----------------------------------------------------------------------------
(* What the steps do *)

\* A worker that claims a job has a row of that job in its name.
LEMMA ClaimEffect ==
  ASSUME TypeOK, NEW w \in Workers, ClaimJob(w)
  PROVE  \E j \in Jobs :
           /\ Claimable(j) /\ worker[w] = Idle /\ faults' = faults
           /\ job[j] \in Row
           /\ job'[j] \in LeasedRow
           /\ job'[j].attempts = job[j].attempts + 1
           /\ job'[j].owner = w /\ job'[j].lease = Lease
           /\ job' = [job EXCEPT ![j] = job'[j]]
           /\ worker' = [worker EXCEPT
                ![w] = [state |-> "handling", job |-> j,
                        attempts |-> job[j].attempts + 1, lease |-> Lease]]
           /\ worker'[w] \in Working
<1> PICK j \in Jobs :
      /\ Claimable(j)
      /\ job' = [job EXCEPT ![j].status = "running", ![j].attempts = @ + 1,
                            ![j].owner = w, ![j].lease = Lease]
      /\ worker' = [worker EXCEPT
           ![w] = [state |-> "handling", job |-> j,
                   attempts |-> job[j].attempts + 1, lease |-> Lease]]
  BY DEF ClaimJob
<1>1. job[j] \in Row
  BY Rows DEF Claimable, Open
<1>2. job[j].attempts + 1 \in Nat \ {0} /\ job[j].available \in Int /\ Lease \in 0 .. Lease
  BY <1>1, JobsAssumption DEF Row, FreeRow, LeasedRow
<1>3. job'[j] = [job[j] EXCEPT !.status = "running", !.attempts = @ + 1,
                               !.owner = w, !.lease = Lease]
  BY DEF TypeOK
<1>4. /\ [job[j] EXCEPT !.status = "running", !.attempts = @ + 1,
                        !.owner = w, !.lease = Lease] \in LeasedRow
      /\ job'[j].attempts = job[j].attempts + 1
      /\ job'[j].owner = w /\ job'[j].lease = Lease
  <2>1. [job[j] EXCEPT !.status = "running", !.attempts = @ + 1,
                       !.owner = w, !.lease = Lease] \in LeasedRow
    BY <1>1, <1>2 DEF Row, FreeRow, LeasedRow
  <2>2. /\ job'[j].attempts = job[j].attempts + 1
        /\ job'[j].owner = w /\ job'[j].lease = Lease
    BY <1>1, <1>3 DEF Row, FreeRow, LeasedRow
  <2> QED
    BY <2>1, <2>2
<1>5. job' = [job EXCEPT ![j] = job'[j]]
  BY <1>3 DEF TypeOK
<1>6. worker'[w] \in Working
  BY <1>2 DEF TypeOK, Working
<1> QED
  BY <1>1, <1>3, <1>4, <1>5, <1>6 DEF ClaimJob

\* A report changes the row only in the name of its owner, and then frees it.
LEMMA RecordEffect ==
  ASSUME TypeOK, NEW w \in Workers, Record(w)
  PROVE  /\ worker[w] \in Working /\ IsWorking(w)
         /\ worker' = [worker EXCEPT ![w] = Idle]
         /\ faults' = faults
         /\ \/ job' = job /\ ~Owns(w)
            \/ /\ Owns(w)
               /\ \E status \in {"pending", "succeeded", "failed"}, available \in Int :
                    /\ job' = Freed(worker[w].job, status, available)
                    /\ status = "succeeded" => worker[w].state = "succeeded"
                    /\ status = "pending" => worker[w].attempts < MaxAttempts
                    /\ status = "failed" => worker[w].attempts >= MaxAttempts
<1> DEFINE j == worker[w].job
           n == worker[w].attempts
<1>1. worker[w] \in Working /\ IsWorking(w)
  BY DEF Record, CompleteJob, RetryJob, TypeOK, Resting, IsWorking
<1>2. j \in Jobs /\ n \in Nat \ {0}
  BY <1>1 DEF Working
<1>3. CASE ~Owns(w)
  BY <1>1, <1>3 DEF Record, CompleteJob, RetryJob
<1>4. CASE Owns(w)
  <2>1. job[j].available \in Int
    BY <1>2, <1>4, Rows DEF Owns, Row, FreeRow, LeasedRow
  <2>2. Backoff(n) \in Int
    BY <1>2, BackoffType
  <2>3. CASE CompleteJob(w)
    BY <1>1, <1>4, <2>1, <2>3 DEF Record, CompleteJob
  <2>4. CASE RetryJob(w) /\ IsLastAttempt(n)
    BY <1>1, <1>2, <1>4, <2>4, JobsAssumption DEF Record, RetryJob, IsLastAttempt
  <2>5. CASE RetryJob(w) /\ ~IsLastAttempt(n)
    BY <1>1, <1>2, <1>4, <2>2, <2>5, JobsAssumption DEF Record, RetryJob, IsLastAttempt
  <2> QED
    BY <2>3, <2>4, <2>5 DEF Record
<1> QED
  BY <1>3, <1>4

\* What Tick does to leases.
Less(n) == IF n > 0 THEN n - 1 ELSE 0

\* Time passes for rows and workers alike and changes nothing else of them that
\* the properties look at.
LEMMA TickEffect ==
  ASSUME TypeOK, Tick
  PROVE  /\ job' \in [Jobs -> {Absent} \cup FreeRow \cup LeasedRow]
         /\ worker' \in [Workers -> Resting \cup Working]
         /\ \A j \in Jobs :
              /\ job[j].status \notin Open => job'[j] = job[j]
              /\ job[j].status \in Open =>
                   /\ job[j] \in Row
                   /\ job'[j].status = job[j].status
                   /\ job'[j].attempts = job[j].attempts
                   /\ job'[j].owner = job[j].owner
                   /\ job'[j].lease = Less(job[j].lease)
         /\ \A w \in Workers :
              /\ ~IsWorking(w) => worker'[w] = worker[w]
              /\ IsWorking(w) =>
                   /\ worker[w] \in Working
                   /\ worker'[w].state = worker[w].state
                   /\ worker'[w].job = worker[w].job
                   /\ worker'[w].attempts = worker[w].attempts
                   /\ worker'[w].lease = Less(worker[w].lease)
<1>1. ASSUME NEW j \in Jobs, job[j].status \in Open
      PROVE  /\ job[j] \in Row
             /\ job'[j] \in {Absent} \cup FreeRow \cup LeasedRow
             /\ job'[j].status = job[j].status
             /\ job'[j].attempts = job[j].attempts
             /\ job'[j].owner = job[j].owner
             /\ job'[j].lease = Less(job[j].lease)
  <2>1. job[j] \in Row
    BY <1>1, Rows DEF Open
  <2>2. job'[j] = [job[j] EXCEPT !.available = IF @ > -MaxWait THEN @ - 1 ELSE @,
                                 !.lease = Less(@)]
    BY <1>1 DEF Tick, Less
  <2>3. /\ (IF job[j].available > -MaxWait THEN job[j].available - 1
            ELSE job[j].available) \in Int
        /\ Less(job[j].lease) \in 0 .. Lease
        /\ job[j].lease = 0 => Less(job[j].lease) = 0
    BY <2>1, JobsAssumption DEF Row, FreeRow, LeasedRow, Less
  <2>4. CASE job[j] \in FreeRow
    BY <2>1, <2>2, <2>3, <2>4 DEF FreeRow
  <2>5. CASE job[j] \in LeasedRow
    BY <2>1, <2>2, <2>3, <2>5 DEF LeasedRow
  <2> QED
    BY <2>1, <2>4, <2>5 DEF Row
<1>2. ASSUME NEW j \in Jobs, job[j].status \notin Open
      PROVE  job'[j] = job[j] /\ job'[j] \in {Absent} \cup FreeRow \cup LeasedRow
  BY <1>2 DEF Tick, TypeOK
<1>3. ASSUME NEW w \in Workers, IsWorking(w)
      PROVE  /\ worker[w] \in Working
             /\ worker'[w] \in Working
             /\ worker'[w].state = worker[w].state
             /\ worker'[w].job = worker[w].job
             /\ worker'[w].attempts = worker[w].attempts
             /\ worker'[w].lease = Less(worker[w].lease)
  <2>1. worker[w] \in Working
    BY <1>3 DEF TypeOK, IsWorking, Resting
  <2>2. worker'[w] = [worker[w] EXCEPT !.lease = Less(@)]
    BY <1>3 DEF Tick, Less
  <2>3. Less(worker[w].lease) \in 0 .. Lease
    BY <2>1, JobsAssumption DEF Working, Less
  <2> QED
    BY <2>1, <2>2, <2>3 DEF Working
<1>4. ASSUME NEW w \in Workers, ~IsWorking(w)
      PROVE  worker'[w] = worker[w] /\ worker'[w] \in Resting \cup Working
  BY <1>4 DEF Tick, TypeOK
<1>5. job' \in [Jobs -> {Absent} \cup FreeRow \cup LeasedRow]
  BY <1>1, <1>2 DEF Tick
<1>6. worker' \in [Workers -> Resting \cup Working]
  BY <1>3, <1>4 DEF Tick
<1> QED
  BY <1>1, <1>2, <1>3, <1>4, <1>5, <1>6

\* Rows come and go with nothing but InsertJob.
LEMMA Presence ==
  ASSUME TypeOK, Tick \/ \E w \in Workers : ClaimJob(w) \/ Record(w), NEW j \in Jobs
  PROVE  job'[j] = Absent <=> job[j] = Absent
<1>1. CASE Tick
  BY <1>1, TickEffect DEF Absent, Open, TypeOK, Row, FreeRow, LeasedRow
<1>2. ASSUME NEW w \in Workers, ClaimJob(w) PROVE job'[j] = Absent <=> job[j] = Absent
  <2>1. PICK k \in Jobs : job[k] \in Row /\ job'[k] \in LeasedRow /\ job' = [job EXCEPT ![k] = job'[k]]
    BY <1>2, ClaimEffect
  <2>2. job[k] # Absent /\ job'[k] # Absent
    BY <2>1 DEF Row, FreeRow, LeasedRow, Absent, Settled
  <2> QED
    BY <2>1, <2>2 DEF TypeOK
<1>3. ASSUME NEW w \in Workers, Record(w) PROVE job'[j] = Absent <=> job[j] = Absent
  <2>1. CASE job' = job
    BY <2>1
  <2>2. CASE Owns(w)
    <3> DEFINE k == worker[w].job
    <3>1. k \in Jobs /\ job[k].status \in Open
      BY <1>3, <2>2, RecordEffect DEF Working, Owns, Open
    <3>2. /\ job'[k] \in FreeRow
          /\ \A i \in Jobs \ {k} : job'[i] = job[i]
      BY <1>3, <2>2, <3>1, RecordEffect, FreedType DEF Settled
    <3>3. job[k] # Absent /\ job'[k] # Absent
      BY <3>1, <3>2 DEF Open, FreeRow, Absent, Settled
    <3> QED
      BY <3>2, <3>3
  <2> QED
    BY <1>3, <2>1, <2>2, RecordEffect
<1> QED
  BY <1>1, <1>2, <1>3

-----------------------------------------------------------------------------
(* Types *)

LEMMA TypeInit == Init => TypeOK
BY JobsAssumption DEF Init, TypeOK, Resting

\* A fault is counted, and the count stays within its bound.
LEMMA FaultType ==
  ASSUME TypeOK, NEW n \in Nat, Fault(n)
  PROVE  faults' = faults + n /\ faults' \in 0 .. MaxFaults
BY JobsAssumption DEF TypeOK, Fault

\* The workers a tick makes overrun their leases.
Overrun == {w \in Workers : IsWorking(w) /\ worker[w].lease = 1}

LEMMA OverrunCount == IsFiniteSet(Overrun) /\ Cardinality(Overrun) \in Nat
  /\ (Overrun # {} => Cardinality(Overrun) > 0)
<1>1. IsFiniteSet(Overrun)
  BY JobsAssumption, FS_Subset DEF Overrun
<1>2. Cardinality(Overrun) \in Nat /\ (Cardinality(Overrun) = 0 <=> Overrun = {})
  BY <1>1, FS_CardinalityType, FS_EmptySet
<1> QED
  BY <1>1, <1>2

LEMMA OverrunEffect ==
  ASSUME TypeOK, Tick, NEW w \in Workers, IsWorking(w), worker[w].lease = 1
  PROVE  faults' >= faults + 1
<1>1. faults' = faults + Cardinality(Overrun)
  BY DEF Tick, Fault, Overrun
<1>2. Cardinality(Overrun) \in Nat /\ Cardinality(Overrun) > 0
  BY OverrunCount DEF Overrun
<1> QED
  BY <1>1, <1>2, JobsAssumption DEF TypeOK

LEMMA TypeStep ==
  ASSUME TypeOK, [Next]_vars
  PROVE  TypeOK'
<1>1. ASSUME NEW j \in Jobs, NEW delay \in 0 .. MaxDelay, InsertJob(j, delay) PROVE TypeOK'
  <2>1. job'[j] \in FreeRow /\ job' \in [Jobs -> {Absent} \cup FreeRow \cup LeasedRow]
    BY <1>1, JobsAssumption DEF InsertJob, TypeOK, FreeRow
  <2> QED
    BY <1>1, <2>1 DEF InsertJob, TypeOK
<1>2. ASSUME NEW j \in Jobs, CancelJob(j) PROVE TypeOK'
  <2>1. job[j].available \in Int
    BY <1>2, Rows DEF CancelJob, Open, Row, FreeRow, LeasedRow
  <2> QED
    BY <1>2, <2>1, FreedType DEF CancelJob, TypeOK, Settled
<1>3. ASSUME NEW w \in Workers, Start(w) PROVE TypeOK'
  BY <1>3 DEF Start, TypeOK, Idle, Resting
<1>4. ASSUME NEW w \in Workers, ClaimJob(w) PROVE TypeOK'
  BY <1>4, ClaimEffect DEF TypeOK
<1>5. ASSUME NEW w \in Workers, Handle(w) PROVE TypeOK'
  <2> PICK outcome \in {"succeeded", "errored"} : HandleAs(w, outcome)
    BY <1>5 DEF Handle
  <2>1. worker[w] \in Working
    BY DEF HandleAs, TypeOK, Resting
  <2>2. [worker[w] EXCEPT !.state = outcome] \in Working
    BY <2>1 DEF Working
  <2> QED
    BY <2>2 DEF HandleAs, TypeOK
<1>6. ASSUME NEW w \in Workers, Record(w) PROVE TypeOK'
  <2>1. /\ worker' \in [Workers -> Resting \cup Working]
        /\ worker[w].job \in Jobs
    BY <1>6, RecordEffect DEF TypeOK, Idle, Resting, Working
  <2>2. job' \in [Jobs -> {Absent} \cup FreeRow \cup LeasedRow]
    BY <1>6, <2>1, RecordEffect, FreedType DEF TypeOK, Owns, Open, Settled
  <2> QED
    BY <1>6, <2>1, <2>2, RecordEffect DEF TypeOK
<1>7. ASSUME NEW w \in Workers, LoseCall(w) \/ Crash(w) PROVE TypeOK'
  <2>1. faults' \in 0 .. MaxFaults
    BY <1>7, FaultType DEF LoseCall, Crash
  <2> QED
    BY <1>7, <2>1 DEF LoseCall, Crash, TypeOK, Idle, Resting
<1>8. ASSUME Tick PROVE TypeOK'
  <2>1. faults' \in 0 .. MaxFaults
    BY <1>8, FaultType, OverrunCount DEF Tick, Overrun
  <2> QED
    BY <1>8, <2>1, TickEffect DEF TypeOK
<1>9. CASE UNCHANGED vars
  BY <1>9 DEF vars, TypeOK
<1> QED
  BY <1>1, <1>2, <1>3, <1>4, <1>5, <1>6, <1>7, <1>8, <1>9 DEF Next, WorkerStep

LEMMA FaultsGrow ==
  ASSUME TypeOK, [Next]_vars
  PROVE  faults \in Nat /\ faults' \in Nat /\ faults' >= faults
<1>0. faults \in Nat
  BY JobsAssumption DEF TypeOK
<1>1. ASSUME NEW n \in Nat, Fault(n) PROVE faults' \in Nat /\ faults' >= faults
  BY <1>0, <1>1 DEF Fault
<1>2. CASE \E w \in Workers : LoseCall(w) \/ Crash(w)
  BY <1>0, <1>1, <1>2 DEF LoseCall, Crash
<1>3. CASE Tick
  BY <1>0, <1>1, <1>3, OverrunCount DEF Tick, Overrun
<1>4. CASE ~Tick /\ ~\E w \in Workers : LoseCall(w) \/ Crash(w)
  <2>1. faults' = faults
    BY <1>4 DEF Next, WorkerStep, InsertJob, CancelJob, Start, ClaimJob, Handle, HandleAs,
                Record, vars
  <2> QED
    BY <1>0, <2>1
<1> QED
  BY <1>0, <1>2, <1>3, <1>4

\* Rows and workers are well formed.
THEOREM TypeCorrect == Spec => []TypeOK
BY TypeInit, TypeStep, PTL DEF Spec

-----------------------------------------------------------------------------
(* Leases *)

LEMMA HolderStep ==
  ASSUME TypeOK, HolderAgrees, [Next]_vars
  PROVE  HolderAgrees'
<1> DEFINE Agrees(w) ==
      IsWorking(w) =>
        /\ job[worker[w].job].status # "absent"
        /\ Owns(w) => /\ job[worker[w].job].lease = worker[w].lease
                      /\ job[worker[w].job].attempts = worker[w].attempts
        /\ worker[w].lease > 0 => Owns(w) \/ job[worker[w].job].status = "cancelled"
<1> SUFFICES ASSUME NEW v \in Workers PROVE Agrees(v)'
  BY DEF HolderAgrees
<1>0. Agrees(v) /\ (IsWorking(v) => worker[v] \in Working /\ worker[v].job \in Jobs)
  BY DEF HolderAgrees, TypeOK, IsWorking, Resting, Working
<1>1. ASSUME NEW j \in Jobs, NEW delay \in 0 .. MaxDelay, InsertJob(j, delay) PROVE Agrees(v)'
  BY <1>0, <1>1 DEF InsertJob, Absent, Owns, IsWorking, TypeOK
<1>2. ASSUME NEW j \in Jobs, CancelJob(j) PROVE Agrees(v)'
  <2>1. job[j] \in Row
    BY <1>2, Rows DEF CancelJob, Open
  <2>2. job' = Freed(j, "cancelled", job[j].available) /\ worker' = worker
    BY <1>2 DEF CancelJob
  <2>3. /\ job'[j].status = "cancelled"
        /\ \A k \in Jobs \ {j} : job'[k] = job[k]
    BY <1>2, <2>1, <2>2, FreedType DEF CancelJob, Settled, Row, FreeRow, LeasedRow
  <2> QED
    BY <1>0, <2>2, <2>3 DEF IsWorking, Owns
<1>3. ASSUME NEW w \in Workers, Start(w) \/ Handle(w) \/ LoseCall(w) \/ Crash(w)
      PROVE  Agrees(v)'
  <2>1. job' = job
    BY <1>3 DEF Start, Handle, HandleAs, LoseCall, Crash
  <2>2. CASE v # w
    <3>1. worker'[v] = worker[v]
      BY <1>3, <2>2 DEF Start, Handle, HandleAs, LoseCall, Crash, TypeOK
    <3> QED
      BY <1>0, <2>1, <3>1 DEF IsWorking, Owns
  <2>3. CASE v = w /\ Handle(w)
    <3>1. /\ IsWorking(v)
          /\ worker'[v].job = worker[v].job /\ worker'[v].lease = worker[v].lease
          /\ worker'[v].attempts = worker[v].attempts
      BY <1>0, <2>3 DEF Handle, HandleAs, IsWorking, TypeOK, Working
    <3> QED
      BY <1>0, <2>1, <3>1 DEF Owns
  <2>4. CASE v = w /\ ~Handle(w)
    BY <1>3, <2>4 DEF Start, LoseCall, Crash, IsWorking, Idle, TypeOK
  <2> QED
    BY <2>2, <2>3, <2>4
<1>4. ASSUME NEW w \in Workers, ClaimJob(w) PROVE Agrees(v)'
  <2> PICK j \in Jobs :
        /\ Claimable(j) /\ worker[w] = Idle /\ job[j] \in Row
        /\ job'[j] \in LeasedRow
        /\ job'[j].attempts = job[j].attempts + 1
        /\ job'[j].owner = w /\ job'[j].lease = Lease
        /\ job' = [job EXCEPT ![j] = job'[j]]
        /\ worker' = [worker EXCEPT
             ![w] = [state |-> "handling", job |-> j,
                     attempts |-> job[j].attempts + 1, lease |-> Lease]]
    BY <1>4, ClaimEffect
  <2>1. job'[j].status = "running" /\ \A k \in Jobs \ {j} : job'[k] = job[k]
    BY DEF LeasedRow, TypeOK
  <2>2. CASE v = w
    BY <2>1, <2>2 DEF TypeOK, Owns, IsWorking
  <2>3. CASE v # w
    <3>1. worker'[v] = worker[v]
      BY <2>3 DEF TypeOK
    <3>2. CASE IsWorking(v) /\ worker[v].job = j
      <4>1. ~(worker[v].lease > 0)
        BY <1>0, <3>2 DEF Claimable, Open, Owns
      <4> QED
        BY <2>1, <2>3, <3>1, <3>2, <4>1 DEF Owns
    <3>3. CASE ~(IsWorking(v) /\ worker[v].job = j)
      BY <1>0, <2>1, <3>1, <3>3 DEF Owns, IsWorking
    <3> QED
      BY <3>2, <3>3
  <2> QED
    BY <2>2, <2>3
<1>5. ASSUME NEW w \in Workers, Record(w) PROVE Agrees(v)'
  <2>1. CASE v = w
    BY <1>5, <2>1, RecordEffect DEF TypeOK, Idle, IsWorking
  <2>2. CASE v # w /\ job' = job
    <3>1. worker'[v] = worker[v]
      BY <1>5, <2>2, RecordEffect DEF TypeOK
    <3> QED
      BY <1>0, <2>2, <3>1 DEF IsWorking, Owns
  <2>3. CASE v # w /\ Owns(w)
    <3> DEFINE j == worker[w].job
    <3>1. worker'[v] = worker[v] /\ j \in Jobs
      BY <1>5, <2>3, RecordEffect DEF TypeOK, Working
    <3>2. /\ job'[j].status \in {"pending", "succeeded", "failed"}
          /\ \A k \in Jobs \ {j} : job'[k] = job[k]
      BY <1>5, <2>3, <3>1, RecordEffect, FreedType DEF Owns, Open, Settled
    <3>3. CASE IsWorking(v) /\ worker[v].job = j
      <4>1. ~Owns(v) /\ job[j].status # "cancelled"
        BY <2>3, <3>3 DEF Owns
      <4>2. ~(worker[v].lease > 0)
        BY <1>0, <3>3, <4>1
      <4> QED
        BY <3>1, <3>2, <3>3, <4>2 DEF Owns, IsWorking
    <3>4. CASE ~(IsWorking(v) /\ worker[v].job = j)
      BY <1>0, <3>1, <3>2, <3>4 DEF Owns, IsWorking
    <3> QED
      BY <3>3, <3>4
  <2> QED
    BY <1>5, <2>1, <2>2, <2>3, RecordEffect
<1>6. ASSUME Tick PROVE Agrees(v)'
  <2>1. CASE ~IsWorking(v)
    BY <1>6, <2>1, TickEffect DEF IsWorking
  <2>2. CASE IsWorking(v)
    <3> DEFINE j == worker[v].job
    <3>1. /\ worker'[v].job = j /\ j \in Jobs
          /\ worker'[v].attempts = worker[v].attempts
          /\ worker'[v].lease = Less(worker[v].lease)
          /\ worker[v].lease \in Nat
      BY <1>0, <1>6, <2>2, TickEffect, JobsAssumption DEF Working
    <3>2. CASE job[j].status \in Open
      BY <1>0, <1>6, <2>2, <3>1, <3>2, TickEffect DEF Owns, Less, Open
    <3>3. CASE job[j].status \notin Open
      BY <1>0, <1>6, <2>2, <3>1, <3>3, TickEffect DEF Owns, Less, Open
    <3> QED
      BY <3>2, <3>3
  <2> QED
    BY <2>1, <2>2
<1>7. CASE UNCHANGED vars
  BY <1>0, <1>7 DEF vars, IsWorking, Owns
<1> QED
  BY <1>1, <1>2, <1>3, <1>4, <1>5, <1>6, <1>7 DEF Next, WorkerStep

\* A worker has its job to itself until its lease is over.
THEOREM LeasesExclude == Spec => []LeaseExclusive
<1>1. Init => HolderAgrees
  BY DEF Init, HolderAgrees, IsWorking
<1>2. HolderAgrees => LeaseExclusive
  BY DEF HolderAgrees, LeaseExclusive
<1> QED
  BY <1>1, <1>2, TypeCorrect, HolderStep, PTL DEF Spec

-----------------------------------------------------------------------------
(* Attempts *)

\* A job that may be claimed can take one attempt more.
LEMMA RoomForClaim ==
  ASSUME TypeOK, HolderAgrees, NEW j \in Jobs, Budget(j), Claimable(j)
  PROVE  job[j].attempts < MaxAttempts + faults
<1>1. job[j] \in Row /\ faults \in Nat
  BY Rows DEF Claimable, Open, TypeOK
<1>2. CASE job[j].status = "pending"
  BY <1>1, <1>2, JobsAssumption DEF Budget, Row, FreeRow, LeasedRow
<1>3. CASE job[j].status = "running"
  <2>1. job[j].lease = 0 /\ job[j].owner \in Workers
    BY <1>1, <1>3 DEF Claimable, Row, FreeRow, LeasedRow, Settled
  <2>2. ~Held(j)
    BY <1>3, <2>1 DEF HolderAgrees, Held, Owns
  <2> QED
    BY <1>3, <2>2 DEF Budget
<1> QED
  BY <1>2, <1>3 DEF Claimable, Open

LEMMA BudgetStep ==
  ASSUME TypeOK, HolderAgrees, NEW j \in Jobs, Budget(j), [Next]_vars
  PROVE  Budget(j)'
<1>0. /\ faults \in Nat
      /\ job[j] = Absent \/ (job[j] \in Row /\ job[j].attempts \in Nat)
      /\ job[j].status = "running" => job[j].owner \in Workers
  <2>1. job[j] = Absent \/ job[j] \in FreeRow \/ job[j] \in LeasedRow
    BY DEF TypeOK
  <2>2. job[j] \in FreeRow => job[j].attempts \in Nat /\ job[j].status # "running"
    BY DEF FreeRow, Settled
  <2>3. job[j] \in LeasedRow => job[j].attempts \in Nat /\ job[j].owner \in Workers
    BY DEF LeasedRow
  <2>4. faults \in Nat
    BY JobsAssumption DEF TypeOK
  <2>5. job[j] = Absent => job[j].status # "running"
    BY DEF Absent
  <2> QED
    BY <2>1, <2>2, <2>3, <2>4, <2>5 DEF Row
<1>1. ASSUME NEW k \in Jobs, NEW delay \in 0 .. MaxDelay, InsertJob(k, delay) PROVE Budget(j)'
  BY <1>1, JobsAssumption DEF InsertJob, Absent, Budget, Held, IsWorking, TypeOK
<1>2. ASSUME NEW k \in Jobs, CancelJob(k) PROVE Budget(j)'
  <2>1. job[k] \in Row
    BY <1>2, Rows DEF CancelJob, Open
  <2>2. /\ job' = Freed(k, "cancelled", job[k].available)
        /\ worker' = worker /\ faults' = faults
    BY <1>2 DEF CancelJob
  <2>3. job[k].available \in Int /\ "cancelled" \in {"pending"} \cup Settled
    BY <2>1 DEF Settled, Row, FreeRow, LeasedRow
  <2>4. /\ job'[k].status = "cancelled"
        /\ job'[k].attempts = job[k].attempts
        /\ \A i \in Jobs \ {k} : job'[i] = job[i]
    BY <1>2, <2>2, <2>3, FreedType DEF CancelJob
  <2> QED
    BY <1>2, <2>2, <2>4 DEF Budget, Held, IsWorking, CancelJob, Absent, Open
<1>3. ASSUME NEW w \in Workers, Start(w) \/ Handle(w) PROVE Budget(j)'
  <2>1. job' = job /\ faults' = faults
    BY <1>3 DEF Start, Handle, HandleAs
  <2>2. \A v \in Workers : IsWorking(v) =>
          /\ IsWorking(v)'
          /\ worker'[v].job = worker[v].job /\ worker'[v].lease = worker[v].lease
    BY <1>3 DEF Start, Handle, HandleAs, IsWorking, TypeOK, Resting, Working
  <2> QED
    BY <1>0, <2>1, <2>2 DEF Budget, Held
<1>4. ASSUME NEW w \in Workers, LoseCall(w) \/ Crash(w) PROVE Budget(j)'
  <2>1. job' = job /\ faults' = faults + 1
    BY <1>4 DEF LoseCall, Crash, Fault
  <2> QED
    BY <1>0, <2>1, JobsAssumption DEF Budget, Absent
<1>5. ASSUME NEW w \in Workers, ClaimJob(w) PROVE Budget(j)'
  <2> PICK k \in Jobs :
        /\ Claimable(k) /\ worker[w] = Idle /\ faults' = faults /\ job[k] \in Row
        /\ job'[k] \in LeasedRow
        /\ job'[k].attempts = job[k].attempts + 1
        /\ job'[k].owner = w /\ job'[k].lease = Lease
        /\ job' = [job EXCEPT ![k] = job'[k]]
        /\ worker' = [worker EXCEPT
             ![w] = [state |-> "handling", job |-> k,
                     attempts |-> job[k].attempts + 1, lease |-> Lease]]
    BY <1>5, ClaimEffect
  <2>1. CASE j = k
    <3>1. job'[j].attempts <= MaxAttempts + faults
      BY <1>0, <2>1, RoomForClaim, JobsAssumption DEF Claimable, Open, Absent
    <3>2. Held(j)'
      BY <2>1, JobsAssumption DEF Held, IsWorking, TypeOK
    <3> QED
      BY <2>1, <3>1, <3>2 DEF Budget, LeasedRow
  <2>2. CASE j # k
    <3>1. job'[j] = job[j]
      BY <2>2 DEF TypeOK
    <3>2. Held(j) /\ job[j].status = "running" => Held(j)'
      BY <1>0, <3>1 DEF Held, IsWorking, Idle, TypeOK
    <3> QED
      BY <3>1, <3>2 DEF Budget
  <2> QED
    BY <2>1, <2>2
<1>6. ASSUME NEW w \in Workers, Record(w) PROVE Budget(j)'
  <2>1. faults' = faults /\ worker' = [worker EXCEPT ![w] = Idle] /\ worker[w].job \in Jobs
    BY <1>6, RecordEffect DEF Working
  <2>2. CASE job' = job /\ ~Owns(w)
    <3>1. Held(j) /\ job[j].status = "running" => Held(j)'
      BY <1>0, <2>1, <2>2 DEF Held, IsWorking, Owns, TypeOK
    <3> QED
      BY <2>1, <2>2, <3>1 DEF Budget
  <2>3. CASE Owns(w)
    <3> PICK status \in {"pending", "succeeded", "failed"}, available \in Int :
          /\ job' = Freed(worker[w].job, status, available)
          /\ status = "pending" => worker[w].attempts < MaxAttempts
          /\ status = "failed" => worker[w].attempts >= MaxAttempts
      BY <1>6, <2>3, RecordEffect
    <3> DEFINE k == worker[w].job
    <3>1. /\ job'[k].status = status /\ job'[k].attempts = job[k].attempts
          /\ \A i \in Jobs \ {k} : job'[i] = job[i]
      BY <2>1, <2>3, FreedType DEF Owns, Open, Settled
    <3>2. CASE j = k
      <4>1. job[k].attempts = worker[w].attempts
        BY <1>6, <2>3, RecordEffect DEF HolderAgrees
      <4>2. job[k] # Absent
        BY <2>3 DEF Owns, Absent
      <4> QED
        BY <2>1, <3>1, <3>2, <4>1, <4>2 DEF Budget
    <3>3. CASE j # k
      <4>1. job'[j] = job[j]
        BY <3>1, <3>3
      <4>2. Held(j) /\ job[j].status = "running" => Held(j)'
        BY <1>0, <2>1, <3>3, <4>1 DEF Held, IsWorking, TypeOK
      <4> QED
        BY <2>1, <4>1, <4>2 DEF Budget
    <3> QED
      BY <3>2, <3>3
  <2> QED
    BY <1>6, <2>2, <2>3, RecordEffect
<1>7. ASSUME Tick PROVE Budget(j)'
  <2>1. faults' = faults + Cardinality(Overrun)
    BY <1>7 DEF Tick, Fault, Overrun
  <2>2. CASE job[j].status \notin Open
    BY <1>0, <1>7, <2>1, <2>2, TickEffect, OverrunCount, JobsAssumption DEF Budget, Open, Absent
  <2>3. CASE job[j].status \in Open
    <3>1. /\ job'[j].status = job[j].status /\ job'[j].attempts = job[j].attempts
          /\ job'[j].owner = job[j].owner /\ job[j].attempts \in Nat
      BY <1>0, <1>7, <2>3, TickEffect DEF Open, Absent
    <3>2. job[j].attempts <= MaxAttempts + faults
      BY <2>3 DEF Budget, Open, Absent
    <3>3. CASE job[j].status = "running" /\ Held(j) /\ ~Held(j)'
      <4> DEFINE w == job[j].owner
      <4>1. w \in Workers /\ IsWorking(w) /\ worker[w].lease \in Nat /\ worker[w].lease > 0
        BY <1>0, <1>7, <3>3, TickEffect, JobsAssumption DEF Held, Working
      <4>2. IsWorking(w)' /\ worker'[w].job = worker[w].job /\ worker'[w].lease = Less(worker[w].lease)
        BY <1>7, <4>1, TickEffect DEF IsWorking
      <4>3. worker[w].lease = 1
        BY <3>1, <3>3, <4>1, <4>2 DEF Held, Less
      <4>4. Cardinality(Overrun) > 0 /\ Cardinality(Overrun) \in Nat
        BY <4>1, <4>3, OverrunCount DEF Overrun
      <4> QED
        BY <1>0, <2>1, <3>1, <3>2, <3>3, <4>4, JobsAssumption DEF Budget
    <3>4. CASE ~(job[j].status = "running" /\ Held(j) /\ ~Held(j)')
      BY <1>0, <2>1, <2>3, <3>1, <3>2, <3>4, OverrunCount, JobsAssumption DEF Budget, Open
    <3> QED
      BY <3>3, <3>4
  <2> QED
    BY <2>2, <2>3
<1>8. CASE UNCHANGED vars
  BY <1>8 DEF vars, Budget, Held, IsWorking
<1> QED
  BY <1>1, <1>2, <1>3, <1>4, <1>5, <1>6, <1>7, <1>8 DEF Next, WorkerStep

\* No step of the queue breaks the inductive invariant.
LEMMA InvariantInit == Init => IInv
BY TypeInit, JobsAssumption DEF Init, IInv, HolderAgrees, Budget, IsWorking, Absent

LEMMA InvariantStep ==
  ASSUME IInv, [Next]_vars
  PROVE  IInv'
BY TypeStep, HolderStep, BudgetStep DEF IInv

\* The inductive invariant holds, so leases, rows and attempts agree.
THEOREM Invariant == Spec => []IInv
BY InvariantInit, InvariantStep, PTL DEF Spec

\* A job waits only while it has attempts left, fails only when it has none,
\* and each attempt beyond max_attempts had its own fault.
THEOREM BudgetsKept == Spec => []RetryBudget
<1>1. IInv => RetryBudget
  BY DEF IInv, Budget, RetryBudget
<1> QED
  BY <1>1, Invariant, PTL

-----------------------------------------------------------------------------
(* Steps *)

LEMMA SettledStep ==
  ASSUME TypeOK, [Next]_vars, NEW j \in Jobs, job[j].status \in Settled
  PROVE  job'[j] = job[j]
<1>1. ASSUME NEW k \in Jobs, NEW delay \in 0 .. MaxDelay, InsertJob(k, delay)
      PROVE  job'[j] = job[j]
  BY <1>1 DEF InsertJob, Absent, Settled, TypeOK
<1>2. ASSUME NEW k \in Jobs, CancelJob(k) PROVE job'[j] = job[j]
  BY <1>2 DEF CancelJob, Freed, Settled, Open, TypeOK
<1>3. ASSUME NEW w \in Workers, ClaimJob(w) PROVE job'[j] = job[j]
  BY <1>3 DEF ClaimJob, Claimable, Settled, Open, TypeOK
<1>4. ASSUME NEW w \in Workers, Record(w) PROVE job'[j] = job[j]
  BY <1>4, RecordEffect DEF Owns, Freed, Settled, TypeOK
<1>5. ASSUME NEW w \in Workers, Start(w) \/ Handle(w) \/ LoseCall(w) \/ Crash(w)
      PROVE  job'[j] = job[j]
  BY <1>5 DEF Start, Handle, HandleAs, LoseCall, Crash
<1>6. ASSUME Tick PROVE job'[j] = job[j]
  BY <1>6, TickEffect DEF Settled, Open
<1>7. CASE UNCHANGED vars
  BY <1>7 DEF vars
<1> QED
  BY <1>1, <1>2, <1>3, <1>4, <1>5, <1>6, <1>7 DEF Next, WorkerStep

\* However late a worker reports, a job that came to its end stays as it is.
THEOREM SettledStays == Spec => SettledForever
<1>1. TypeOK /\ [Next]_vars =>
        [\A j \in Jobs : job[j].status \in Settled => job'[j] = job[j]]_vars
  BY SettledStep
<1> QED
  BY <1>1, TypeCorrect, PTL DEF Spec, SettledForever

LEMMA FinishStep ==
  ASSUME TypeOK, HolderAgrees, [Next]_vars, NEW j \in Jobs,
         job[j].status = "running", job'[j].status \in {"pending", "succeeded", "failed"}
  PROVE  \E w \in Workers :
           /\ job[j].owner = w
           /\ IsWorking(w) /\ worker[w].job = j /\ worker[w].attempts = job[j].attempts
           /\ worker'[w] = Idle
<1>1. ASSUME NEW k \in Jobs, NEW delay \in 0 .. MaxDelay, InsertJob(k, delay) PROVE FALSE
  BY <1>1 DEF InsertJob, Absent, TypeOK
<1>2. ASSUME NEW k \in Jobs, CancelJob(k) PROVE FALSE
  <2>1. job[k] \in Row
    BY <1>2, Rows DEF CancelJob, Open
  <2>2. /\ job'[k].status = "cancelled"
        /\ \A i \in Jobs \ {k} : job'[i] = job[i]
    BY <1>2, <2>1, FreedType DEF CancelJob, Settled, Row, FreeRow, LeasedRow
  <2> QED
    BY <2>2
<1>3. ASSUME NEW w \in Workers, ClaimJob(w) PROVE FALSE
  BY <1>3, ClaimEffect DEF LeasedRow, TypeOK
<1>4. ASSUME NEW w \in Workers, Start(w) \/ Handle(w) \/ LoseCall(w) \/ Crash(w) PROVE FALSE
  BY <1>4 DEF Start, Handle, HandleAs, LoseCall, Crash
<1>5. ASSUME Tick PROVE FALSE
  BY <1>5, TickEffect DEF Open
<1>6. ASSUME UNCHANGED vars PROVE FALSE
  BY <1>6 DEF vars
<1>7. PICK w \in Workers : Record(w)
  BY <1>1, <1>2, <1>3, <1>4, <1>5, <1>6 DEF Next, WorkerStep
<1>8. Owns(w) /\ worker[w].job = j
  <2>1. Owns(w)
    BY <1>7, RecordEffect
  <2>2. worker[w].job \in Jobs
    BY <1>7, RecordEffect DEF Working
  <2>3. \A i \in Jobs \ {worker[w].job} : job'[i] = job[i]
    BY <1>7, <2>1, <2>2, RecordEffect, FreedType DEF Owns, Open, Settled
  <2> QED
    BY <2>1, <2>3
<1> QED
  BY <1>7, <1>8, RecordEffect DEF HolderAgrees, Owns, TypeOK

\* The report of a worker that lost its lease to another one changes nothing.
THEOREM OwnersFinish == Spec => OnlyOwnerFinishes
<1> DEFINE Finish ==
      \A j \in Jobs :
        job[j].status = "running" /\ job'[j].status \in {"pending", "succeeded", "failed"} =>
          \E w \in Workers :
            /\ job[j].owner = w
            /\ IsWorking(w) /\ worker[w].job = j /\ worker[w].attempts = job[j].attempts
            /\ worker'[w] = Idle
<1>1. IInv /\ [Next]_vars => [Finish]_vars
  BY FinishStep DEF IInv
<1> QED
  BY <1>1, Invariant, PTL DEF Spec, OnlyOwnerFinishes
=============================================================================
