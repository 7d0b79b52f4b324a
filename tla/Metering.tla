------------------------------ MODULE Metering ------------------------------
(***************************************************************************)
(* Usage records and their settlement.                                     *)
(*                                                                         *)
(* RecordUsage reads the deployment, checks it and the record in Go, and   *)
(* inserts usage, settlement and audit event in one transaction that only  *)
(* the table constraints and a trigger guard. Meanwhile the deployment     *)
(* moves on. Amounts are int64: MaxInt stands for 2^63 - 1.                *)
(***************************************************************************)
EXTENDS Lifecycles, Timestamps, FiniteSets

CONSTANTS
  Threads,      \* requests that report usage
  Deployments,
  Times,        \* the instants reports and queries name
  UnitSeconds,  \* the unit_seconds reports name
  Rate,         \* rateMicrosPerUnitSecond
  MaxInt,       \* the largest integer
  MaxPeriod,    \* the longest period of a record: 31 days
  MaxRecords    \* no usage is recorded beyond this many records

ASSUME MeteringAssumption ==
  /\ Times \subseteq Nat
  /\ UnitSeconds \subseteq Int
  /\ Rate \in Nat \ {0}
  /\ MaxInt \in Nat
  /\ MaxPeriod \in Nat
  /\ MaxRecords \in Nat

VARIABLES
  status,      \* status[d] of the deployments
  ran,         \* deployments that have been running
  usage,       \* usage_records
  settlement,  \* settlement[u]: amount_micros of the entry for record u
  audit,       \* audit[d]: events about metering d
  call         \* call[t]: the record thread t is about to insert

vars == <<status, ran, usage, settlement, audit, call>>

Usage == [deployment : Deployments, start : Times, end : Times,
          units : UnitSeconds \cap Nat]

Idle == [deployment |-> "none"]

Init ==
  /\ status = [d \in Deployments |-> "queued"]
  /\ ran = {}
  /\ usage = {}
  /\ settlement = <<>>
  /\ audit = [d \in Deployments |-> 0]
  /\ call = [t \in Threads |-> Idle]

\* Somebody moves the deployment on.
Advance(d, next) ==
  /\ DeploymentCanMove(status[d], next)
  /\ status' = [status EXCEPT ![d] = next]
  /\ ran' = IF next = "running" THEN ran \cup {d} ELSE ran
  /\ UNCHANGED <<usage, settlement, audit, call>>

Meterable(d) == status[d] \in {"running", "stopped"}

\* NewUsageRecord
Valid(u) ==
  /\ u.start < u.end
  /\ u.units >= 0
  /\ u.end - u.start <= MaxPeriod

\* Mutant: the product may overflow.
AffordableAlways(units) == TRUE

Affordable(units) == units <= MaxInt \div Rate

ReadRecordUsage(t, u) ==
  /\ call[t] = Idle
  /\ Meterable(u.deployment)
  /\ Valid(u)
  /\ Affordable(u.units)
  /\ call' = [call EXCEPT ![t] = u]
  /\ UNCHANGED <<status, ran, usage, settlement, audit>>

\* The product in int64.
Amount(units) ==
  LET size == 2 * (MaxInt + 1)
      low  == (units * Rate) % size IN
    IF low > MaxInt THEN low - size ELSE low

SamePeriod(u, v) ==
  u.deployment = v.deployment /\ u.start = v.start /\ u.end = v.end

\* UNIQUE(deployment_id, period_start, period_end), the CHECKs, and the
\* trigger usage_period_guard_insert.
Insertable(u) ==
  /\ \A v \in usage : ~SamePeriod(u, v)
  /\ u.units >= 0 /\ Amount(u.units) >= 0
  /\ ~SqlNotAfter(u.end, u.start)

\* Mutant: the transaction inserts no settlement.
CommitRecordUsageUnsettled(t) ==
  /\ call[t] # Idle
  /\ Insertable(call[t])
  /\ Cardinality(usage) < MaxRecords
  /\ usage' = usage \cup {call[t]}
  /\ audit' = [audit EXCEPT ![call[t].deployment] = @ + 1]
  /\ call' = [call EXCEPT ![t] = Idle]
  /\ UNCHANGED <<status, ran, settlement>>

CommitRecordUsage(t) ==
  /\ call[t] # Idle
  /\ Insertable(call[t])
  /\ Cardinality(usage) < MaxRecords
  /\ usage' = usage \cup {call[t]}
  /\ settlement' = [u \in usage' |->
       IF u \in usage THEN settlement[u] ELSE Amount(u.units)]
  /\ audit' = [audit EXCEPT ![call[t].deployment] = @ + 1]
  /\ call' = [call EXCEPT ![t] = Idle]
  /\ UNCHANGED <<status, ran>>

\* The transaction rolls back: a constraint, a cancelled context or a crash.
Abandon(t) ==
  /\ call[t] # Idle
  /\ call' = [call EXCEPT ![t] = Idle]
  /\ UNCHANGED <<status, ran, usage, settlement, audit>>

Next ==
  \/ \E d \in Deployments, next \in DeploymentStatus : Advance(d, next)
  \/ \E t \in Threads :
       \/ \E u \in [deployment : Deployments, start : Times, end : Times,
                    units : UnitSeconds] : ReadRecordUsage(t, u)
       \/ CommitRecordUsage(t)
       \/ Abandon(t)

Spec == Init /\ [][Next]_vars

\* Mutant: the two ends of the window are met by the wrong ends of the period.
ListUsageTouching(from, to) ==
  {u \in usage : /\ from < to
                 /\ SqlNotAfter(from, u.end)
                 /\ SqlNotAfter(u.start, to)}

\* What a query from .. to returns, over all its pages. An empty window is
\* refused, and so is one over 366 days, longer than any the model has.
ListUsage(from, to) ==
  {u \in usage : /\ from < to
                 /\ SqlNotAfter(from, u.start)
                 /\ SqlNotAfter(u.end, to)}

-----------------------------------------------------------------------------
(* Properties *)

\* Records and calls are well formed, every record has exactly one settlement
\* and every settlement its record.
TypeOK ==
  /\ status \in [Deployments -> DeploymentStatus]
  /\ ran \subseteq Deployments
  /\ usage \subseteq Usage
  /\ settlement \in [usage -> 0 .. MaxInt]
  /\ audit \in [Deployments -> Nat]
  /\ call \in [Threads -> {Idle} \cup Usage]

\* A settlement is the true product of units and rate, whatever the width of
\* the integers, and metering a deployment leaves one audit event a record.
SettledExactly ==
  /\ \A u \in usage : settlement[u] = u.units * Rate
  /\ \A d \in Deployments : audit[d] = Cardinality({u \in usage : u.deployment = d})

\* Nothing is billed for a deployment that never ran, although its status is
\* read long before the record is inserted and may be anything by then.
BilledAfterRunning == \A u \in usage : u.deployment \in ran

\* A query is right to the second: it returns every record inside its window
\* but for those that share a second with an end of it, and no record that
\* begins in a second before it or ends in a second after it.
ListedToTheSecond ==
  \A u \in usage, from \in Times, to \in Times :
    /\ SecondOf(from) < SecondOf(u.start) /\ SecondOf(u.end) < SecondOf(to)
         => u \in ListUsage(from, to)
    /\ u \in ListUsage(from, to) =>
         SecondOf(from) <= SecondOf(u.start) /\ SecondOf(u.end) <= SecondOf(to)

\* internal/migrate/sql/002_operational_guards.sql:2 "usage period must end
\* after it starts": the trigger refuses periods that do not, and no others.
TriggerRefusesOnlyEmptyPeriods ==
  \A t \in Threads : call[t] # Idle /\ call[t].start < call[t].end
    => ~SqlNotAfter(call[t].end, call[t].start)
=============================================================================
