# Formal models of the AI launchpad

The launchpad is one Go process (or several on one SQLite file): an HTTP API
through which operators register compute sites and review scenarios and
partners reserve capacity and deploy, and a durable worker that expires
reservations and activates deployments. This directory holds TLA+ models of
the parts where requests, workers, retries and crashes meet, the TLC runs that
check them on small instances, and TLAPS proofs for all instances.

Contents: the parts of the system and their hazards; the modules and how they
correspond to the code; the runs; the proofs; findings; what is left out; plan.

## 1. The system

| part | state | operations | correct when |
|---|---|---|---|
| sites (`service/sites.go`, `store/sites.go`, `domain/site.go`) | `compute_sites`, `compliance_reviews` | create, review, transition | lifecycle followed; active only after review; no update lost |
| scenarios (`service/scenarios.go`, ...) | `scenarios`, `scenario_reviews` | submit, start review, decide | one decision, on record |
| reservations (`service/reservations.go`, `reconcile.go`, ...) | `reservations`, `available_units` of the site | reserve, release, expire (by job or by an operator's list) | no oversell, no leak, units returned once |
| deployments (`service/deployments.go`, ...) | `deployments` | create, advance, stop (two calls), activate (worker) | one per live reservation; lifecycle followed |
| jobs (`store/jobs.go`) | `jobs` | insert, claim, complete, retry, cancel | leases exclude; every job ends; late reports change nothing |
| worker (`worker/worker.go`) | the job it holds | claim, handle, record | survives crashes of others; units come back, deployments start |
| idempotency (`httpapi/idempotency.go`, ...) | `idempotency_records` | claim, complete, abandon | handler once per key and window; faithful replay |
| audit (`store/audit.go`) | `audit_events` | insert in the caller's transaction | one event per change |
| sessions (`service/auth.go`, `store/identity.go`) | `users`, `sessions` | bootstrap, register, login, authenticate, logout, cleanup | admission only while the session lives; one logout; an operator, and no partner for it |
| metering (`service/metering.go`) | `usage_records`, `settlement_entries` | record, list | one settlement per record, no overflow |
| migrations (`migrate/migrate.go`) | `schema_migrations` | apply | each once, in order; a schema never blocks all starts |
| server (`cmd/server/main.go`, `config`, `health`) | liveness, shutdown order | start, shut down | shutdown ends, and cleanly |
| listings (`httpapi/query.go`, `store.List*`) | none | page | not modelled, except the window of `ListUsage` |

The parts interact through the database only. A service operation reads rows
with plain SELECTs, checks them in Go, and commits one transaction
(`store.transaction`, `BEGIN IMMEDIATE`). Nothing is locked from the reads to
the commit: what protects the rows is the `version` (and here and there a
status) in the WHERE clause of the UPDATE, and `requireChanged`. Jobs are
inserted in the transaction of the row they are about (an outbox); the worker
polls for them. Idempotency records are written by statements of their own
before and after the handler's transaction.

What is hard: the interleaving of read and commit of different requests and of
the worker; the worker's activation, which commits twice; leases that end while
their owner is slow or dead; retries; clients that leave in the middle of a
request; sequences of legal calls that lead somewhere unintended. `PROJECT.json`
lists every hazard at its line with the properties aimed at it, and says of the
uncovered ones why they are not covered yet.

## 2. The modules

| module | models |
|---|---|
| `Lifecycles` | statuses and transitions of `internal/domain`, as sets of pairs |
| `CapacityLedger` | abstract: what the platform promises about capacity |
| `Launchpad` | the tables and the service operations on them |
| `Jobs` | the leased job queue and its workers; abstract for `Tasks` |
| `Tasks` | the queue with the handlers its workers run and the rows these change |
| `Idempotency` | the requests that share one Idempotency-Key |
| `Sessions` | users, sessions, authentication, bootstrap |
| `Timestamps` | times as RFC3339Nano text and their order in SQL |
| `Metering` | usage records and settlements |
| `Migrations` | processes that bring one database up to date |
| `Server` | one life of the process, from configuration to exit, composed with `Migrations` |
| `MC...` | the instance of each for TLC |
| `CapacityLedgerProofs` | the ledger conserves capacity |
| `LaunchpadProofs` | proofs about `Launchpad`: types, locking, capacity (through `CapacityLedgerProofs`), records |
| `JobsProofs`, `TasksProofs` | proofs about the queue, and about the handlers in it (through `JobsProofs`) |
| `IdempotencyProofs`, `MeteringProofs`, `SessionsProofs`, `ServerProofs` | proofs about the module of that name; `ServerProofs` also those about `Migrations` |

### Launchpad

A row is `Absent` or a record of its status, its version and what the
properties need (`available` of a site; site and scenario of a reservation).
`review`, `job` and `audit` stand for the tables written beside the row. `review`
counts rows, because nothing in its two tables is unique but an id drawn for the row: a
second review with the same decision is a second row. Ids of
deployments are the ids of their reservations: `reservation_id` is UNIQUE.
`due` is the set of reservations whose `expires_at` has passed.

A thread is a request or the worker. `ReadX(t, ..)` is the service method of X
up to its store call: the SELECTs and every check; it leaves in `call[t]` the
operation, the row, the new status and the version that will stand in the WHERE
clause. `CommitX(t)` is the store's transaction, with its WHERE clauses as
guards and all of its writes, audit event and job included. `Abandon(t)` is
every way not to commit: a WHERE that matches nothing, an error, a cancelled
context, a crash. A read whose checks fail has no effect and is no step. Two
SELECTs of one method are one step where nothing can come between them that
the commit would not notice; each such place says so in its comment.
`CreateSite` and `SubmitScenario` insert fresh rows and read nothing, so they
are single steps. `ActivateDeploymentJob` goes on from its first commit to its
second with the row it has in memory. The version an HTTP client sends is the
one of a row it saw: it can only make a read fail.

Left out of it: who the caller is (roles and ownership only refuse calls),
texts, countries and time zones, listings (they read only).

### Jobs

A row has status, attempts and two countdowns: ticks until `available_at`
(negative once it has passed, because `ORDER BY available_at` compares them)
and until `lease_until`. A worker is new, idle, working on a job
(`handling`, then `succeeded` or `errored`) or dead; a working one remembers the
attempts it saw and how long its lease still lasts, as the Go value does. Actions:
`InsertJob`, `ClaimJob`, `Handle` (the handler's outcome, either way),
`Record` (`CompleteJob` or `RetryJob` with their WHERE clauses; no row changed is
only logged), `LoseCall` (that statement fails), `Crash`, `Start`, `CancelJob`
(of the contract, without a caller today), `Tick`. Owner names are drawn at the
start of a process, so a dead one never returns; another takes over.

### Tasks

`Queue == INSTANCE Jobs`: the queue's variables are those of `Jobs`, and what a
worker does while it is `handling` is refined into the handler's reads and
commits. A reservation is inserted with the job that expires it and a
deployment with the one that activates it; the row's id names the job. `seen[w]`
is the row the handler of `w` holds. `FindReservation` and `FindDeployment` are the
reads with their early returns, `ExpireReservation`, `BeginActivation` and
`CompleteActivation` the transactions with the version in their WHERE clauses,
`HandlerError` any statement that fails. Users release, reconcile, deploy, stop and
move a deployment anywhere its lifecycle allows, each in one step: `Launchpad` has
their reads and commits apart. `ImplementsQueue` is the safety part of the
refinement, `Queue!Init /\ [][Queue!Next]_(Queue!vars)`: a step of a handler is a stutter or a
`Handle` of `Jobs`, so that neither handlers nor users touch a job. A reservation carries the ticks left to its `expires_at`; the job's
`available_at` is the same time.

### Idempotency

All requests of one scope. Each takes the steps of `API.idempotent`: `Begin`
reads the clock, `Insert`, then either `Run` and `CompleteIdempotency` or
`AbandonIdempotency`; or `Select`, and if the record had expired `DeleteExpired`
and again `Insert`. `Disconnect` ends the request's context: from then on every
statement fails, and `Fail` is what the code does about it at each step.
`Drop` is a crash or a panic anywhere. `effects` records the handler runs that
committed, with the time of their start and of their commit. The handler is one
step, because its own interleavings are those of `Launchpad`.

### Sessions

A session is `Absent`, a row, or `Deleted`: ids are random and not drawn twice. A
request runs `FindSession` (the SELECT), `CheckUsable` (`Usable` with the clock read after
it), `TouchSession` (the guarded UPDATE with that clock reading) and is then admitted; the
admitted request ends with `Answer` or is a `Logout`. `CleanupSessions` reads the
clock and `DeleteExpiredSessions` deletes later. `logouts`
counts the requests that were told they logged out.

A process goes through `FindOperator` and `CreateOperator` of `BootstrapOperator`, and is
started again, with the same settings, if they fail; `RegisterPartner` may take the address
at any time between. `Misnamed` are the processes whose address `NormalizeEmail` refuses, which
comes to nothing at once, `Overlong` those whose password `HashPassword` refuses, which
matters only to one that found no operator: `config.Load` accepts both. `FailBootstrap`
is every other error, of the look, the salt, the id and the INSERT, and a crash between them.

### Metering and Timestamps

`ReadRecordUsage` is everything `RecordUsage` does before its transaction, and
`CommitRecordUsage` the transaction: usage, settlement and audit event, behind
the UNIQUE constraint, the CHECKs and the trigger of migration 2. In between the
deployment moves on (`Advance`). `Amount` is the product in `int64`. The model has
one partner, so the check that the partner owns the reservation, which never
changes, is left out. `ListUsage` is the window of a query. `Timestamps!Text` writes a
time as the code does, and `SqlBefore` compares texts as SQLite does; `Power` is what a digit of
the fraction is worth.

### Migrations

A process runs `Open`, `ReadApplied` (unknown versions end it), then `ApplyOne` and
`Record` for each pending migration: the writer lock is held from the one to the
other, and table and ledger row commit together. `Fail` is a crash, a failed
statement, or a wait beyond `busy_timeout`, with the rollback. What was read of the
ledger is not read again, so `Execute` may find the tables there and fail; the process is
then down and is started again.

### Server

`Database == INSTANCE Migrations`, on the same variables: `Self` is one of the processes that open
the file. `OpenStep` and `OpenFails` are the steps of any of them; `Self` takes its own only
while `main` is in `store.Open` and not told to stop, `AbandonStart` is a signal that arrives there
(the statement fails, the migration is rolled back, `run` returns the error), and
`OpenDatabase` goes on once `Self` has its schema, or ends `run` with the error of
`BootstrapOperator`; `Sessions` says when that is, here it is open. `StartGoroutines` ends it with an
error, too, if a worker is wanted and no id is to be had for it. With the exit `Self` is down, and the
others go on. The goroutines of `run`: `main` (opening, starting, its select, shutdown), the HTTP server
with its requests, and the worker. `selecting` is a main that has yet to look at its
cases and may take any that is ready; `waiting` found none, and is woken by the first to
become ready: a signal, because it becomes ready before the worker can end
by it. `Stop` is `checker.Stop`, `cancelWorker` and the closing of the listener,
`Drain` the rest of `server.Shutdown`, `AwaitWorker` the second receive from
`workerDone`, which gets nothing if the first select took the result
(`ResultTaken`). `LoadAccepts` and `RunRefuses` are what `config.Load` and `Worker.Run` demand
of the durations.

### CapacityLedger

Units of a site are free or in exactly one live hold; a hold is claimed once
from free units and returned once, whole. `Launchpad!ImplementsLedger` maps
`available_units` to the free units and a reservation to a hold, live while
`HoldsCapacity`.

## 3. The runs

| run | question | instance |
|---|---|---|
| `capacity` | do racing reservations, releases, expiries and site transitions keep the books? | 2 threads, 1 site of 3 units, 1 scenario of 2, 2 reservations, versions of a site up to 8 |
| `rollout` | do all operations on a reservation and its deployment keep lifecycles, outbox, audit and ledger? | 2 threads, 1 reservation, versions of a site up to 5 |
| `jobs` | do leases exclude, do late reports change nothing, does every job end? | 3 owners, 2 jobs, 2 attempts, lease of 2 ticks, 2 faults, due jobs tie |
| `tasks` | do units come back and deployments start, when may a job fail for good, and do handlers leave the queue alone? | 1 reservation, 1 deployment, 2 workers, 2 attempts, lease of 1, 1 fault, 1 error |
| `idempotency` | is the handler run once per key and window, and replay faithful? | 3 requests, 2 bodies, window 2, requests up to 1, clock to 5 |
| `metering` | do records and settlements agree, and listings with the clock? | 2 requests, 1 deployment, 6 instants in 3 seconds, 2 records, integers up to 15, rate 3 |
| `sessions` | is admission decided by the UPDATE, is one logout told, does a session last as it should; does every process get its operator, and none a partner for it? | 1 session, 2 requests, 4 processes, one of them `Misnamed` and one `Overlong`, 1 address, lifetime 2, clock to 4 |
| `server` | does a process stop when told, and only then, with nothing cut off, and is the schema true whoever migrates, crashes or is outdated? | 3 processes, one of them with 1 of 3 migrations, 2 faults, 2 requests, durations 0 to 2 |
| `activation_unverified`, `deploy_race`, `claim_stuck`, `usage_refused` | violations, section 5 | the instances of `capacity`, `rollout`, `idempotency` and `metering`, or smaller |

`CapacityLedger` has no run of its own: `LedgerConserves` proves what it promises, and
`rollout` and `capacity` check that the tables implement it and that its balance carries over
(`ImplementsLedger`, `CapacityConserved`).

Bounds. Two threads are enough for every race here: a commit conflicts with
the one commit that came between its read and itself, and a third thread can
only do what the second may do before or after; the proofs hold for any number.
Two units from three make the second reservation fail beside the first and
succeed after it. `MaxSiteVersion` stops site transitions, never the return of
units, after a site has been reviewed, activated, reserved twice, suspended and
reactivated. Two attempts give a first retry and a final failure; a lease of two
ticks leaves room for a tick inside it; three owners let one die and one be late
with a third to take over. With a window of two and a clock to five two records
expire one after the other, so that requests that saw the first one meet the
second. Binary fractions of two places have all the shapes a text can take: no fraction,
one that is shortened and one that is not; units of 5 and 11 at rate 3 reach
the largest integer and wrap beyond it to a positive one.

In `Tasks` an attempt is lost to a fault, to an error, or to an operator who moves the deployment
by hand (the handler meets a version that changed, returns an error and finds the
new status at its next attempt). With two attempts, one fault and one error the run reaches jobs
that fail for good, with units still held or a deployment still queued, and jobs that do not although they
lost one attempt: `SettledMeansDone` says which is which. The
code's jobs have five attempts (`service.job`); the theorem is for any number. One fault is a crash,
a lost report or an overrun
lease anywhere in the handler, also between the two commits of an activation. `MaxWait` is how long a
job that is due remembers that it was due before another; with 0 such jobs tie, and the claim
takes either, which is more than `ORDER BY` allows. A clock to 4 with a lifetime of 2 lets
sessions expire, be revoked and be cleaned up while a request is between any two of its
statements. Two processes race to create the operator, and beside them one may only find it and one
may do neither. Three migrations, two of them beyond the old binary, let it start before, among
and after them; two faults let two processes die in the middle of the same migration. Symmetry
permutes threads and ids where no liveness property is checked.

What each property says is in the comment above it. TLC's deadlock check is off
where the system may really stop: `idempotency`, `claim_stuck` and `sessions` (everything
answered and the clock at its end), `metering` and `usage_refused` (the deployment ended, its
usage recorded), `server` (the process exits).

Fairness. In `Jobs` and `Tasks` time passes; `Worker.Run` resets its timer
after every `runOne`, so a live worker claims again and again; a handler is a
bounded series of SQL statements and returns; after it `runOne` always tries to
record the outcome; and whoever runs the service starts it again. `MaxFaults`
bounds crashes, failed statements and overrun leases: no queue settles under
infinitely many of them. A tick that would overrun a lease after the last fault
waits for the handler. Weak fairness suffices, because a claimable job stays
claimable until somebody claims it. Insertion and cancellation are not fair, and
in `Tasks` no user has to do anything. In `Sessions` only starting
processes are fair: what they run is a bounded series of statements, and who runs the
service starts a failed one again. Statements may fail and processes die without a bound, so
`CreateOperator` needs strong fairness: a process that comes to it again and again is let
through once. In `Server` restarts make `OpenStep` fair, too. There goroutines go
on and requests end; the signal and the shutdown deadline are not fair, so that `StopsInTime`
does not rest on the deadline.

## 4. The proofs

`tlapm` proves every safety property the runs check, and `BilledAfterRunning`, which no run
needs to check (what has been running stays so), for all values of the constants that
satisfy the assumption of their module. The assumptions say of the constants what their
types say in the code (totals, sizes, attempts, leases and rates are positive; a record
outlasts a request; an id is not a marker such as `Nil`), and that two sets are finite
because something counts over them: the reservations of `Launchpad` (`Cardinality` of the
claims and in `ChangesAudited`), the workers of `Jobs` (faults of one tick). Nothing is
assumed of sites, scenarios, threads, requests, jobs or processes: there may be any number.

Every theorem follows the same argument: an inductive invariant stronger than the
property, one lemma for each action that says what it changes (its *effect*), and one step
per action that the invariant survives.

- `CapacityLedger`. `LedgerConserves`, under `LedgerAssumption`, which is a hypothesis of
  the theorem and follows from that of `Launchpad`. A claim adds a block of fresh unit
  names to the claims of its site and a return removes exactly that block, so
  free units plus claims stay the total. `Conserved` is inductive together with
  the type invariant.
- `Launchpad`, types. `TypeOK` alone is not inductive: returning units adds to the
  `available` of the reservation's site, which must exist. The invariant is
  `Typed == TypeOK /\ ReservedSiteExists`.
- `Launchpad`, locking. The inductive invariant `Locked` of `OptimisticLocking` adds
  to `Typed` that of every call in flight, the version it read is not beyond the
  row's, and while it still is the row's version the move is legal. Versions only grow
  (`VersionsGrow`), so a version that was passed never comes back, and a row at
  the same version is the same row. From `Locked` follow `PreparedLegal`,
  and `LifecyclesAlwaysFollowed`, because a commit compares the version;
  and `ReviewPrecedesCapacity`, because an approval that was read is final.
- `Launchpad`, capacity: `CapacityRefinement`, `CapacityAlwaysConserved`, `ReturnsAlwaysFit`.
  Every step is a claim, a return or a stutter of the ledger; the inductive step of the
  ledger's theorem carries over to the mapped state; and units held are missing from
  `available`, so that returning them fits.
- `Launchpad`, records. `TableSteps` reduces a step to what one of nine kinds of transaction
  writes. `OutboxAlwaysComplete` and `DecisionsAlwaysRecorded` are inductive with `Locked`: a
  review is inserted with the move it decides, and that move is legal because the version is
  current, so that it leaves a state no decision leads back to and there is no second review. `ReservedWhileActive` follows from the guard of the UPDATE alone. For
  `ChangesAlwaysAudited` the invariant `Counted` also says that there are no events about rows
  that do not exist; a site's version counts two sets of reservations, and a step adds at most
  one element to one of them.
- `Jobs`. The row and the worker see each other only at the claim, so `IInv` says what they
  know of each other later: `HolderAgrees` (whoever's lease lasts owns the row, with that lease and
  that number of attempts) and `Budget`, which adds to `RetryBudget` that a running job nobody holds
  has had a fault that no attempt has used up yet; without it a claim could exceed the budget. From
  it `LeasesExclude`, `BudgetsKept`, `SettledStays`, `OwnersFinish`.
- `Tasks`. `QueueRefined`: every step is one of `Jobs` or leaves its variables alone, so that
  `QueueKept` has `LeaseExclusive` and `RetryBudget` from `JobsProofs`. For `EndedMeansDone` the
  invariant counts: a job whose work is not done has
  lost every attempt, but the one its owner is making, to a fault, a failed statement or the one move
  of an operator that may get in its way (`Excused`); a row a handler holds is the row of the table as
  long as the versions are the same (`SeenAgrees`); and no expire job runs early (`NeverEarly`).
- `Idempotency`. A claim could only be taken away by a request that finds its row expired; it cannot,
  because requests under way are younger than `RequestLimit` (`StartInv`) and the row lasts
  longer. The rest of the invariant is about what has been done: until the window of a handler run is
  over, the row is the one it was done under and nobody is at `claimed` or `failed`
  (`WindowInv`); a response in the row, or in what was read of a row that may be gone by now, is that of a
  committed run for the body of the row (`ResponseInv`). From it `RunsOncePerWindow`,
  `ReplaysFaithful`, `ClaimsExclude`.
- `Metering`. What a request checked before its transaction stays true until it (`CallInv`, `RanInv`:
  a deployment that is running, stopping or stopped has been running), and what is affordable does
  not overflow (`AmountExact`). From it `SettlementsExact` and `BilledOnlyAfterRunning`.
  `ListingsToTheSecond` needs of a text only that it is a sequence that begins with the seconds;
  that takes the existence of `Power` and of `PlacesOf`, which are shown with the least element
  of a set of natural numbers (`LeastNatural`) in place of an induction.
- `Sessions`. The invariant adds to the types what a request remembers of its session and has not
  changed since, and that `logouts` counts exactly the revocation of a row (`LogoutInv`), and that no time
  read is in the future (`ClockInv`). From it `AdmittedAlive`, `LogoutsCountOnce`, `LifetimesStay`.
  `ReadyStays` needs the types only: an INSERT finds no user with the address, and no role changes.
- `Server` and `Migrations`. `DatabaseInv` says that tables and ledger are the same first
  migrations, and what each process has read of them; `MainInv` and `WorkerInv` where the goroutines and the channel
  may be together; with the durations that Load accepts the worker never ends with an error, so that
  an error of `run` comes before it listens or from the listener. From it `CleanExits`,
  `LedgerStaysTrue`, `ServedComplete`.

Only model-checked: `JobsSettle`, `WorkGetsDone`, `BootstrapEnds`, `EventuallyServes` and
`StopsInTime`, which are liveness under fairness and out of the prover's reach; and the
four violations of section 5.

## 5. Findings

1. `activation_unverified`: `README.md:7` has sites verified and then activated.
   `draft -> suspended -> active` is a legal sequence (`domain/site.go:57`) and
   needs no approving review; `TransitionSite` also verifies a draft by itself.
2. `deploy_race`: between `FindReservation` and the INSERT of the deployment
   (`store/deployments.go:12`) the reservation may be released or expire. The domain
   test that refuses a released reservation covers the check, not the commit.
3. `claim_stuck`: a failed request abandons its claim with its own context
   (`httpapi/idempotency.go:85`). If the client is gone the DELETE fails
   silently and retries are refused with 409 until the record expires.
4. `usage_refused`: the trigger of migration 2 compares texts. A period inside one
   second, such as 10:00:00Z to 10:00:00.5Z, passes `NewUsageRecord` and is then
   refused by the database, because `.` sorts before `Z` (`store/store.go:95`).
   For the same reason a listing is right only to the second (`ListedToTheSecond`).

Seen in the code, without a run: `ttl_seconds` is multiplied by `time.Second` before its bounds
are checked (`httpapi/operation_handlers.go:20`), and the product wraps: 2^55 + 3600 seconds
are granted as one hour, because 10^9 is a multiple of 2^9. A test of the domain
(`reservation_test.go:57`, "long ttl") has terms of more than a week refused.

What a property that holds leaves open: `StopsInTime` does not cover a process whose signal came
before main reached its select, when that select takes the worker's result
instead of the context; the second receive then waits for the deadline. That case is reachable
in the model and excepted (`ResultTaken`).
`WorkGetsDone` excepts what depends on a job that has failed for good: such a reservation keeps its
units until somebody releases or reconciles it, and such a deployment waits for an operator.
`SettledMeansDone` says that this takes an outside cause for every attempt. `CleanExit` allows a start
that fails before it listens, and `EventuallyServes` excepts a `Self` whose run has ended: with
bootstrap settings that `config.Load` accepts and `BootstrapOperator` refuses it always does
(`BootstrapEnds` says for which). A stopping deployment whose reservation has ended cannot
be stopped by `StopDeployment` any more (`service/deployments.go:118`); an operator has to move it.
`WorkGetsDone` also says that a deployment moved to `stopped` or `failed` without
a release keeps its units until its reservation expires, not for good.

## 6. Abstractions and what is not modelled

- Outside `Metering` times are numbers. The code compares timestamps as RFC3339Nano
  text, where within one second the order can differ: a lease, an expiry or the end
  of a session may be off by less than a second.
- In `Jobs` a clock reading and the statement that uses it fall in one tick, and
  all processes share a clock: they share the machine of the database file.
- In `Idempotency` no request runs as long as the record lasts (24 hours); a request
  that did would lose its claim to the next one.
- SQLite transactions are atomic and serial (`_txlock=immediate`, one connection);
  a statement waiting for the lock is a thread that has not taken its step.
- In `Sessions` whoever has a session has logged in: passwords and tokens are not told
  apart further. No code changes a user, so `active` stays true.
- In `Tasks` the site that gets the units back is left out: the transaction that
  ends a reservation returns them (`Launchpad`, where it is proved).
- The list of `ReconcileExpiredReservations` is one `Reconcile` (or, in `Launchpad`, one
  `ExpireReservation`) after the other, in any order and with anything in between; its
  loop and its report are not modelled.
- Not modelled: listings and paging, which only read and answer from two statements without a
  transaction; the handlers and middleware beyond idempotency and admission: they decode a request,
  call one operation and encode its result, and hold no state; password hashing, tokens,
  identifiers and the clock, which are taken as what their interfaces promise; the arithmetic of
  `ttl_seconds`; roles and ownership, which only refuse calls; the contents of audit events; the
  mapping of errors to status codes; the values of the settings
  other than the durations, which decide only whether the start fails; `repository` contracts, which state no behaviour.

## 7. Plan

Done: the models of section 2, the runs of section 3, and proofs of every safety property.
What could follow, in this order:

1. `Timestamps`: what the order of texts is within a second, as a theorem: which pairs
   of times it gets wrong, and that it is an order all the same.
2. `Sessions` and `Server` have one invariant each for everything; abstract specifications (a session is
   alive, then over; a schema only grows) with a refinement would say more in fewer words.
3. Listings: a page is two SELECTs without a transaction (`store/sites.go` and the like), so a
   total and its rows may disagree. A model of it would be small.
