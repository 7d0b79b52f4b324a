----------------------------- MODULE Migrations -----------------------------
(***************************************************************************)
(* Processes that open one database file and bring its schema up to date.  *)
(*                                                                         *)
(* Open creates the migration ledger, reads which versions are applied,    *)
(* and applies the others one by one, each in a transaction that changes   *)
(* the schema and inserts the version into the ledger. What was read is    *)
(* not read again: two processes may be applying the same migration. A     *)
(* process that fails is started again by whoever runs it. Binaries differ *)
(* in the migrations they embed: a rollout starts new ones beside old ones.*)
(***************************************************************************)
EXTENDS Integers, FiniteSets

CONSTANTS
  Processes,
  Known,     \* Known[p]: p embeds the migrations 1 .. Known[p]
  Nobody,
  MaxFaults  \* crashes, failed statements and waits beyond busy_timeout

MigrationsAssumption ==
  /\ Known \in [Processes -> Nat \ {0}]
  /\ Nobody \notin Processes
  /\ MaxFaults \in Nat

VARIABLES
  schema,    \* versions whose tables are there
  ledger,    \* schema_migrations
  writer,    \* whose migration transaction is open
  process,   \* how far each process has come in Open
  applied,   \* applied[p]: the versions p has read or applied
  faults

vars == <<schema, ledger, writer, process, applied, faults>>

Embedded(p) == 1 .. Known[p]

Init ==
  /\ schema = {} /\ ledger = {}
  /\ writer = Nobody
  /\ process = [p \in Processes |-> "down"]
  /\ applied = [p \in Processes |-> {}]
  /\ faults = 0

\* CREATE TABLE IF NOT EXISTS schema_migrations, by a process that starts.
Open(p) ==
  /\ process[p] = "down"
  /\ process' = [process EXCEPT ![p] = "opened"]
  /\ UNCHANGED <<schema, ledger, writer, applied, faults>>

Unknown(p) == ~(ledger \subseteq Embedded(p))

\* appliedVersions, and the loop that looks for unknown ones. The process
\* ends with an error if there is one.
ReadApplied(p) ==
  /\ process[p] = "opened"
  /\ IF Unknown(p)
     THEN process' = [process EXCEPT ![p] = "down"] /\ UNCHANGED applied
     ELSE /\ process' = [process EXCEPT ![p] = "applying"]
          /\ applied' = [applied EXCEPT ![p] = ledger]
  /\ UNCHANGED <<schema, ledger, writer, faults>>

Pending(p) == Embedded(p) \ applied[p]

\* Mutant: in the order of the directory listing.
AnyMigration(p, v) == v \in Pending(p)

\* The next of the sorted migrations that is not applied.
NextMigration(p, v) == v \in Pending(p) /\ \A u \in Pending(p) : v <= u

\* Mutant: the statements are executed outside of the transaction.
ExecuteAtOnce(p, v) ==
  IF v \in schema
  THEN process' = [process EXCEPT ![p] = "down"] /\ UNCHANGED <<writer, schema>>
  ELSE process' = [process EXCEPT ![p] = "executed"] /\ writer' = p /\ schema' = schema \cup {v}

\* Mutant: a table that is there already is taken for success of it all.
ExecuteLeniently(p, v) ==
  /\ IF v \in schema
     THEN process' = [process EXCEPT ![p] = "serving"] /\ UNCHANGED writer
     ELSE process' = [process EXCEPT ![p] = "executed"] /\ writer' = p
  /\ UNCHANGED schema

\* BEGIN IMMEDIATE and the statements of v, which fail if the tables are there.
Execute(p, v) ==
  /\ IF v \in schema
     THEN process' = [process EXCEPT ![p] = "down"] /\ UNCHANGED writer
     ELSE process' = [process EXCEPT ![p] = "executed"] /\ writer' = p
  /\ UNCHANGED schema

ApplyOne(p) ==
  /\ process[p] = "applying"
  /\ writer = Nobody
  /\ \E v \in Embedded(p) : NextMigration(p, v) /\ Execute(p, v)
  /\ UNCHANGED <<ledger, applied, faults>>

\* INSERT INTO schema_migrations, whose key is the version, and COMMIT.
Record(p) ==
  /\ process[p] = "executed"
  /\ \E v \in Embedded(p) :
       /\ NextMigration(p, v)
       /\ IF v \in ledger
          THEN /\ process' = [process EXCEPT ![p] = "down"]
               /\ UNCHANGED <<schema, ledger, applied>>
          ELSE /\ process' = [process EXCEPT ![p] = "applying"]
               /\ schema' = schema \cup {v}
               /\ ledger' = ledger \cup {v}
               /\ applied' = [applied EXCEPT ![p] = @ \cup {v}]
  /\ writer' = Nobody
  /\ UNCHANGED faults

\* Open returns the store.
Serve(p) ==
  /\ process[p] = "applying"
  /\ Pending(p) = {}
  /\ process' = [process EXCEPT ![p] = "serving"]
  /\ UNCHANGED <<schema, ledger, writer, applied, faults>>

\* A crash, a statement that fails, a wait for the lock beyond busy_timeout,
\* or a signal while Open runs: an open transaction is rolled back.
Fail(p) ==
  /\ process[p] # "down"
  /\ faults < MaxFaults
  /\ faults' = faults + 1
  /\ process' = [process EXCEPT ![p] = "down"]
  /\ writer' = IF writer = p THEN Nobody ELSE writer
  /\ UNCHANGED <<schema, ledger, applied>>

OpenSteps(p) == Open(p) \/ ReadApplied(p) \/ ApplyOne(p) \/ Record(p) \/ Serve(p)

Next == \E p \in Processes : OpenSteps(p) \/ Fail(p)

Spec == Init /\ [][Next]_vars

-----------------------------------------------------------------------------
(* Properties *)

\* At most one migration transaction is open, by the process that executed.
TypeOK ==
  /\ schema \subseteq Nat /\ ledger \subseteq Nat
  /\ process \in [Processes -> {"down", "opened", "applying", "executed", "serving"}]
  /\ applied \in [Processes -> SUBSET Nat]
  /\ \A p \in Processes : process[p] = "executed" <=> writer = p
  /\ faults \in 0 .. MaxFaults

\* The ledger says what is in the schema, whoever died and wherever, and the
\* versions in it are the first ones: no migration runs before the one it
\* builds on.
LedgerTrue ==
  /\ schema = ledger
  /\ ledger = 1 .. Cardinality(ledger)

\* A process that serves has all the tables its code names, although another
\* one may have applied them under its eyes.
ServedSchemaComplete ==
  \A p \in Processes : process[p] = "serving" => Embedded(p) \subseteq schema

\* A process serves, or a newer binary has migrated the database beyond it.
Settled(p) == process[p] = "serving" \/ Unknown(p)
=============================================================================
