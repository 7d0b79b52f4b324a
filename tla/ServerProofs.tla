---------------------------- MODULE ServerProofs ----------------------------
(***************************************************************************)
(* One life of the server, for any processes, binaries, requests, durations *)
(* and faults: the ledger of migrations is true, whoever serves has its     *)
(* tables, and a process that ends without an error has ended cleanly.      *)
(***************************************************************************)
EXTENDS Server, FiniteSetTheorems, TLAPS

-----------------------------------------------------------------------------
(* The inductive invariants *)

\* The versions in the ledger are the first ones.
IsPrefix(n) == n \in Nat /\ ledger = 1 .. n

\* What p has read or applied are the first versions, too, none of them beyond
\* the ledger or unknown to its binary. While its transaction is open nobody
\* else writes: the ledger is still what it has applied.
HasRead(p) ==
  /\ process[p] \in {"applying", "executed"} =>
       /\ \E m \in Nat : applied[p] = 1 .. m
       /\ applied[p] \subseteq ledger \cap Database!Embedded(p)
  /\ process[p] = "executed" => applied[p] = ledger
  /\ process[p] = "serving" => Database!Embedded(p) \subseteq ledger

\* The inductive invariant of the database.
DatabaseInv ==
  /\ Database!TypeOK
  /\ schema = ledger
  /\ \E n \in Nat : IsPrefix(n)
  /\ \A p \in Processes : HasRead(p)

\* Where main is says what has been opened, started and stopped.
MainInv ==
  /\ LoadAccepts(config)
  /\ process[Self] = "down" \/ main # "exited"
  /\ main \notin {"opening", "exited"} => process[Self] = "serving"
  /\ main \in {"opening", "starting"} => server = "none" /\ worker = "none"
  /\ main \in {"draining", "awaiting"} => cancelled
  /\ main \in {"stopping", "draining", "awaiting"} => signalled
  /\ main = "awaiting" => \A r \in Requests : request[r] # "running"

\* A worker ends because its context is done, and that is because of a signal
\* unless main has come to its end.
WorkerInv ==
  /\ worker # "none" => config.worker
  /\ result # "error"
  /\ worker = "gone" => cancelled
  /\ cancelled => signalled \/ main = "exited"

IInv == TypeOK /\ DatabaseInv /\ MainInv /\ WorkerInv /\ CleanExit

-----------------------------------------------------------------------------
(* The database *)

LEMMA DatabaseConstants ==
  /\ Known \in [Processes -> Nat \ {0}] /\ Nobody \notin Processes /\ MaxFaults \in Nat
  /\ Self \in Processes /\ Durations \subseteq Int
BY ServerAssumption DEF Database!MigrationsAssumption

\* The migration that comes next is the one after the last that is applied.
LEMMA NextIs ==
  ASSUME NEW p \in Processes, NEW m \in Nat, applied[p] = 1 .. m,
         NEW v \in Database!Embedded(p), Database!NextMigration(p, v)
  PROVE  v = m + 1
<1>1. v \in Nat \ {0} /\ v > m
  BY DatabaseConstants DEF Database!NextMigration, Database!Pending, Database!Embedded
<1>2. m + 1 \in Database!Embedded(p) /\ m + 1 \notin applied[p]
  BY <1>1, DatabaseConstants DEF Database!Embedded
<1>3. v <= m + 1
  BY <1>2 DEF Database!NextMigration, Database!Pending
<1> QED
  BY <1>1, <1>3

\* A process that fails, or goes down for another reason, rolls back.
LEMMA DownKeeps ==
  ASSUME DatabaseInv, NEW p \in Processes,
         process' = [process EXCEPT ![p] = "down"],
         writer' = IF writer = p THEN Nobody ELSE writer,
         UNCHANGED <<schema, ledger, applied>>, faults' \in 0 .. MaxFaults
  PROVE  DatabaseInv'
<1>1. Database!TypeOK'
  BY DatabaseConstants DEF DatabaseInv, Database!TypeOK
<1>2. \A q \in Processes : HasRead(q)'
  BY DEF DatabaseInv, HasRead, Database!TypeOK, Database!Embedded
<1> QED
  BY <1>1, <1>2 DEF DatabaseInv, IsPrefix

LEMMA ReadKeeps ==
  ASSUME DatabaseInv, NEW p \in Processes, Database!ReadApplied(p)
  PROVE  DatabaseInv'
<1>1. CASE Database!Unknown(p)
  <2>1. writer # p
    BY DEF DatabaseInv, Database!TypeOK, Database!ReadApplied
  <2> QED
    BY <1>1, <2>1, DownKeeps DEF Database!ReadApplied, DatabaseInv, Database!TypeOK
<1>2. CASE ~Database!Unknown(p)
  <2>1. /\ process[p] = "opened" /\ process' = [process EXCEPT ![p] = "applying"]
        /\ applied' = [applied EXCEPT ![p] = ledger]
        /\ UNCHANGED <<schema, ledger, writer, faults>>
        /\ ledger \subseteq Database!Embedded(p)
    BY <1>2 DEF Database!ReadApplied, Database!Unknown
  <2>2. Database!TypeOK'
    BY <2>1, DatabaseConstants DEF DatabaseInv, Database!TypeOK
  <2>3. ASSUME NEW q \in Processes PROVE HasRead(q)'
    <3>1. CASE q = p
      <4>1. /\ process'[p] = "applying" /\ applied'[p] = ledger
            /\ \E m \in Nat : ledger = 1 .. m
        BY <2>1 DEF DatabaseInv, IsPrefix, Database!TypeOK
      <4> QED
        BY <2>1, <3>1, <4>1 DEF HasRead, Database!Embedded
    <3>2. CASE q # p
      <4>1. process'[q] = process[q] /\ applied'[q] = applied[q]
        BY <2>1, <3>2 DEF DatabaseInv, Database!TypeOK
      <4> QED
        BY <2>1, <2>3, <4>1 DEF DatabaseInv, HasRead, Database!Embedded
    <3> QED
      BY <3>1, <3>2
  <2> QED
    BY <2>1, <2>2, <2>3 DEF DatabaseInv, IsPrefix
<1> QED
  BY <1>1, <1>2

LEMMA ApplyKeeps ==
  ASSUME DatabaseInv, NEW p \in Processes, Database!ApplyOne(p)
  PROVE  DatabaseInv'
<1> PICK v \in Database!Embedded(p) : Database!NextMigration(p, v) /\ Database!Execute(p, v)
  BY DEF Database!ApplyOne
<1>0. /\ process[p] = "applying" /\ writer = Nobody /\ writer # p
      /\ UNCHANGED <<schema, ledger, applied, faults>>
      /\ faults \in 0 .. MaxFaults
  BY DatabaseConstants DEF Database!ApplyOne, Database!Execute, DatabaseInv, Database!TypeOK
<1>1. CASE v \in schema
  BY <1>0, <1>1, DownKeeps DEF Database!Execute
<1>2. CASE v \notin schema
  <2>1. process' = [process EXCEPT ![p] = "executed"] /\ writer' = p
    BY <1>2 DEF Database!Execute
  <2>2. Database!TypeOK'
    BY <1>0, <2>1, DatabaseConstants DEF DatabaseInv, Database!TypeOK
  <2>3. applied[p] = ledger
    <3> PICK m \in Nat : applied[p] = 1 .. m /\ applied[p] \subseteq ledger
      BY <1>0 DEF DatabaseInv, HasRead
    <3> PICK n \in Nat : ledger = 1 .. n
      BY DEF DatabaseInv, IsPrefix
    <3>1. v = m + 1
      BY NextIs
    <3>2. m + 1 \notin 1 .. n
      BY <1>2, <3>1 DEF DatabaseInv
    <3> QED
      BY <3>2
  <2>4. ASSUME NEW q \in Processes PROVE HasRead(q)'
    <3>1. CASE q = p
      <4>1. process'[p] = "executed"
        BY <2>1 DEF DatabaseInv, Database!TypeOK
      <4> QED
        BY <1>0, <2>3, <3>1, <4>1 DEF DatabaseInv, HasRead, Database!Embedded
    <3>2. CASE q # p
      <4>1. process'[q] = process[q]
        BY <2>1, <3>2 DEF DatabaseInv, Database!TypeOK
      <4> QED
        BY <1>0, <4>1 DEF DatabaseInv, HasRead, Database!Embedded
    <3> QED
      BY <3>1, <3>2
  <2> QED
    BY <1>0, <2>2, <2>4 DEF DatabaseInv, IsPrefix
<1> QED
  BY <1>1, <1>2

LEMMA RecordKeeps ==
  ASSUME DatabaseInv, NEW p \in Processes, Database!Record(p)
  PROVE  DatabaseInv'
<1> PICK v \in Database!Embedded(p) :
      /\ Database!NextMigration(p, v)
      /\ IF v \in ledger
         THEN process' = [process EXCEPT ![p] = "down"] /\ UNCHANGED <<schema, ledger, applied>>
         ELSE /\ process' = [process EXCEPT ![p] = "applying"]
              /\ schema' = schema \cup {v}
              /\ ledger' = ledger \cup {v}
              /\ applied' = [applied EXCEPT ![p] = @ \cup {v}]
  BY DEF Database!Record
<1> PICK n \in Nat : ledger = 1 .. n
  BY DEF DatabaseInv, IsPrefix
<1>0. /\ process[p] = "executed" /\ writer = p /\ writer' = Nobody /\ faults' = faults
      /\ faults \in 0 .. MaxFaults
      /\ \A q \in Processes \ {p} : process[q] # "executed"
      /\ applied[p] = ledger
  BY DEF Database!Record, DatabaseInv, Database!TypeOK, HasRead
<1>1. v = n + 1
  BY <1>0, NextIs
<1>2. /\ process' = [process EXCEPT ![p] = "applying"]
      /\ schema' = schema \cup {v} /\ ledger' = ledger \cup {v}
      /\ applied' = [applied EXCEPT ![p] = ledger']
  <2>1. v \notin ledger
    <3> n + 1 \notin 1 .. n
      OBVIOUS
    <3> QED
      BY <1>1
  <2>2. /\ process' = [process EXCEPT ![p] = "applying"]
        /\ schema' = schema \cup {v} /\ ledger' = ledger \cup {v}
        /\ applied' = [applied EXCEPT ![p] = applied[p] \cup {v}]
    BY <2>1
  <2>3. applied[p] \cup {v} = ledger'
    BY <1>0, <2>2
  <2> QED
    BY <2>2, <2>3
<1>3. ledger' = 1 .. (n + 1)
  BY <1>1, <1>2
<1>4. Database!TypeOK'
  BY <1>0, <1>1, <1>2, <1>3, DatabaseConstants DEF DatabaseInv, Database!TypeOK
<1>5. ASSUME NEW q \in Processes PROVE HasRead(q)'
  <2>1. CASE q = p
    <3>1. process'[p] = "applying" /\ applied'[p] = ledger'
      BY <1>2 DEF DatabaseInv, Database!TypeOK
    <3>2. ledger' \subseteq Database!Embedded(p)
      BY <1>0, <1>2 DEF DatabaseInv, HasRead
    <3> QED
      BY <1>3, <2>1, <3>1, <3>2 DEF HasRead, Database!Embedded
  <2>2. CASE q # p
    <3>1. process'[q] = process[q] /\ applied'[q] = applied[q] /\ ledger \subseteq ledger'
      BY <1>2, <2>2 DEF DatabaseInv, Database!TypeOK
    <3> QED
      BY <1>0, <2>2, <3>1 DEF DatabaseInv, HasRead, Database!Embedded
  <2> QED
    BY <2>1, <2>2
<1> QED
  BY <1>2, <1>3, <1>4, <1>5 DEF DatabaseInv, IsPrefix

LEMMA ServeKeeps ==
  ASSUME DatabaseInv, NEW p \in Processes, Database!Open(p) \/ Database!Serve(p)
  PROVE  DatabaseInv'
<1>1. UNCHANGED <<schema, ledger, writer, applied, faults>>
  BY DEF Database!Open, Database!Serve
<1>2. Database!TypeOK'
  BY <1>1, DatabaseConstants DEF DatabaseInv, Database!TypeOK, Database!Open, Database!Serve
<1>3. ASSUME NEW q \in Processes PROVE HasRead(q)'
  <2>1. CASE q # p
    <3>1. process'[q] = process[q]
      BY <2>1 DEF DatabaseInv, Database!TypeOK, Database!Open, Database!Serve
    <3> QED
      BY <1>1, <3>1 DEF DatabaseInv, HasRead, Database!Embedded
  <2>2. CASE q = p /\ Database!Open(p)
    <3>1. process'[p] = "opened"
      BY <2>2 DEF DatabaseInv, Database!TypeOK, Database!Open
    <3> QED
      BY <2>2, <3>1 DEF HasRead
  <2>3. CASE q = p /\ Database!Serve(p)
    <3>1. process'[p] = "serving" /\ Database!Embedded(p) \subseteq applied[p]
      BY <2>3 DEF DatabaseInv, Database!TypeOK, Database!Serve, Database!Pending
    <3>2. applied[p] \subseteq ledger
      BY <2>3 DEF DatabaseInv, HasRead, Database!Serve
    <3> QED
      BY <1>1, <2>3, <3>1, <3>2 DEF HasRead, Database!Embedded
  <2> QED
    BY <2>1, <2>2, <2>3
<1> QED
  BY <1>1, <1>2, <1>3 DEF DatabaseInv, IsPrefix

\* No step of Open, in this process or another, breaks the database.
LEMMA OpenKeeps ==
  ASSUME DatabaseInv, NEW p \in Processes, Database!OpenSteps(p) \/ Database!Fail(p)
  PROVE  DatabaseInv'
<1>1. CASE Database!Fail(p)
  <2>1. faults' \in 0 .. MaxFaults
    BY <1>1, DatabaseConstants DEF Database!Fail, DatabaseInv, Database!TypeOK
  <2> QED
    BY <1>1, <2>1, DownKeeps DEF Database!Fail
<1> QED
  BY <1>1, ReadKeeps, ApplyKeeps, RecordKeeps, ServeKeeps DEF Database!OpenSteps
-----------------------------------------------------------------------------
(* The steps *)

\* Only the process itself moves in a step of Open, and this one does so only
\* while main waits for it.
LEMMA OthersStay ==
  ASSUME IInv, NEW p \in Processes, OpenStep(p) \/ OpenFails(p)
  PROVE  /\ UNCHANGED rest
         /\ process' = process \/ main = "opening" \/ process'[Self] = process[Self]
<1>1. \A q \in Processes \ {p} : process'[q] = process[q]
  BY DEF IInv, DatabaseInv, Database!TypeOK, OpenStep, OpenFails, Database!OpenSteps, Database!Open,
         Database!ReadApplied, Database!ApplyOne, Database!Execute, Database!Record,
         Database!Serve, Database!Fail
<1>2. p = Self => main = "opening"
  BY DatabaseConstants DEF IInv, MainInv, OpenStep, OpenFails, Database!Fail, DatabaseInv, Database!TypeOK, TypeOK
<1> QED
  BY <1>1, <1>2, DatabaseConstants DEF OpenStep, OpenFails

LEMMA OpenStepKeeps ==
  ASSUME IInv, NEW p \in Processes, OpenStep(p) \/ OpenFails(p)
  PROVE  IInv'
<1>1. DatabaseInv'
  BY OpenKeeps DEF IInv, OpenStep, OpenFails
<1>2. UNCHANGED rest
  BY OthersStay
<1>3. TypeOK'
  BY <1>1, <1>2 DEF IInv, TypeOK, DatabaseInv, rest, Running
<1>4. MainInv'
  BY <1>2, OthersStay DEF IInv, TypeOK, MainInv, rest, LoadAccepts
<1>5. WorkerInv' /\ CleanExit'
  BY <1>2 DEF IInv, WorkerInv, CleanExit, rest
<1> QED
  BY <1>1, <1>3, <1>4, <1>5 DEF IInv

\* A step that does not go to the database leaves it as it is.
LEMMA DatabaseStays ==
  ASSUME DatabaseInv, UNCHANGED database
  PROVE  DatabaseInv'
BY DEF DatabaseInv, Database!TypeOK, IsPrefix, HasRead, Database!Embedded, database, disk

\* A process that returns when it has been serving had no transaction open.
LEMMA ReturnKeeps ==
  ASSUME DatabaseInv, process[Self] = "serving", UNCHANGED disk,
         process' = [process EXCEPT ![Self] = "down"]
  PROVE  DatabaseInv'
<1>1. writer # Self
  BY DatabaseConstants DEF DatabaseInv, Database!TypeOK
<1>2. faults' \in 0 .. MaxFaults
  BY DEF DatabaseInv, Database!TypeOK, disk
<1> QED
  BY <1>1, <1>2, DownKeeps, DatabaseConstants DEF disk

LEMMA StartStep ==
  ASSUME IInv, AbandonStart \/ OpenDatabase \/ StartGoroutines
  PROVE  IInv'
<1>1. DatabaseInv'
  <2>1. CASE AbandonStart
    <3>1. faults' \in 0 .. MaxFaults
      BY <2>1 DEF AbandonStart, IInv, DatabaseInv, Database!TypeOK
    <3> QED
      BY <2>1, <3>1, DownKeeps, DatabaseConstants DEF AbandonStart, Return, IInv
  <2>2. CASE OpenDatabase \/ StartGoroutines
    <3>1. process[Self] = "serving"
      BY <2>2 DEF OpenDatabase, StartGoroutines, IInv, MainInv
    <3>2. UNCHANGED database \/ (UNCHANGED disk /\ process' = [process EXCEPT ![Self] = "down"])
      BY <2>2 DEF OpenDatabase, StartGoroutines, Continue, Return, database
    <3> QED
      BY <3>1, <3>2, ReturnKeeps, DatabaseStays DEF IInv
  <2> QED
    BY <2>1, <2>2
<1>2. TypeOK'
  BY <1>1 DEF IInv, TypeOK, DatabaseInv, MainInv, Running, AbandonStart, OpenDatabase,
              StartGoroutines, Continue, Return
<1>3. MainInv'
  BY DatabaseConstants
     DEF IInv, TypeOK, DatabaseInv, Database!TypeOK, MainInv, LoadAccepts, AbandonStart,
         OpenDatabase, StartGoroutines, Continue, Return, database
<1>4. WorkerInv' /\ CleanExit'
  BY DEF IInv, TypeOK, Configs, MainInv, WorkerInv, CleanExit, AbandonStart, OpenDatabase,
         StartGoroutines, Continue, Return, Running
<1> QED
  BY <1>1, <1>2, <1>3, <1>4 DEF IInv

\* Signals, the listener, the requests and the deadline.
LEMMA OutsideStep ==
  ASSUME IInv, Signal \/ Listen \/ Expire \/ (\E r \in Requests : Arrive(r) \/ Finish(r))
  PROVE  IInv'
<1>0. UNCHANGED database
  BY DEF Signal, Listen, Expire, Arrive, Finish
<1>1. DatabaseInv'
  BY <1>0, DatabaseStays DEF IInv
<1>2. TypeOK'
  <2>1. request' \in [Requests -> {"none", "running", "answered"}]
    BY DEF IInv, TypeOK, Signal, Listen, Expire, Arrive, Finish
  <2>2. /\ UNCHANGED <<config, exit, worker, result, live>>
        /\ main' \in {main, "stopping"} /\ (main' # main => main = "waiting")
        /\ \/ server' = server
           \/ server \in {"starting", "listening"} /\ server' \in {"listening", "failed"}
        /\ signalled' \in BOOLEAN /\ cancelled' \in BOOLEAN /\ deadline' \in BOOLEAN
    BY DEF IInv, TypeOK, Signal, Listen, Expire, Arrive, Finish
  <2> QED
    BY <1>1, <2>1, <2>2 DEF IInv, TypeOK, DatabaseInv, Running
<1>3. MainInv'
  BY <1>0 DEF IInv, TypeOK, MainInv, LoadAccepts, Running, database, Signal, Listen, Expire, Arrive,
              Finish
<1>4. WorkerInv' /\ CleanExit'
  BY DEF IInv, TypeOK, MainInv, WorkerInv, CleanExit, Running, Signal, Listen, Expire, Arrive, Finish
<1> QED
  BY <1>1, <1>2, <1>3, <1>4 DEF IInv

\* A configuration that Load accepted is one that Run does not refuse.
LEMMA RunAccepts ==
  ASSUME IInv
  PROVE  ~RunRefuses(config)
<1>1. config.poll \in Int /\ config.lease \in Int
  BY DatabaseConstants DEF IInv, TypeOK, Configs
<1> QED
  BY <1>1 DEF IInv, MainInv, LoadAccepts, RunRefuses

LEMMA WorkerKeeps ==
  ASSUME IInv, WorkerStep
  PROVE  IInv'
<1>0. UNCHANGED database /\ UNCHANGED <<config, main, exit, signalled, cancelled, live, server,
                                        request, deadline>>
  BY DEF WorkerStep, RunWorker, Poll, Handled
<1>1. DatabaseInv'
  BY <1>0, DatabaseStays DEF IInv
<1>2. \/ worker' \in {"polling", "handling"} /\ result' = result
      \/ worker' = "gone" /\ result' = "nil" /\ cancelled
  BY RunAccepts DEF WorkerStep, RunWorker, Poll, Handled, EndWorker
<1>3. worker \notin {"none", "gone"} /\ Running
  BY DEF WorkerStep, RunWorker, Poll, Handled
<1>4. TypeOK'
  BY <1>0, <1>1, <1>2, <1>3 DEF IInv, TypeOK, DatabaseInv, Running
<1>5. MainInv'
  BY <1>0, <1>2, <1>3 DEF IInv, MainInv, LoadAccepts, database
<1>6. WorkerInv' /\ CleanExit'
  BY <1>0, <1>2, <1>3 DEF IInv, TypeOK, WorkerInv, CleanExit, Running
<1> QED
  BY <1>1, <1>4, <1>5, <1>6 DEF IInv

LEMMA SelectStep ==
  ASSUME IInv, ServerEnded \/ WorkerEnded \/ ContextDone \/ Wait
  PROVE  IInv'
<1>1. DatabaseInv'
  <2>1. process[Self] = "serving"
    BY DEF IInv, MainInv, ServerEnded, WorkerEnded, ContextDone, Wait
  <2>2. CASE ServerEnded
    BY <2>1, <2>2, ReturnKeeps DEF ServerEnded, Return, IInv
  <2>3. CASE WorkerEnded
    BY <2>1, <2>3, DatabaseStays DEF WorkerEnded, Continue, IInv, WorkerInv, database
  <2>4. CASE ContextDone \/ Wait
    BY <2>4, DatabaseStays DEF ContextDone, Wait, IInv
  <2> QED
    BY <2>2, <2>3, <2>4
<1>2. TypeOK'
  BY <1>1 DEF IInv, TypeOK, DatabaseInv, WorkerInv, Running, ServerEnded, WorkerEnded, ContextDone,
              Wait, Continue, Return
<1>3. MainInv'
  BY DatabaseConstants
     DEF IInv, TypeOK, DatabaseInv, Database!TypeOK, MainInv, WorkerInv, LoadAccepts, Running,
         ServerEnded, WorkerEnded, ContextDone, Wait, Continue, Return, database
<1>4. WorkerInv' /\ CleanExit'
  BY DEF IInv, TypeOK, MainInv, WorkerInv, CleanExit, Running, ServerEnded, WorkerEnded,
         ContextDone, Wait, Continue, Return
<1> QED
  BY <1>1, <1>2, <1>3, <1>4 DEF IInv

LEMMA ShutdownStep ==
  ASSUME IInv, Stop \/ Drain \/ AwaitWorker \/ TimeOut
  PROVE  IInv'
<1>1. DatabaseInv'
  <2>1. process[Self] = "serving"
    BY DEF IInv, MainInv, Stop, Drain, AwaitWorker, TimeOut
  <2>2. UNCHANGED database \/ (UNCHANGED disk /\ process' = [process EXCEPT ![Self] = "down"])
    BY DEF Stop, Drain, AwaitWorker, TimeOut, Return, Continue, database
  <2> QED
    BY <2>1, <2>2, ReturnKeeps, DatabaseStays DEF IInv
<1>2. TypeOK'
  <2>1. CASE Stop
    BY <1>1, <2>1 DEF IInv, TypeOK, DatabaseInv, Running, Stop
  <2>2. CASE Drain
    BY <1>1, <2>2 DEF IInv, TypeOK, DatabaseInv, WorkerInv, Running, Drain, Continue, Return
  <2>3. CASE AwaitWorker \/ TimeOut
    BY <1>1, <2>3 DEF IInv, TypeOK, DatabaseInv, WorkerInv, Running, AwaitWorker, TimeOut, Return
  <2> QED
    BY <2>1, <2>2, <2>3
<1>3. MainInv'
  BY DatabaseConstants
     DEF IInv, TypeOK, DatabaseInv, Database!TypeOK, MainInv, WorkerInv, LoadAccepts, Running,
         Stop, Drain, AwaitWorker, TimeOut, Continue, Return, database
<1>4. WorkerInv' /\ CleanExit'
  BY DEF IInv, TypeOK, MainInv, WorkerInv, CleanExit, Running, Stop, Drain, AwaitWorker, TimeOut,
         Continue, Return
<1> QED
  BY <1>1, <1>2, <1>3, <1>4 DEF IInv

-----------------------------------------------------------------------------
(* The theorems *)

LEMMA InitIInv == Init => IInv
<1> SUFFICES ASSUME Init PROVE IInv
  OBVIOUS
<1>1. DatabaseInv
  <2>1. Database!TypeOK
    BY DatabaseConstants DEF Init, Database!Init, Database!TypeOK
  <2>2. IsPrefix(0)
    BY DEF Init, Database!Init, IsPrefix
  <2> QED
    BY <2>1, <2>2 DEF Init, Database!Init, DatabaseInv, HasRead
<1>2. TypeOK
  BY <1>1 DEF Init, TypeOK, DatabaseInv, Running
<1> QED
  BY <1>1, <1>2, DatabaseConstants
     DEF Init, Database!Init, IInv, MainInv, WorkerInv, CleanExit

LEMMA NextIInv == IInv /\ [Next]_vars => IInv'
<1> SUFFICES ASSUME IInv, [Next]_vars PROVE IInv'
  OBVIOUS
<1>1. CASE UNCHANGED vars
  <2>1. DatabaseInv'
    BY <1>1, DatabaseStays DEF IInv, vars
  <2>2. TypeOK' /\ MainInv' /\ WorkerInv' /\ CleanExit'
    BY <1>1, <2>1 DEF IInv, TypeOK, DatabaseInv, MainInv, WorkerInv, CleanExit, LoadAccepts, Running,
                      vars, rest, database
  <2> QED
    BY <2>1, <2>2 DEF IInv
<1>2. CASE \E p \in Processes : OpenStep(p) \/ OpenFails(p)
  BY <1>2, OpenStepKeeps
<1>3. CASE Signal \/ Listen \/ Expire \/ (\E r \in Requests : Arrive(r) \/ Finish(r))
  BY <1>3, OutsideStep
<1>4. CASE MainStep
  BY <1>4, StartStep, SelectStep, ShutdownStep DEF MainStep
<1>5. CASE WorkerStep
  BY <1>5, WorkerKeeps
<1> QED
  BY <1>1, <1>2, <1>3, <1>4, <1>5 DEF Next

LEMMA Inductive == Spec => []IInv
BY InitIInv, NextIInv, PTL DEF Spec

\* run's result, the place of main and what the goroutines have come to agree,
\* and at most one migration transaction is open.
THEOREM TypeCorrect == Spec => []TypeOK
<1>1. IInv => TypeOK
  BY DEF IInv
<1> QED
  BY Inductive, <1>1, PTL

\* A process that ends without an error was told to, has answered the requests
\* it accepted and has no worker in the middle of a job; and one that ends with
\* an error never came to listen, or its listener failed: with durations that
\* Load accepted the worker's end is no error.
THEOREM CleanExits == Spec => []CleanExit
<1>1. IInv => CleanExit
  BY DEF IInv
<1> QED
  BY Inductive, <1>1, PTL

\* Wherever processes stop or are stopped, schema_migrations names exactly the
\* migrations whose tables are there, and these are the first ones.
THEOREM LedgerStaysTrue == Spec => []LedgerTrue
<1>1. IInv => LedgerTrue
  <2> SUFFICES ASSUME IInv PROVE LedgerTrue
    OBVIOUS
  <2> PICK n \in Nat : ledger = 1 .. n
    BY DEF IInv, DatabaseInv, IsPrefix
  <2>1. Cardinality(1 .. n) = n
    BY FS_Interval
  <2>2. Database!Cardinality(ledger) = Cardinality(ledger)
    BY DEF Database!Cardinality, Cardinality
  <2> QED
    BY <2>1, <2>2 DEF IInv, DatabaseInv, LedgerTrue, Database!LedgerTrue
<1> QED
  BY Inductive, <1>1, PTL

\* Whoever serves has all the tables its binary names, although another process
\* may have applied some of them while it was starting.
THEOREM ServedComplete == Spec => []ServedSchemaComplete
<1>1. IInv => ServedSchemaComplete
  BY DEF IInv, DatabaseInv, HasRead, ServedSchemaComplete, Database!ServedSchemaComplete
<1> QED
  BY Inductive, <1>1, PTL
=============================================================================
