------------------------------- MODULE Server -------------------------------
(***************************************************************************)
(* One life of cmd/server: main, the goroutine of the HTTP server with its *)
(* requests, and the goroutine of the worker, from the configuration to    *)
(* the exit. It begins with the database, which other processes may be     *)
(* migrating (Migrations), and with the operator (Sessions); a start that  *)
(* fails in store.Open is made again.                                      *)
(*                                                                         *)
(* main selects between the end of the server, the end of the worker and   *)
(* the context that a signal cancels. The worker's context is derived from *)
(* that one. A goroutine that waits in a select is woken by the first of   *)
(* its cases; one that comes to a select with several cases ready takes    *)
(* any of them. The worker's result is sent once, into a buffer of one.    *)
(***************************************************************************)
EXTENDS Integers

CONSTANTS
  Processes, Known, Nobody, MaxFaults,   \* as in Migrations
  Self,       \* this process
  Requests,
  Durations   \* values of WORKER_POLL_INTERVAL and WORKER_LEASE_DURATION

VARIABLES
  schema, ledger, writer, process, applied, faults,   \* as in Migrations
  config,     \* poll, lease, and whether the worker is enabled
  main,       \* where main is
  exit,       \* what run returned
  signalled,  \* ctx is done
  cancelled,  \* the worker's context is done
  live,       \* checker.live
  server,     \* the server's listener
  request,    \* requests that are being served
  worker,
  result,     \* what is in workerDone
  deadline    \* the shutdown timeout has passed

disk     == <<schema, ledger, writer, applied, faults>>
database == <<disk, process>>
rest     == <<config, main, exit, signalled, cancelled, live, server, request, worker, result, deadline>>
vars     == <<database, rest>>

Database == INSTANCE Migrations

ASSUME ServerAssumption ==
  /\ Database!MigrationsAssumption
  /\ Self \in Processes
  /\ Durations \subseteq Int

Configs == [poll : Durations, lease : Durations, worker : BOOLEAN]

\* What config.Load accepts, whether the worker is enabled or not.
LoadAccepts(c) == c.poll > 0 /\ c.lease > 0 /\ c.lease > c.poll

\* What Worker.Run refuses.
RunRefuses(c) == c.poll <= 0 \/ c.lease <= c.poll

Init ==
  /\ Database!Init
  /\ config \in {c \in Configs : LoadAccepts(c)}
  /\ main = "opening" /\ exit = "none"
  /\ signalled = FALSE /\ cancelled = FALSE
  /\ live = FALSE
  /\ server = "none" /\ request = [r \in Requests |-> "none"]
  /\ worker = "none" /\ result = "none"
  /\ deadline = FALSE

Running == main # "exited"

Continue(place) == main' = place /\ UNCHANGED <<exit, process>>

\* run returns; everything else ends with the process, in the middle of
\* whatever it does. The database is closed on the way.
Return(what) ==
  /\ main' = "exited" /\ exit' = what
  /\ process' = [process EXCEPT ![Self] = "down"]

\* SIGINT or SIGTERM, once ctx listens for them. A main that is waiting in its
\* select is woken by this case, before the worker can end.
Signal ==
  /\ Running /\ ~signalled
  /\ signalled' = TRUE /\ cancelled' = TRUE
  /\ main' = IF main = "waiting" THEN "stopping" ELSE main
  /\ UNCHANGED <<database, config, exit, live, server, request, worker, result, deadline>>

-----------------------------------------------------------------------------
(* Start *)

\* store.Open, here and in the other processes. Here it stops when ctx is done,
\* and a failure comes before Open has returned; the start is made again.
OpenStep(p) ==
  /\ p = Self => main = "opening" /\ ~signalled
  /\ Database!OpenSteps(p)
  /\ UNCHANGED rest

OpenFails(p) ==
  /\ p = Self => process[p] # "serving"
  /\ Database!Fail(p)
  /\ UNCHANGED rest

\* ctx is done before store.Open and BootstrapOperator are: a statement fails,
\* and the transaction it belongs to is rolled back.
AbandonStart ==
  /\ main = "opening" /\ signalled
  /\ Return("error")
  /\ writer' = IF writer = Self THEN Nobody ELSE writer
  /\ UNCHANGED <<schema, ledger, applied, faults, config, signalled, cancelled, live,
                 server, request, worker, result, deadline>>

\* Open has returned. BootstrapOperator may still refuse to start (Sessions says
\* when), and the tables stay as they are.
OpenDatabase ==
  /\ main = "opening" /\ ~signalled
  /\ process[Self] = "serving"
  /\ \/ Continue("starting") /\ live' = TRUE
     \/ Return("error") /\ UNCHANGED live
  /\ UNCHANGED <<disk, config, signalled, cancelled, server, request, worker, result, deadline>>

\* Only a worker needs an id, and may find none.
StartGoroutines ==
  /\ main = "starting"
  /\ \/ /\ main' = "selecting"
        /\ server' = "starting"
        /\ worker' = IF config.worker THEN "starting" ELSE "none"
        /\ UNCHANGED <<exit, process>>
     \/ config.worker /\ Return("error") /\ UNCHANGED <<server, worker>>
  /\ UNCHANGED <<disk, config, signalled, cancelled, live, request, result, deadline>>

\* ListenAndServe: it listens, or fails, at once or later, or finds that Shutdown
\* was first.
Listen ==
  /\ Running
  /\ \/ server = "starting" /\ server' \in {"listening", "failed"}
     \/ server = "listening" /\ server' = "failed"
  /\ UNCHANGED <<database, config, main, exit, signalled, cancelled, live, request, worker, result, deadline>>

-----------------------------------------------------------------------------
(* Requests. Their contexts do not derive from ctx. *)

Arrive(r) ==
  /\ Running /\ server = "listening"
  /\ request[r] = "none"
  /\ request' = [request EXCEPT ![r] = "running"]
  /\ UNCHANGED <<database, config, main, exit, signalled, cancelled, live, server, worker, result, deadline>>

Finish(r) ==
  /\ Running
  /\ request[r] = "running"
  /\ request' = [request EXCEPT ![r] = "answered"]
  /\ UNCHANGED <<database, config, main, exit, signalled, cancelled, live, server, worker, result, deadline>>

-----------------------------------------------------------------------------
(* The worker *)

\* Worker.Run returns; its goroutine sends what it returned.
EndWorker(what) == worker' = "gone" /\ result' = what

RunWorker ==
  /\ Running /\ worker = "starting"
  /\ IF RunRefuses(config) THEN EndWorker("error")
     ELSE worker' = "polling" /\ UNCHANGED result
  /\ UNCHANGED <<database, config, main, exit, signalled, cancelled, live, server, request, deadline>>

\* The select of Run. With the context done a claim fails, and the loop comes
\* back to the select.
Poll ==
  /\ Running /\ worker = "polling"
  /\ \/ cancelled /\ EndWorker("nil")
     \/ ~cancelled /\ worker' = "handling" /\ UNCHANGED result
  /\ UNCHANGED <<database, config, main, exit, signalled, cancelled, live, server, request, deadline>>

\* runOne is back; with the context done its statements failed and the lease
\* of the job has to run out.
Handled ==
  /\ Running /\ worker = "handling"
  /\ worker' = "polling"
  /\ UNCHANGED <<database, config, main, exit, signalled, cancelled, live, server, request, result, deadline>>

-----------------------------------------------------------------------------
(* The select of main. "selecting" has not looked at the cases yet, "waiting" *)
(* found none of them ready.                                                *)

ServerEnded ==
  /\ main \in {"selecting", "waiting"}
  /\ server = "failed"
  /\ Return("error")
  /\ cancelled' = TRUE
  /\ UNCHANGED <<disk, config, signalled, live, server, request, worker, result, deadline>>

WorkerEnded ==
  /\ main \in {"selecting", "waiting"}
  /\ result # "none"
  /\ IF result = "error" THEN Return("error") ELSE Continue("stopping")
  /\ result' = "none"
  /\ UNCHANGED <<disk, config, signalled, cancelled, live, server, request, worker, deadline>>

ContextDone ==
  /\ main = "selecting"
  /\ signalled
  /\ main' = "stopping"
  /\ UNCHANGED <<database, config, exit, signalled, cancelled, live, server, request, worker, result, deadline>>

Wait ==
  /\ main = "selecting"
  /\ server # "failed" /\ result = "none" /\ ~signalled
  /\ main' = "waiting"
  /\ UNCHANGED <<database, config, exit, signalled, cancelled, live, server, request, worker, result, deadline>>

-----------------------------------------------------------------------------
(* Shutdown *)

\* Mutant: probes and clients are not told.
StopSilently ==
  /\ main = "stopping"
  /\ cancelled' = TRUE
  /\ main' = "draining"
  /\ UNCHANGED <<database, config, exit, signalled, live, server, request, worker, result, deadline>>

\* checker.Stop, cancelWorker, and the beginning of server.Shutdown: it closes
\* the listener; ListenAndServe returns ErrServerClosed, which nobody receives.
Stop ==
  /\ main = "stopping"
  /\ live' = FALSE
  /\ cancelled' = TRUE
  /\ server' = "closed"
  /\ main' = "draining"
  /\ UNCHANGED <<database, config, exit, signalled, request, worker, result, deadline>>

Expire ==
  /\ main \in {"draining", "awaiting"} /\ ~deadline
  /\ deadline' = TRUE
  /\ UNCHANGED <<database, config, main, exit, signalled, cancelled, live, server, request, worker, result>>

\* Mutants: Shutdown only closes the listener; run waits for a worker that was
\* never started.
DrainNothing ==
  /\ main = "draining"
  /\ IF config.worker THEN Continue("awaiting") ELSE Return("nil")
  /\ UNCHANGED <<disk, config, signalled, cancelled, live, server, request, worker, result, deadline>>

DrainThenAwait ==
  /\ main = "draining"
  /\ \A r \in Requests : request[r] # "running"
  /\ main' = "awaiting"
  /\ UNCHANGED <<database, config, exit, signalled, cancelled, live, server, request, worker, result, deadline>>

Drain ==
  /\ main = "draining"
  /\ \A r \in Requests : request[r] # "running"
  /\ IF config.worker THEN Continue("awaiting") ELSE Return("nil")
  /\ UNCHANGED <<disk, config, signalled, cancelled, live, server, request, worker, result, deadline>>

AwaitWorker ==
  /\ main = "awaiting"
  /\ result # "none"
  /\ Return(result)
  /\ result' = "none"
  /\ UNCHANGED <<disk, config, signalled, cancelled, live, server, request, worker, deadline>>

TimeOut ==
  /\ main \in {"draining", "awaiting"}
  /\ deadline
  /\ Return("timeout")
  /\ UNCHANGED <<disk, config, signalled, cancelled, live, server, request, worker, result, deadline>>

MainStep ==
  \/ AbandonStart \/ OpenDatabase \/ StartGoroutines
  \/ ServerEnded \/ WorkerEnded \/ ContextDone \/ Wait
  \/ Stop \/ Drain \/ AwaitWorker \/ TimeOut

WorkerStep == RunWorker \/ Poll \/ Handled

Next ==
  \/ \E p \in Processes : OpenStep(p) \/ OpenFails(p)
  \/ Signal \/ Listen \/ Expire \/ MainStep \/ WorkerStep
  \/ \E r \in Requests : Arrive(r) \/ Finish(r)

\* Goroutines go on, requests and jobs are bounded series of statements. The
\* deadline is not fair: nothing may depend on it. Open runs to its end, and is
\* run again by whoever runs the service.
Fairness ==
  /\ \A p \in Processes : WF_vars(OpenStep(p))
  /\ WF_vars(MainStep) /\ WF_vars(WorkerStep)
  /\ \A r \in Requests : WF_vars(Finish(r))

Spec == Init /\ [][Next]_vars /\ Fairness

-----------------------------------------------------------------------------
(* Properties *)

\* run's result and the place of main agree; the worker's result is in the
\* channel only between its end and its receipt; a process that drains accepts
\* nothing new and its probes are refused.
TypeOK ==
  /\ Database!TypeOK
  /\ config \in Configs
  /\ main \in {"opening", "starting", "selecting", "waiting", "stopping", "draining",
               "awaiting", "exited"}
  /\ exit \in {"none", "nil", "error", "timeout"} /\ (exit = "none" <=> Running)
  /\ server \in {"none", "starting", "listening", "failed", "closed"}
  /\ request \in [Requests -> {"none", "running", "answered"}]
  /\ worker \in {"none", "starting", "polling", "handling", "gone"}
  /\ result \in {"none", "nil", "error"} /\ (result # "none" => worker = "gone" /\ exit # "nil")
  /\ signalled \in BOOLEAN /\ cancelled \in BOOLEAN /\ live \in BOOLEAN /\ deadline \in BOOLEAN
  /\ main \in {"draining", "awaiting"} => server = "closed" /\ ~live

\* A process that ends without an error was told to, has answered every
\* request it accepted, and its worker is not in the middle of a job: nobody
\* uses the database when it is closed. One that ends with an error never came
\* to listen, or its listener failed: once it serves, neither the end of its
\* worker, whatever durations Load accepted, nor a signal is an error.
CleanExit ==
  /\ exit = "nil" =>
       /\ signalled
       /\ \A r \in Requests : request[r] # "running"
       /\ worker \in {"none", "gone"}
  /\ exit = "error" => server \in {"none", "failed"}

\* The result of the worker has been received by the first select, so that the
\* second one can only time out.
ResultTaken == worker = "gone" /\ result = "none" /\ Running

\* A process that is told to stop does so without its deadline, unless a signal
\* during the start let the first select take the worker's result.
StopsInTime == signalled ~> (~Running \/ ResultTaken)

\* The ledger of migrations is true although this process may be told to stop
\* in the middle of one.
LedgerTrue == Database!LedgerTrue

\* Whoever serves has all the tables its code names.
ServedSchemaComplete == Database!ServedSchemaComplete

\* Every process serves in the end, unless a newer binary has migrated the
\* database beyond it or its run has ended: no race, no crash and no signal in
\* the middle of a migration leaves a schema that stops all further starts.
EventuallyServes ==
  \A p \in Processes : <>[](Database!Settled(p) \/ (p = Self /\ ~Running))
=============================================================================
