------------------------------ MODULE Sessions ------------------------------
(***************************************************************************)
(* Users, their sessions, and the requests that come with a session's      *)
(* token.                                                                  *)
(*                                                                         *)
(* Authenticate reads the session, reads the clock, and touches the row    *)
(* with a guarded UPDATE; only then the request is admitted. Meanwhile     *)
(* another request logs out, the session expires, or it is cleaned up.     *)
(* Processes that start look for the operator they are configured with and *)
(* create it, while partners register. config.Load accepts more addresses  *)
(* and passwords than the code that uses them.                             *)
(*                                                                         *)
(* Whoever has a session has logged in; tokens and passwords are not told  *)
(* apart from that. No code changes a user: active is always true.         *)
(***************************************************************************)
EXTENDS Integers, FiniteSets

CONSTANTS
  Emails,      \* normalized addresses
  Sessions,    \* ids and tokens, each drawn once
  Requests,    \* requests of clients, and cleanups
  Processes,   \* starts of the server
  Operator,    \* the address processes are configured with
  Misnamed,    \* processes whose address NormalizeEmail refuses
  Overlong,    \* processes whose password HashPassword refuses
  Nil,
  TTL,         \* s.SessionTTL
  Retention,   \* how long a revoked session is kept: 24 hours
  MaxTime      \* the clock stops here

ASSUME SessionsAssumption ==
  /\ Operator \in Emails
  /\ Misnamed \subseteq Processes /\ Overlong \subseteq Processes
  /\ TTL \in Nat \ {0}
  /\ Retention \in Nat
  /\ MaxTime \in Nat
  /\ Nil \notin 0 .. MaxTime /\ Nil \notin {"operator", "partner"}

VARIABLES
  now,
  user,      \* the users table: a role for each email
  session,   \* the sessions table
  request,   \* what each request does and what it has in memory
  process,   \* what each process has come to in BootstrapOperator; down is one
             \* that has not been started, or has ended with an error
  logouts    \* logouts[s]: requests that were told they logged out of s

vars == <<now, user, session, request, process, logouts>>

Absent  == [user |-> Nil, row |-> "absent"]
Deleted == [user |-> Nil, row |-> "deleted"]   \* its id is not drawn again
Idle    == [state |-> "idle"]

Roles == {"operator", "partner"}
Time  == 0 .. MaxTime

Row == [user : Emails, expires : 0 .. MaxTime + TTL, revoked : Time \cup {Nil}, seen : Time]

\* What Authenticate and CleanupSessions have in memory.
Authentication ==
  [state : {"found", "usable", "admitted"}, session : Sessions, role : Roles,
   expires : 0 .. MaxTime + TTL, revoked : Time \cup {Nil}, at : Time]
Cleanup == [state : {"cleaning"}, at : Time]

Exists(s) == session[s] \notin {Absent, Deleted}

Init ==
  /\ now = 0
  /\ user = [e \in Emails |-> Nil]
  /\ session = [s \in Sessions |-> Absent]
  /\ request = [r \in Requests |-> Idle]
  /\ process = [p \in Processes |-> "down"]
  /\ logouts = [s \in Sessions |-> 0]

Tick == now < MaxTime /\ now' = now + 1 /\ UNCHANGED <<user, session, request, process, logouts>>

-----------------------------------------------------------------------------
(* Users *)

\* Mutant: an upsert.
CreateUserAgain(e, role) == user' = [user EXCEPT ![e] = role]

\* INSERT INTO users: the email is unique.
CreateUser(e, role) ==
  /\ user[e] = Nil
  /\ user' = [user EXCEPT ![e] = role]

RegisterPartner(e) ==
  /\ CreateUser(e, "partner")
  /\ UNCHANGED <<now, session, request, process, logouts>>

\* Mutants: whoever has the address is in the way; or is the operator.
FindOperatorRefusing(p) ==
  /\ process[p] = "down"
  /\ process' = [process EXCEPT ![p] =
       IF p \notin Misnamed /\ user[Operator] = Nil THEN "creating" ELSE "down"]
  /\ UNCHANGED <<now, user, session, request, logouts>>

FindOperatorAnyRole(p) ==
  /\ process[p] = "down"
  /\ process' = [process EXCEPT ![p] =
       IF p \in Misnamed THEN "down" ELSE IF user[Operator] = Nil THEN "creating" ELSE "ready"]
  /\ UNCHANGED <<now, user, session, request, logouts>>

\* BootstrapOperator looks for the address. A process that failed is started
\* again by whoever runs it, configured as it was.
FindOperator(p) ==
  /\ process[p] = "down"
  /\ process' = [process EXCEPT ![p] =
       IF p \in Misnamed \/ user[Operator] = "partner" THEN "down"
       ELSE IF user[Operator] = "operator" THEN "ready" ELSE "creating"]
  /\ UNCHANGED <<now, user, session, request, logouts>>

\* The password is hashed only now: where the operator is there already,
\* nobody looks at it.
CreateOperator(p) ==
  /\ process[p] = "creating"
  /\ \/ /\ p \notin Overlong
        /\ CreateUser(Operator, "operator")
        /\ process' = [process EXCEPT ![p] = "ready"]
     \/ /\ p \in Overlong \/ user[Operator] # Nil
        /\ process' = [process EXCEPT ![p] = "down"]
        /\ UNCHANGED user
  /\ UNCHANGED <<now, session, request, logouts>>

\* The look fails, or the salt, the id or the INSERT does; or the process dies.
FailBootstrap(p) ==
  /\ process[p] \in {"down", "creating"}
  /\ process' = [process EXCEPT ![p] = "down"]
  /\ UNCHANGED <<now, user, session, request, logouts>>

-----------------------------------------------------------------------------
(* Requests *)

Login(e, s) ==
  /\ user[e] # Nil
  /\ session[s] = Absent
  /\ session' = [session EXCEPT
       ![s] = [user |-> e, expires |-> now + TTL, revoked |-> Nil, seen |-> now]]
  /\ UNCHANGED <<now, user, request, process, logouts>>

\* session.Usable(t) of the row
Usable(s, t) == session[s].revoked = Nil /\ t < session[s].expires

\* The SELECT of Authenticate; without a row the request is refused. What
\* Usable says of this row it says with a clock that is read a little later.
FindSession(r, s) ==
  /\ request[r] = Idle
  /\ Exists(s)
  /\ request' = [request EXCEPT
       ![r] = [state |-> "found", session |-> s, role |-> user[session[s].user],
               expires |-> session[s].expires, revoked |-> session[s].revoked, at |-> now]]
  /\ UNCHANGED <<now, user, session, process, logouts>>

CheckUsable(r) ==
  /\ request[r].state = "found"
  /\ request' = [request EXCEPT ![r] =
       IF request[r].revoked = Nil /\ now < request[r].expires
       THEN [@ EXCEPT !.state = "usable", !.at = now] ELSE Idle]
  /\ UNCHANGED <<now, user, session, process, logouts>>

\* Mutant: the UPDATE looks for the id only.
TouchableById(s, t) == Exists(s)

\* WHERE id=? AND revoked_at IS NULL AND expires_at>?
Touchable(s, t) == Exists(s) /\ Usable(s, t)

TouchSession(r) ==
  /\ request[r].state = "usable"
  /\ LET s == request[r].session
         t == request[r].at IN
       IF Touchable(s, t)
       THEN /\ session' = [session EXCEPT ![s].seen = t]
            /\ request' = [request EXCEPT ![r].state = "admitted"]
       ELSE request' = [request EXCEPT ![r] = Idle] /\ UNCHANGED session
  /\ UNCHANGED <<now, user, process, logouts>>

\* The handler of any other route: what it may do is up to the role.
Answer(r) ==
  /\ request[r].state = "admitted"
  /\ request' = [request EXCEPT ![r] = Idle]
  /\ UNCHANGED <<now, user, session, process, logouts>>

\* Mutant: the UPDATE revokes a session again.
RevocableAgain(s) == Exists(s)

\* WHERE id=? AND revoked_at IS NULL
Revocable(s) == Exists(s) /\ session[s].revoked = Nil

\* Logout. Nobody is told so if another request was first.
Logout(r) ==
  /\ request[r].state = "admitted"
  /\ LET s == request[r].session IN
       IF Revocable(s)
       THEN /\ session' = [session EXCEPT ![s].revoked = now]
            /\ logouts' = [logouts EXCEPT ![s] = @ + 1]
       ELSE UNCHANGED <<session, logouts>>
  /\ request' = [request EXCEPT ![r] = Idle]
  /\ UNCHANGED <<now, user, process>>

-----------------------------------------------------------------------------
(* Cleanup *)

\* CleanupSessions reads the clock. Its job is handled, but nothing in the
\* program inserts one.
CleanupSessions(r) ==
  /\ request[r] = Idle
  /\ request' = [request EXCEPT ![r] = [state |-> "cleaning", at |-> now]]
  /\ UNCHANGED <<now, user, session, process, logouts>>

\* Mutant: sessions that are about to expire go, too.
DeletableEarly(s, t) == Exists(s) /\ session[s].expires <= t + 1

Deletable(s, t) ==
  /\ Exists(s)
  /\ \/ session[s].expires <= t
     \/ session[s].revoked # Nil /\ session[s].revoked <= t - Retention

DeleteExpiredSessions(r) ==
  /\ request[r].state = "cleaning"
  /\ session' = [s \in Sessions |-> IF Deletable(s, request[r].at) THEN Deleted ELSE session[s]]
  /\ request' = [request EXCEPT ![r] = Idle]
  /\ UNCHANGED <<now, user, process, logouts>>

Next ==
  \/ Tick
  \/ \E e \in Emails : RegisterPartner(e) \/ \E s \in Sessions : Login(e, s)
  \/ \E p \in Processes : FindOperator(p) \/ CreateOperator(p) \/ FailBootstrap(p)
  \/ \E r \in Requests :
       \/ \E s \in Sessions : FindSession(r, s)
       \/ CheckUsable(r) \/ TouchSession(r) \/ Answer(r) \/ Logout(r)
       \/ CleanupSessions(r) \/ DeleteExpiredSessions(r)

\* A process that failed is started again. Statements may fail and processes die
\* again and again, but not always: one that keeps coming to create the operator
\* is let to do it in the end.
Fairness == \A p \in Processes : WF_vars(FindOperator(p)) /\ SF_vars(CreateOperator(p))

Spec == Init /\ [][Next]_vars /\ Fairness

-----------------------------------------------------------------------------
(* Properties *)

\* Rows belong to users there are, and a request holds the role its session's
\* user has.
TypeOK ==
  /\ now \in Time
  /\ user \in [Emails -> Roles \cup {Nil}]
  /\ session \in [Sessions -> {Absent, Deleted} \cup Row]
  /\ \A s \in Sessions : Exists(s) => user[session[s].user] # Nil
  /\ request \in [Requests -> {Idle} \cup Authentication \cup Cleanup]
  /\ \A r \in Requests : request[r] \in Authentication =>
       LET s == request[r].session IN
         session[s] # Absent /\ (Exists(s) => request[r].role = user[session[s].user])
  /\ process \in [Processes -> {"down", "creating", "ready"}]
  /\ logouts \in [Sessions -> Nat]

\* A request is admitted while nobody has been told of a logout from its
\* session, and the session was there and had not expired when the request
\* read the clock: what counts is the UPDATE, not the row read before it.
AdmittedWhileAlive ==
  [][\A r \in Requests :
       request[r].state = "usable" /\ request'[r].state = "admitted" =>
         LET s == request[r].session IN
           /\ Exists(s)
           /\ logouts[s] = 0
           /\ request[r].at < session[s].expires]_vars

\* A session is logged out of once: of requests that race to do it one is told
\* so, and the time of the revocation never changes.
LoggedOutOnce ==
  [][\A s \in Sessions :
       /\ logouts'[s] <= 1
       /\ Exists(s) /\ Exists(s)' /\ session[s].revoked # Nil
            => session'[s].revoked = session[s].revoked]_vars

\* No use of a session makes it last longer, and no cleanup ends one early,
\* however late the cleanup runs after it read the clock.
LifetimeKept ==
  [][\A s \in Sessions : Exists(s) =>
       \/ Exists(s)' /\ session'[s].expires = session[s].expires
       \/ session'[s] = Deleted /\ ~Usable(s, now)]_vars

\* No process takes a partner for its operator: one that is ready, because it
\* created the operator or found it, has one for good, whoever registered between
\* its look and its INSERT.
ReadyHasOperator ==
  \A p \in Processes : process[p] = "ready" => user[Operator] = "operator"

\* A process gets ready, unless a partner has taken the address first, with a
\* configuration the code accepts; and one whose password it refuses gets ready
\* all the same when another process has created the operator. One that loses
\* the race to create it finds it at its next start.
BootstrapEnds ==
  \A p \in Processes \ Misnamed :
    /\ p \notin Overlong => <>(process[p] = "ready" \/ user[Operator] = "partner")
    /\ user[Operator] = "operator" ~> process[p] = "ready"
=============================================================================
