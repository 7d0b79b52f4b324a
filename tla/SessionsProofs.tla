--------------------------- MODULE SessionsProofs ---------------------------
(***************************************************************************)
(* Sessions, for any users, sessions, requests and times: who is admitted, *)
(* that a logout counts once, and how long a session lasts.                *)
(***************************************************************************)
EXTENDS Sessions, TLAPS

-----------------------------------------------------------------------------
(* The inductive invariant *)

\* A logout has been reported exactly if the row says that it is revoked; one
\* that has been deleted may have been logged out of.
LogoutInv ==
  \A s \in Sessions :
    /\ logouts[s] \in {0, 1}
    /\ session[s] = Absent => logouts[s] = 0
    /\ Exists(s) => (logouts[s] = 0 <=> session[s].revoked = Nil)

\* A time that has been read is over.
ClockInv == \A r \in Requests : request[r] # Idle => request[r].at <= now

IInv == TypeOK /\ LogoutInv /\ ClockInv
-----------------------------------------------------------------------------
(* Rows and what requests hold *)

\* A row that exists is one of the table's.
LEMMA RowOf ==
  ASSUME TypeOK, NEW s \in Sessions, Exists(s)
  PROVE  session[s] \in Row
BY DEF TypeOK, Exists

\* What a request holds is told apart by its state.
LEMMA HeldBy ==
  ASSUME TypeOK, NEW r \in Requests
  PROVE  /\ request[r] = Idle => request[r].state = "idle"
         /\ request[r].state = "idle" => request[r] = Idle
         /\ request[r].state \in {"found", "usable", "admitted"} => request[r] \in Authentication
         /\ request[r].state = "cleaning" => request[r] \in Cleanup
         /\ request[r] \in Authentication => request[r].state \in {"found", "usable", "admitted"}
BY DEF TypeOK, Authentication, Cleanup, Idle

\* What Absent, Deleted and the rows of the table are told apart by.
LEMMA RowsDiffer ==
  /\ Absent # Deleted
  /\ \A row \in Row : row # Absent /\ row # Deleted
<1>1. Absent # Deleted
  BY DEF Absent, Deleted
<1>2. ASSUME NEW row \in Row PROVE row # Absent /\ row # Deleted
  <2>1. DOMAIN row = {"user", "expires", "revoked", "seen"}
    BY DEF Row
  <2>2. DOMAIN Absent = {"user", "row"} /\ DOMAIN Deleted = {"user", "row"}
    BY DEF Absent, Deleted
  <2> QED
    BY <2>1, <2>2
<1> QED
  BY <1>1, <1>2

-----------------------------------------------------------------------------
(* The steps *)

\* Nobody's role changes: the steps of the clock, of registrations and of
\* BootstrapOperator.
LEMMA UserStep ==
  ASSUME IInv,
         \/ Tick
         \/ \E e \in Emails : RegisterPartner(e)
         \/ \E p \in Processes : FindOperator(p) \/ CreateOperator(p) \/ FailBootstrap(p)
  PROVE  IInv'
<1>1. UNCHANGED <<session, request, logouts>>
  BY DEF Tick, RegisterPartner, FindOperator, CreateOperator, FailBootstrap
<1>2. now' \in Time /\ now <= now'
  BY SessionsAssumption
     DEF IInv, TypeOK, Time, Tick, RegisterPartner, FindOperator, CreateOperator, FailBootstrap
<1>3. /\ user' \in [Emails -> Roles \cup {Nil}]
      /\ \A e \in Emails : user[e] # Nil => user'[e] = user[e]
  BY SessionsAssumption
     DEF IInv, TypeOK, Roles, Tick, RegisterPartner, FindOperator, CreateOperator, FailBootstrap, CreateUser
<1>4. process' \in [Processes -> {"down", "creating", "ready"}]
  BY DEF IInv, TypeOK, Tick, RegisterPartner, FindOperator, CreateOperator, FailBootstrap
<1>5. ASSUME NEW s \in Sessions, Exists(s)
      PROVE  session[s].user \in Emails /\ user'[session[s].user] = user[session[s].user]
  BY <1>3, <1>5, RowOf DEF IInv, TypeOK, Row
<1>6. TypeOK'
  <2>1. \A s \in Sessions : Exists(s)' => user'[session'[s].user] # Nil
    BY <1>1, <1>5 DEF IInv, TypeOK, Exists
  <2>2. ASSUME NEW r \in Requests, request[r] \in Authentication, Exists(request[r].session)
        PROVE  request[r].role = user'[session[request[r].session].user]
    <3> request[r].session \in Sessions
      BY <2>2 DEF Authentication
    <3> QED
      BY <1>5, <2>2 DEF IInv, TypeOK
  <2>3. \A r \in Requests : request'[r] \in Authentication =>
          LET s == request'[r].session IN
            /\ session'[s] # Absent
            /\ session'[s] # Deleted => request'[r].role = user'[session'[s].user]
    BY <1>1, <2>2 DEF IInv, TypeOK, Exists
  <2> QED
    BY <1>1, <1>2, <1>3, <1>4, <2>1, <2>3 DEF IInv, TypeOK, Exists
<1>7. LogoutInv'
  BY <1>1 DEF IInv, LogoutInv, Exists
<1>8. ClockInv'
  <2>1. \A r \in Requests : request[r] # Idle => request[r].at \in Time
    BY DEF IInv, TypeOK, Authentication, Cleanup
  <2> QED
    BY <1>1, <1>2, <2>1 DEF IInv, TypeOK, ClockInv, Time
<1> QED
  BY <1>6, <1>7, <1>8 DEF IInv

LEMMA LoginKeeps ==
  ASSUME IInv, NEW e \in Emails, NEW s \in Sessions, Login(e, s)
  PROVE  IInv'
<1> DEFINE row == [user |-> e, expires |-> now + TTL, revoked |-> Nil, seen |-> now]
<1>1. /\ UNCHANGED <<now, user, request, process, logouts>>
      /\ session' = [session EXCEPT ![s] = row]
      /\ session[s] = Absent /\ user[e] # Nil
  BY DEF Login
<1>2. row \in Row
  BY SessionsAssumption DEF IInv, TypeOK, Row, Time
<1>3. /\ session' \in [Sessions -> {Absent, Deleted} \cup Row]
      /\ session'[s] = row
      /\ \A t \in Sessions \ {s} : session'[t] = session[t]
  BY <1>1, <1>2 DEF IInv, TypeOK
<1>4. row # Absent /\ Exists(s)' /\ \A t \in Sessions \ {s} : Exists(t)' <=> Exists(t)
  BY <1>2, <1>3, RowsDiffer DEF Exists
<1>5. TypeOK'
  <2>1. \A t \in Sessions : Exists(t)' => user'[session'[t].user] # Nil
    BY <1>1, <1>3, <1>4 DEF IInv, TypeOK
  <2>2. ASSUME NEW r \in Requests, request[r] \in Authentication
        PROVE  request[r].session \in Sessions \ {s}
    BY <1>1, <2>2 DEF IInv, TypeOK, Authentication
  <2>3. \A r \in Requests : request'[r] \in Authentication =>
          LET t == request'[r].session IN
            /\ session'[t] # Absent
            /\ session'[t] # Deleted => request'[r].role = user'[session'[t].user]
    BY <1>1, <1>3, <2>2 DEF IInv, TypeOK, Exists
  <2> QED
    BY <1>1, <1>3, <2>1, <2>3 DEF IInv, TypeOK, Exists
<1>6. LogoutInv'
  <2>1. logouts[s] = 0 /\ session'[s].revoked = Nil
    BY <1>1, <1>3 DEF IInv, LogoutInv
  <2> QED
    BY <1>1, <1>3, <1>4, <2>1 DEF IInv, LogoutInv
<1> QED
  BY <1>1, <1>5, <1>6 DEF IInv, ClockInv

\* A request that goes on without writing: what it holds next is about the
\* session it has found.
LEMMA RequestKeeps ==
  ASSUME IInv, UNCHANGED <<now, user, session, process, logouts>>,
         NEW r \in Requests, NEW held \in {Idle} \cup Authentication \cup Cleanup,
         request' = [request EXCEPT ![r] = held],
         held # Idle => held.at <= now,
         held \in Authentication =>
           /\ session[held.session] # Absent
           /\ Exists(held.session) => held.role = user[session[held.session].user]
  PROVE  IInv'
<1>1. /\ request' \in [Requests -> {Idle} \cup Authentication \cup Cleanup]
      /\ request'[r] = held
      /\ \A q \in Requests \ {r} : request'[q] = request[q]
  BY DEF IInv, TypeOK
<1>2. TypeOK'
  BY <1>1 DEF IInv, TypeOK, Exists
<1>3. ClockInv'
  BY <1>1 DEF IInv, ClockInv
<1> QED
  BY <1>2, <1>3 DEF IInv, LogoutInv, Exists

LEMMA FindKeeps ==
  ASSUME IInv, NEW r \in Requests, NEW s \in Sessions, FindSession(r, s)
  PROVE  IInv'
<1> DEFINE held == [state |-> "found", session |-> s, role |-> user[session[s].user],
                    expires |-> session[s].expires, revoked |-> session[s].revoked, at |-> now]
<1>1. session[s] \in Row /\ session[s] # Absent /\ user[session[s].user] \in Roles
  BY RowOf DEF FindSession, IInv, TypeOK, Exists, Row
<1>2. held \in Authentication /\ held.at <= now
  BY <1>1, SessionsAssumption DEF IInv, TypeOK, Authentication, Row, Time
<1>3. /\ request' = [request EXCEPT ![r] = held]
      /\ UNCHANGED <<now, user, session, process, logouts>>
  BY DEF FindSession
<1>4. held.session = s /\ held.role = user[session[s].user]
  OBVIOUS
<1> HIDE DEF held
<1> QED
  BY <1>1, <1>2, <1>3, <1>4, RequestKeeps

LEMMA CheckKeeps ==
  ASSUME IInv, NEW r \in Requests, CheckUsable(r)
  PROVE  IInv'
<1> DEFINE held == [request[r] EXCEPT !.state = "usable", !.at = now]
<1>1. request[r] \in Authentication
  BY HeldBy DEF CheckUsable, IInv
<1>2. /\ held \in Authentication
      /\ held.at = now /\ held.session = request[r].session /\ held.role = request[r].role
  BY <1>1 DEF IInv, TypeOK, Authentication
<1>3. /\ request' = [request EXCEPT ![r] = held] \/ request' = [request EXCEPT ![r] = Idle]
      /\ UNCHANGED <<now, user, session, process, logouts>>
  BY DEF CheckUsable, IInv, TypeOK
<1>4. now <= now
  BY SessionsAssumption DEF IInv, TypeOK, Time
<1>5. Idle \notin Authentication
  BY DEF Idle, Authentication
<1> HIDE DEF held
<1>6. CASE request' = [request EXCEPT ![r] = Idle]
  BY <1>3, <1>5, <1>6, RequestKeeps
<1>7. CASE request' = [request EXCEPT ![r] = held]
  BY <1>1, <1>2, <1>3, <1>4, <1>7, RequestKeeps DEF IInv, TypeOK
<1> QED
  BY <1>3, <1>6, <1>7

LEMMA ReleaseKeeps ==
  ASSUME IInv, NEW r \in Requests, Answer(r) \/ CleanupSessions(r)
  PROVE  IInv'
<1> DEFINE held == IF Answer(r) THEN Idle ELSE [state |-> "cleaning", at |-> now]
<1>1. held \in {Idle} \cup Cleanup /\ (held # Idle => held.at <= now)
  BY SessionsAssumption DEF IInv, TypeOK, Cleanup, Time
<1>2. held \notin Authentication
  BY <1>1 DEF Idle, Authentication, Cleanup
<1>3. /\ request' = [request EXCEPT ![r] = held]
      /\ UNCHANGED <<now, user, session, process, logouts>>
  BY DEF Answer, CleanupSessions
<1> HIDE DEF held
<1> QED
  BY <1>1, <1>2, <1>3, RequestKeeps
\* A request that writes sessions, none of which gets another user, and goes on
\* with what it holds or is at its end.
LEMMA WriteKeeps ==
  ASSUME IInv, UNCHANGED <<now, user, process>>,
         NEW r \in Requests, NEW held, held = Idle \/
           (/\ request[r] \in Authentication /\ held \in Authentication
            /\ held.session = request[r].session /\ held.role = request[r].role
            /\ held.at = request[r].at),
         request' = [request EXCEPT ![r] = held],
         session' \in [Sessions -> {Absent, Deleted} \cup Row],
         \A s \in Sessions :
           /\ session'[s] = Absent <=> session[s] = Absent
           /\ Exists(s)' => Exists(s) /\ session'[s].user = session[s].user,
         logouts' \in [Sessions -> Nat], LogoutInv'
  PROVE  IInv'
<1>1. /\ request'[r] = held
      /\ \A q \in Requests \ {r} : request'[q] = request[q]
      /\ Idle \notin Authentication
  BY DEF IInv, TypeOK, Idle, Authentication
<1>2. ASSUME NEW q \in Requests, request'[q] \in Authentication
      PROVE  /\ request[q] \in Authentication
             /\ request'[q].session = request[q].session /\ request'[q].role = request[q].role
             /\ request[q].session \in Sessions
  BY <1>1, <1>2 DEF Authentication
<1>3. ASSUME NEW q \in Requests, request'[q] \in Authentication
      PROVE  LET s == request'[q].session IN
               /\ session'[s] # Absent
               /\ session'[s] # Deleted => request'[q].role = user'[session'[s].user]
  BY <1>2, <1>3 DEF IInv, TypeOK, Exists
<1>4. \A s \in Sessions : Exists(s)' => user'[session'[s].user] # Nil
  BY DEF IInv, TypeOK
<1>5. TypeOK'
  BY <1>1, <1>3, <1>4 DEF IInv, TypeOK, Exists
<1>6. ClockInv'
  BY <1>1 DEF IInv, ClockInv, Idle, Authentication
<1> QED
  BY <1>5, <1>6 DEF IInv

\* What TouchSession does to the row and to the request.
LEMMA TouchEffect ==
  ASSUME TypeOK, NEW r \in Requests, TouchSession(r)
  PROVE  /\ request[r] \in Authentication /\ request[r].session \in Sessions
         /\ UNCHANGED <<now, user, process, logouts>>
         /\ \/ /\ request' = [request EXCEPT ![r] = Idle]
               /\ UNCHANGED session
            \/ /\ Touchable(request[r].session, request[r].at)
               /\ request' = [request EXCEPT ![r] = [request[r] EXCEPT !.state = "admitted"]]
               /\ session' = [session EXCEPT ![request[r].session] =
                                [session[request[r].session] EXCEPT !.seen = request[r].at]]
<1>1. request[r] \in Authentication
  BY HeldBy DEF TouchSession
<1> QED
  BY <1>1 DEF TouchSession, Authentication

LEMMA TouchKeeps ==
  ASSUME IInv, NEW r \in Requests, TouchSession(r)
  PROVE  IInv'
<1> DEFINE s == request[r].session
           held == [request[r] EXCEPT !.state = "admitted"]
           row == [session[s] EXCEPT !.seen = request[r].at]
<1>1. s \in Sessions /\ request[r] \in Authentication /\ UNCHANGED <<now, user, process, logouts>>
  BY TouchEffect DEF IInv
<1>2. CASE request' = [request EXCEPT ![r] = Idle] /\ UNCHANGED session
  <2>1. \A t \in Sessions :
          /\ session'[t] = Absent <=> session[t] = Absent
          /\ Exists(t)' => Exists(t) /\ session'[t].user = session[t].user
    BY <1>2 DEF Exists
  <2>2. LogoutInv' /\ session' \in [Sessions -> {Absent, Deleted} \cup Row]
        /\ logouts' \in [Sessions -> Nat]
    BY <1>1, <1>2 DEF IInv, TypeOK, LogoutInv, Exists
  <2> QED
    BY <1>1, <1>2, <2>1, <2>2, WriteKeeps
<1>3. CASE /\ Touchable(s, request[r].at) /\ request' = [request EXCEPT ![r] = held]
           /\ session' = [session EXCEPT ![s] = row]
  <2>1. session[s] \in Row /\ Exists(s)
    BY <1>1, <1>3, RowOf DEF IInv, Touchable
  <2>2. request[r].at \in Time
    BY <1>1 DEF Authentication
  <2>3. /\ row \in Row
        /\ row.user = session[s].user /\ row.revoked = session[s].revoked
    BY <2>1, <2>2 DEF Row
  <2>4. /\ held \in Authentication /\ held.session = s /\ held.role = request[r].role
        /\ held.at = request[r].at
    BY <1>1 DEF Authentication
  <2>5. /\ session' \in [Sessions -> {Absent, Deleted} \cup Row]
        /\ session'[s] = row /\ \A t \in Sessions \ {s} : session'[t] = session[t]
    BY <1>1, <1>3, <2>3 DEF IInv, TypeOK
  <2>6. \A t \in Sessions :
          /\ session'[t] = Absent <=> session[t] = Absent
          /\ Exists(t)' <=> Exists(t)
          /\ Exists(t)' => /\ session'[t].user = session[t].user
                           /\ session'[t].revoked = session[t].revoked
    BY <2>1, <2>3, <2>5, RowsDiffer DEF Exists
  <2>7. LogoutInv'
    BY <1>1, <2>6 DEF IInv, LogoutInv
  <2>8. logouts' \in [Sessions -> Nat]
    BY <1>1 DEF IInv, TypeOK
  <2> QED
    BY <1>1, <1>3, <2>4, <2>5, <2>6, <2>7, <2>8, WriteKeeps
<1> QED
  BY <1>2, <1>3, TouchEffect DEF IInv

\* What a logout does: it revokes the session once.
LEMMA LogoutEffect ==
  ASSUME TypeOK, NEW r \in Requests, Logout(r)
  PROVE  /\ request[r] \in Authentication /\ request[r].session \in Sessions
         /\ UNCHANGED <<now, user, process>>
         /\ request' = [request EXCEPT ![r] = Idle]
         /\ \/ UNCHANGED <<session, logouts>>
            \/ /\ Revocable(request[r].session)
               /\ session' = [session EXCEPT ![request[r].session] =
                                [session[request[r].session] EXCEPT !.revoked = now]]
               /\ logouts' = [logouts EXCEPT ![request[r].session] =
                                logouts[request[r].session] + 1]
<1>1. request[r] \in Authentication
  BY HeldBy DEF Logout
<1> QED
  BY <1>1 DEF Logout, Authentication

LEMMA LogoutKeeps ==
  ASSUME IInv, NEW r \in Requests, Logout(r)
  PROVE  IInv'
<1> DEFINE s == request[r].session
           row == [session[s] EXCEPT !.revoked = now]
<1>1. /\ s \in Sessions /\ UNCHANGED <<now, user, process>>
      /\ request' = [request EXCEPT ![r] = Idle]
  BY LogoutEffect DEF IInv
<1>2. CASE UNCHANGED <<session, logouts>>
  <2>1. \A t \in Sessions :
          /\ session'[t] = Absent <=> session[t] = Absent
          /\ Exists(t)' => Exists(t) /\ session'[t].user = session[t].user
    BY <1>2 DEF Exists
  <2>2. LogoutInv' /\ session' \in [Sessions -> {Absent, Deleted} \cup Row]
        /\ logouts' \in [Sessions -> Nat]
    BY <1>2 DEF IInv, TypeOK, LogoutInv, Exists
  <2> QED
    BY <1>1, <2>1, <2>2, WriteKeeps
<1>3. CASE /\ Revocable(s) /\ session' = [session EXCEPT ![s] = row]
           /\ logouts' = [logouts EXCEPT ![s] = logouts[s] + 1]
  <2>1. session[s] \in Row /\ Exists(s) /\ session[s].revoked = Nil
    BY <1>1, <1>3, RowOf DEF IInv, Revocable
  <2>2. /\ row \in Row
        /\ row.user = session[s].user /\ row.revoked = now
    BY <2>1 DEF IInv, TypeOK, Row
  <2>3. now # Nil
    BY SessionsAssumption DEF IInv, TypeOK, Time
  <2>4. /\ session' \in [Sessions -> {Absent, Deleted} \cup Row]
        /\ session'[s] = row /\ \A t \in Sessions \ {s} : session'[t] = session[t]
    BY <1>1, <1>3, <2>2 DEF IInv, TypeOK
  <2>5. \A t \in Sessions :
          /\ session'[t] = Absent <=> session[t] = Absent
          /\ Exists(t)' <=> Exists(t)
          /\ Exists(t)' => session'[t].user = session[t].user
    BY <2>1, <2>2, <2>4, RowsDiffer DEF Exists
  <2>6. logouts[s] = 0
    BY <1>1, <2>1 DEF IInv, LogoutInv
  <2>7. /\ logouts' \in [Sessions -> Nat] /\ logouts'[s] = 1
        /\ \A t \in Sessions \ {s} : logouts'[t] = logouts[t]
    BY <1>1, <1>3, <2>6 DEF IInv, TypeOK
  <2>8. LogoutInv'
    <3> SUFFICES ASSUME NEW t \in Sessions
                 PROVE  /\ logouts'[t] \in {0, 1}
                        /\ session'[t] = Absent => logouts'[t] = 0
                        /\ Exists(t)' => (logouts'[t] = 0 <=> session'[t].revoked = Nil)
      BY DEF LogoutInv
    <3>1. CASE t = s
      <4>1. session'[s] # Absent
        BY <1>1, <2>1, <2>5 DEF Exists
      <4>2. session'[s].revoked = now
        BY <2>2, <2>4
      <4> HIDE DEF s, row
      <4> QED
        BY <2>3, <2>7, <3>1, <4>1, <4>2
    <3>2. CASE t # s
      BY <2>4, <2>5, <2>7, <3>2 DEF IInv, LogoutInv
    <3> QED
      BY <3>1, <3>2
  <2> QED
    BY <1>1, <2>4, <2>5, <2>7, <2>8, WriteKeeps
<1> QED
  BY <1>2, <1>3, LogoutEffect DEF IInv

\* A cleanup deletes only what could not be used any more at the time it read.
LEMMA DeleteEffect ==
  ASSUME IInv, NEW r \in Requests, DeleteExpiredSessions(r), NEW s \in Sessions, Exists(s)
  PROVE  session'[s] = session[s] \/ (session'[s] = Deleted /\ ~Usable(s, now))
<1>1. request[r] \in Cleanup /\ request[r] # Idle
  BY HeldBy DEF DeleteExpiredSessions, IInv, Idle
<1>2. request[r].at \in Nat /\ now \in Nat /\ request[r].at <= now
  BY <1>1, SessionsAssumption DEF Cleanup, IInv, TypeOK, ClockInv, Time
<1>3. session[s].expires \in Int
  BY RowOf, SessionsAssumption DEF IInv, Row
<1>4. session'[s] = IF Deletable(s, request[r].at) THEN Deleted ELSE session[s]
  BY DEF DeleteExpiredSessions
<1>5. CASE Deletable(s, request[r].at)
  <2>1. session[s].expires <= request[r].at \/ session[s].revoked # Nil
    BY <1>5 DEF Deletable
  <2>2. ~Usable(s, now)
    BY <1>2, <1>3, <2>1 DEF Usable
  <2> QED
    BY <1>4, <1>5, <2>2
<1> QED
  BY <1>4, <1>5

LEMMA DeleteKeeps ==
  ASSUME IInv, NEW r \in Requests, DeleteExpiredSessions(r)
  PROVE  IInv'
<1>1. /\ UNCHANGED <<now, user, process, logouts>> /\ request' = [request EXCEPT ![r] = Idle]
      /\ session' = [s \in Sessions |-> IF Deletable(s, request[r].at) THEN Deleted ELSE session[s]]
  BY DEF DeleteExpiredSessions
<1>2. session' \in [Sessions -> {Absent, Deleted} \cup Row]
  BY <1>1 DEF IInv, TypeOK
<1>3. ASSUME NEW s \in Sessions
      PROVE  /\ session'[s] = Absent <=> session[s] = Absent
             /\ Exists(s)' => Exists(s) /\ session'[s] = session[s]
  <2>1. CASE Deletable(s, request[r].at)
    <3>1. session'[s] = Deleted /\ Exists(s)
      BY <1>1, <2>1 DEF Deletable
    <3> QED
      BY <3>1, RowsDiffer DEF Exists
  <2>2. CASE ~Deletable(s, request[r].at)
    <3>1. session'[s] = session[s]
      BY <1>1, <2>2
    <3> QED
      BY <3>1 DEF Exists
  <2> QED
    BY <2>1, <2>2
<1>4. LogoutInv'
  BY <1>1, <1>3 DEF IInv, LogoutInv
<1>5. logouts' \in [Sessions -> Nat]
  BY <1>1 DEF IInv, TypeOK
<1> QED
  BY <1>1, <1>2, <1>3, <1>4, <1>5, WriteKeeps

-----------------------------------------------------------------------------
(* The theorems *)

LEMMA InitIInv == Init => IInv
<1> SUFFICES ASSUME Init PROVE IInv
  OBVIOUS
<1>1. TypeOK
  BY SessionsAssumption DEF Init, TypeOK, Time, Exists, Authentication, Idle
<1> QED
  BY <1>1 DEF Init, IInv, LogoutInv, ClockInv, Exists

LEMMA NextIInv == IInv /\ [Next]_vars => IInv'
<1> SUFFICES ASSUME IInv, [Next]_vars PROVE IInv'
  OBVIOUS
<1>1. CASE UNCHANGED vars
  BY <1>1 DEF vars, IInv, TypeOK, LogoutInv, ClockInv, Exists
<1>2. CASE Tick \/ \E e \in Emails : RegisterPartner(e)
  BY <1>2, UserStep
<1>3. CASE \E p \in Processes : FindOperator(p) \/ CreateOperator(p) \/ FailBootstrap(p)
  BY <1>3, UserStep
<1>4. CASE \E e \in Emails : \E s \in Sessions : Login(e, s)
  BY <1>4, LoginKeeps
<1>5. ASSUME NEW r \in Requests,
             \/ \E s \in Sessions : FindSession(r, s)
             \/ CheckUsable(r) \/ TouchSession(r) \/ Answer(r) \/ Logout(r)
             \/ CleanupSessions(r) \/ DeleteExpiredSessions(r)
      PROVE  IInv'
  BY <1>5, FindKeeps, CheckKeeps, TouchKeeps, ReleaseKeeps, LogoutKeeps, DeleteKeeps
<1> QED
  BY <1>1, <1>2, <1>3, <1>4, <1>5 DEF Next

LEMMA Inductive == Spec => []IInv
BY InitIInv, NextIInv, PTL DEF Spec

\* Rows belong to users there are, and a request holds the role its session's
\* user has, as long as the session is there.
THEOREM TypeCorrect == Spec => []TypeOK
<1>1. IInv => TypeOK
  BY DEF IInv
<1> QED
  BY Inductive, <1>1, PTL
\* Only the guarded UPDATE admits a request.
LEMMA TouchAdmits ==
  ASSUME TypeOK, [Next]_vars, NEW r \in Requests,
         request[r].state = "usable", request'[r].state = "admitted"
  PROVE  TouchSession(r)
<1>1. request'[r] # request[r] /\ request[r] # Idle
  BY DEF Idle
<1>2. ~UNCHANGED request
  BY <1>1
<1>3. PICK q \in Requests :
        \/ \E s \in Sessions : FindSession(q, s)
        \/ CheckUsable(q) \/ TouchSession(q) \/ Answer(q) \/ Logout(q)
        \/ CleanupSessions(q) \/ DeleteExpiredSessions(q)
  BY <1>2 DEF Next, vars, Tick, RegisterPartner, Login, FindOperator, CreateOperator, FailBootstrap
<1>4. \A t \in Requests \ {q} : request'[t] = request[t]
  BY <1>3 DEF TypeOK, FindSession, CheckUsable, TouchSession, Answer, Logout, CleanupSessions,
              DeleteExpiredSessions
<1>5. q = r
  BY <1>1, <1>4
<1> QED
  BY <1>1, <1>3, <1>5 DEF FindSession, CheckUsable, Answer, Logout, CleanupSessions,
                          DeleteExpiredSessions

\* What a step does to a session that is there: it stays, with the end and the
\* revocation it has, or it goes because nobody can use it any more.
LEMMA SessionStep ==
  ASSUME IInv, [Next]_vars, NEW s \in Sessions, Exists(s)
  PROVE  \/ /\ session'[s] \in Row
            /\ session'[s].expires = session[s].expires
            /\ session[s].revoked # Nil => session'[s].revoked = session[s].revoked
         \/ session'[s] = Deleted /\ ~Usable(s, now)
<1>0. session[s] \in Row
  BY RowOf DEF IInv
<1>1. CASE UNCHANGED session
  BY <1>0, <1>1
<1>2. ASSUME NEW e \in Emails, NEW t \in Sessions, Login(e, t) PROVE session'[s] = session[s]
  BY <1>2 DEF Login, Exists, IInv, TypeOK
<1>3. ASSUME NEW r \in Requests, TouchSession(r)
      PROVE  /\ session'[s] \in Row /\ session'[s].expires = session[s].expires
             /\ session'[s].revoked = session[s].revoked
  <2> DEFINE row == [session[s] EXCEPT !.seen = request[r].at]
  <2>1. request[r].at \in Time
    BY <1>3, TouchEffect DEF IInv, Authentication
  <2>2. row \in Row /\ row.expires = session[s].expires /\ row.revoked = session[s].revoked
    BY <1>0, <2>1 DEF Row
  <2>3. session'[s] = session[s] \/ session'[s] = row
    <3>1. \/ UNCHANGED session
          \/ session' = [session EXCEPT ![request[r].session] =
                           [session[request[r].session] EXCEPT !.seen = request[r].at]]
      BY <1>3, TouchEffect DEF IInv
    <3>2. CASE s = request[r].session
      BY <3>1, <3>2 DEF IInv, TypeOK
    <3>3. CASE s # request[r].session
      BY <3>1, <3>3 DEF IInv, TypeOK
    <3> QED
      BY <3>2, <3>3
  <2> HIDE DEF row
  <2> QED
    BY <1>0, <2>2, <2>3
<1>4. ASSUME NEW r \in Requests, Logout(r)
      PROVE  /\ session'[s] \in Row /\ session'[s].expires = session[s].expires
             /\ session[s].revoked # Nil => session'[s].revoked = session[s].revoked
  <2> DEFINE row == [session[s] EXCEPT !.revoked = now]
  <2>1. row \in Row /\ row.expires = session[s].expires
    BY <1>0 DEF Row, IInv, TypeOK
  <2>2. session'[s] = session[s] \/ (session'[s] = row /\ session[s].revoked = Nil)
    <3>1. \/ UNCHANGED session
          \/ /\ Revocable(request[r].session)
             /\ session' = [session EXCEPT ![request[r].session] =
                              [session[request[r].session] EXCEPT !.revoked = now]]
      BY <1>4, LogoutEffect DEF IInv
    <3>2. CASE s = request[r].session
      BY <3>1, <3>2 DEF IInv, TypeOK, Revocable
    <3>3. CASE s # request[r].session
      BY <3>1, <3>3 DEF IInv, TypeOK
    <3> QED
      BY <3>2, <3>3
  <2> HIDE DEF row
  <2> QED
    BY <1>0, <2>1, <2>2
<1>5. ASSUME NEW r \in Requests, DeleteExpiredSessions(r)
      PROVE  session'[s] = session[s] \/ (session'[s] = Deleted /\ ~Usable(s, now))
  BY <1>5, DeleteEffect
<1>6. CASE \E r \in Requests : TouchSession(r) \/ Logout(r) \/ DeleteExpiredSessions(r)
  BY <1>0, <1>3, <1>4, <1>5, <1>6
<1>7. CASE \E e \in Emails : \E t \in Sessions : Login(e, t)
  BY <1>0, <1>2, <1>7
<1>8. UNCHANGED session \/ (\E e \in Emails : \E t \in Sessions : Login(e, t))
      \/ (\E r \in Requests : TouchSession(r) \/ Logout(r) \/ DeleteExpiredSessions(r))
  BY DEF Next, vars, Tick, RegisterPartner, FindOperator, CreateOperator, FailBootstrap,
         FindSession, CheckUsable, Answer, CleanupSessions
<1> QED
  BY <1>1, <1>6, <1>7, <1>8

\* A request is admitted only while nobody has been told of a logout from its
\* session, and while the session, at the time the request read, had not
\* expired.
THEOREM AdmittedAlive == Spec => AdmittedWhileAlive
<1> DEFINE Admitted ==
      \A r \in Requests :
        request[r].state = "usable" /\ request'[r].state = "admitted" =>
          LET s == request[r].session IN
            /\ Exists(s)
            /\ logouts[s] = 0
            /\ request[r].at < session[s].expires
<1>1. ASSUME IInv, [Next]_vars PROVE Admitted
  <2> SUFFICES ASSUME NEW r \in Requests,
                      request[r].state = "usable", request'[r].state = "admitted"
               PROVE  /\ Exists(request[r].session)
                      /\ logouts[request[r].session] = 0
                      /\ request[r].at < session[request[r].session].expires
    OBVIOUS
  <2>1. TouchSession(r)
    BY <1>1, TouchAdmits DEF IInv
  <2>2. request' # [request EXCEPT ![r] = Idle]
    BY <1>1 DEF IInv, TypeOK, Idle
  <2>3. Touchable(request[r].session, request[r].at) /\ request[r].session \in Sessions
    BY <1>1, <2>1, <2>2, TouchEffect DEF IInv
  <2> QED
    BY <1>1, <2>3 DEF IInv, LogoutInv, Touchable, Usable
<1>2. IInv /\ [Next]_vars => [Admitted]_vars
  BY <1>1
<1> QED
  BY Inductive, <1>2, PTL DEF Spec, AdmittedWhileAlive

\* Of the requests that race to log out of a session one is told that it did,
\* and the time of the revocation stays.
THEOREM LogoutsCountOnce == Spec => LoggedOutOnce
<1> DEFINE Once ==
      \A s \in Sessions :
        /\ logouts'[s] <= 1
        /\ Exists(s) /\ Exists(s)' /\ session[s].revoked # Nil
             => session'[s].revoked = session[s].revoked
<1>1. ASSUME IInv, IInv', [Next]_vars PROVE Once
  BY <1>1, SessionStep DEF IInv, LogoutInv, Exists
<1>2. IInv /\ IInv' /\ [Next]_vars => [Once]_vars
  BY <1>1
<1> QED
  BY Inductive, <1>2, PTL DEF Spec, LoggedOutOnce

\* A session keeps its end for as long as it is there, and is deleted only when
\* nobody can use it any more.
THEOREM LifetimesStay == Spec => LifetimeKept
<1> DEFINE Kept ==
      \A s \in Sessions : Exists(s) =>
        \/ Exists(s)' /\ session'[s].expires = session[s].expires
        \/ session'[s] = Deleted /\ ~Usable(s, now)
<1>1. ASSUME IInv, [Next]_vars PROVE Kept
  BY <1>1, SessionStep, RowsDiffer DEF Exists
<1>2. IInv /\ [Next]_vars => [Kept]_vars
  BY <1>1
<1> QED
  BY Inductive, <1>2, PTL DEF Spec, LifetimeKept

\* The steps that change a user or what a process has come to.
LEMMA UserOrProcess ==
  ASSUME [Next]_vars
  PROVE  \/ UNCHANGED <<user, process>>
         \/ \E e \in Emails : RegisterPartner(e)
         \/ \E p \in Processes : FindOperator(p) \/ CreateOperator(p) \/ FailBootstrap(p)
BY DEF Next, vars, Tick, Login, FindSession, CheckUsable, TouchSession, Answer, Logout,
       CleanupSessions, DeleteExpiredSessions

\* A process that is ready has an operator for good: it found the operator or
\* created it, the address is unique, and no code changes a user's role.
THEOREM ReadyStays == Spec => []ReadyHasOperator
<1>1. Init => ReadyHasOperator
  BY DEF Init, ReadyHasOperator
<1>2. TypeOK /\ ReadyHasOperator /\ [Next]_vars => ReadyHasOperator'
  <2> SUFFICES ASSUME TypeOK, ReadyHasOperator, [Next]_vars,
                      NEW p \in Processes, process'[p] = "ready"
               PROVE  user'[Operator] = "operator"
    BY DEF ReadyHasOperator
  <2>1. process[p] = "ready" => user[Operator] = "operator"
    BY DEF ReadyHasOperator
  <2>2. CASE UNCHANGED <<user, process>>
    BY <2>1, <2>2
  <2>3. ASSUME NEW e \in Emails, RegisterPartner(e) PROVE user'[Operator] = "operator"
    <3>1. process' = process /\ user[e] = Nil /\ user' = [user EXCEPT ![e] = "partner"]
      BY <2>3 DEF RegisterPartner, CreateUser
    <3>2. user[Operator] = "operator" /\ Operator # e
      BY <2>1, <3>1, SessionsAssumption
    <3> QED
      BY <3>1, <3>2, SessionsAssumption DEF TypeOK
  <2>4. ASSUME NEW q \in Processes, CreateOperator(q) PROVE user'[Operator] = "operator"
    <3>1. CASE user' = user /\ process' = [process EXCEPT ![q] = "down"]
      BY <2>1, <3>1 DEF TypeOK
    <3>2. CASE CreateUser(Operator, "operator")
      BY <3>2, SessionsAssumption DEF CreateUser, TypeOK
    <3> QED
      BY <2>4, <3>1, <3>2 DEF CreateOperator
  <2>5. ASSUME NEW q \in Processes, FindOperator(q) \/ FailBootstrap(q)
        PROVE  user'[Operator] = "operator"
    <3>1. user' = user /\ (process'[p] = process[p] \/ user[Operator] = "operator")
      BY <2>5 DEF FindOperator, FailBootstrap, TypeOK
    <3> QED
      BY <2>1, <3>1
  <2> QED
    BY <2>2, <2>3, <2>4, <2>5, UserOrProcess
<1>3. IInv => TypeOK
  BY DEF IInv
<1> QED
  BY Inductive, <1>1, <1>2, <1>3, PTL DEF Spec
=============================================================================
