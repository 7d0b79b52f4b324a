----------------------------- MODULE Idempotency -----------------------------
(***************************************************************************)
(* Requests that carry one Idempotency-Key: same actor, method, path and   *)
(* key, so all of them meet in one row of idempotency_records.             *)
(*                                                                         *)
(* A request reads the clock, claims the row, runs its handler and then    *)
(* stores the response in the row or gives the claim up. Each is an SQL    *)
(* statement of its own, outside the handler's transaction, so requests    *)
(* interleave at every one of them. All use the context of the request: as *)
(* soon as its client is gone, whatever is left to do fails.               *)
(***************************************************************************)
EXTENDS Naturals

CONSTANTS
  Requests,      \* the requests with this key
  Body,          \* Body[q]: the body of request q, standing for its hash
  NoResponse,    \* response_status = 0
  Window,        \* how long a record lasts: 24 hours
  RequestLimit,  \* no request is under way longer than this
  MaxNow         \* the clock stops here

\* No handler runs for anything like a day.
ASSUME IdempotencyAssumption ==
  /\ NoResponse \notin Requests
  /\ Window \in Nat
  /\ RequestLimit \in Nat
  /\ RequestLimit < Window
  /\ MaxNow \in Nat

VARIABLES
  now,
  record,    \* the row of the key
  request,   \* request[q]: where request q is
  gone,      \* requests whose context is done (or whose database fails)
  effects    \* handler runs that committed: who, when started, when committed

vars == <<now, record, request, gone, effects>>

Absent == [hash |-> "absent"]

\* The response of a record stands for the request it was given to.
Record == [hash : {Body[q] : q \in Requests}, expires : Nat,
           response : Requests \cup {NoResponse}]

Init ==
  /\ now = 0
  /\ record = Absent
  /\ request = [q \in Requests |-> [at |-> "new"]]
  /\ gone = {}
  /\ effects = {}

At(q, step) == request[q].at = step /\ q \notin gone

Active(q) == request[q].at \notin {"new", "answered", "replayed", "dropped"}

Goto(q, at) == request' = [request EXCEPT ![q].at = at]

Answer(q, answer) ==
  request' = [request EXCEPT ![q] = [at |-> "answered", answer |-> answer]]

Replay(q, response) ==
  request' = [request EXCEPT ![q] = [at |-> "replayed", response |-> response]]

\* CreatedAt and ExpiresAt of the claim are computed before it is made.
Begin(q) ==
  /\ request[q].at = "new"
  /\ request' = [request EXCEPT ![q] = [at |-> "begun", start |-> now]]
  /\ UNCHANGED <<now, record, gone, effects>>

-----------------------------------------------------------------------------
(* ClaimIdempotency *)

\* INSERT ... ON CONFLICT DO NOTHING
Insert(q) ==
  /\ At(q, "begun")
  /\ IF record = Absent
     THEN /\ record' = [hash     |-> Body[q],
                        expires  |-> request[q].start + Window,
                        response |-> NoResponse]
          /\ Goto(q, "claimed")
     ELSE Goto(q, "blocked") /\ UNCHANGED record
  /\ UNCHANGED <<now, gone, effects>>

\* Mutants: the hash is not compared; the status is not looked at.
NotClaimedAnyBody(q, seen) ==
  IF seen.response = NoResponse THEN Answer(q, "conflict")
  ELSE Replay(q, seen.response)

NotClaimedUnfinished(q, seen) ==
  IF seen.hash # Body[q] THEN Answer(q, "conflict") ELSE Replay(q, seen.response)

\* The claim was not made: another body and an unfinished run are conflicts,
\* a finished one is replayed.
NotClaimed(q, seen) ==
  IF seen.hash # Body[q] \/ seen.response = NoResponse
  THEN Answer(q, "conflict")
  ELSE Replay(q, seen.response)

\* The row that blocked the INSERT is read back. It may be gone by now, and
\* it may have expired before this request started.
Select(q) ==
  /\ At(q, "blocked")
  /\ IF record = Absent THEN Answer(q, "not found")
     ELSE IF request[q].start >= record.expires
     THEN request' = [request EXCEPT
            ![q] = [at |-> "expired", start |-> request[q].start, seen |-> record]]
     ELSE NotClaimed(q, record)
  /\ UNCHANGED <<now, record, gone, effects>>

\* Mutant: the DELETE trusts the expiry that was read.
DeletableAnyway(q) == record # Absent

\* DELETE ... WHERE expires_at <= CreatedAt
Deletable(q) == record # Absent /\ record.expires <= request[q].start

\* An expired row is deleted and the claim tried again; if another request
\* was faster, the row read before still decides the answer.
DeleteExpired(q) ==
  /\ At(q, "expired")
  /\ IF Deletable(q)
     THEN /\ record' = Absent
          /\ request' = [request EXCEPT
               ![q] = [at |-> "begun", start |-> request[q].start]]
     ELSE NotClaimed(q, request[q].seen) /\ UNCHANGED record
  /\ UNCHANGED <<now, gone, effects>>

-----------------------------------------------------------------------------
(* The handler, and what follows it *)

Run(q) ==
  /\ At(q, "claimed")
  /\ \/ /\ Goto(q, "succeeded")
        /\ effects' = effects \cup
             {[by |-> q, start |-> request[q].start, time |-> now]}
     \/ Goto(q, "failed") /\ UNCHANGED effects
  /\ UNCHANGED <<now, record, gone>>

Unfinished == record # Absent /\ record.response = NoResponse

\* UPDATE ... WHERE response_status = 0
CompleteIdempotency(q) ==
  /\ At(q, "succeeded")
  /\ IF Unfinished
     THEN record' = [record EXCEPT !.response = q] /\ Answer(q, "done")
     ELSE Answer(q, "error") /\ UNCHANGED record
  /\ UNCHANGED <<now, gone, effects>>

\* DELETE ... WHERE response_status = 0
AbandonIdempotency(q) ==
  /\ At(q, "failed")
  /\ record' = IF Unfinished THEN Absent ELSE record
  /\ Answer(q, "failed")
  /\ UNCHANGED <<now, gone, effects>>

Disconnect(q) ==
  /\ Active(q)
  /\ q \notin gone
  /\ gone' = gone \cup {q}
  /\ UNCHANGED <<now, record, request, effects>>

\* What a request does when its context is done: a statement is an error, the
\* handler fails, and a failed request ignores that its claim is not deleted.
Fail(q) ==
  /\ q \in gone
  /\ \/ request[q].at \in {"begun", "blocked", "expired", "succeeded"} /\ Answer(q, "error")
     \/ request[q].at = "claimed" /\ Goto(q, "failed")
     \/ request[q].at = "failed" /\ Answer(q, "failed")
  /\ UNCHANGED <<now, record, gone, effects>>

\* The process dies, or the handler panics, wherever the request is.
Drop(q) ==
  /\ Active(q)
  /\ request' = [request EXCEPT ![q] = [at |-> "dropped"]]
  /\ UNCHANGED <<now, record, gone, effects>>

Tick ==
  /\ now < MaxNow
  /\ \A q \in Requests : Active(q) => now < request[q].start + RequestLimit
  /\ now' = now + 1
  /\ UNCHANGED <<record, request, gone, effects>>

Next ==
  \/ \E q \in Requests :
       \/ Begin(q) \/ Insert(q) \/ Select(q) \/ DeleteExpired(q)
       \/ Run(q) \/ CompleteIdempotency(q) \/ AbandonIdempotency(q)
       \/ Disconnect(q) \/ Fail(q) \/ Drop(q)
  \/ Tick

Spec == Init /\ [][Next]_vars

-----------------------------------------------------------------------------
(* Properties *)

\* Every request is at one of its steps with what it knows there, and every
\* replay has a response.
TypeOK ==
  /\ now \in 0 .. MaxNow
  /\ record \in {Absent} \cup Record
  /\ request \in [Requests ->
       [at : {"new", "dropped"}]
         \cup [at : {"begun", "blocked", "claimed", "succeeded", "failed"}, start : Nat]
         \cup [at : {"expired"}, start : Nat, seen : Record]
         \cup [at : {"answered"},
               answer : {"done", "failed", "error", "conflict", "not found"}]
         \cup [at : {"replayed"}, response : Requests]]
  /\ gone \subseteq Requests
  /\ effects \subseteq [by : Requests, start : Nat, time : Nat]

\* README.md:22, and what the key is for: the handler does its work once for
\* the key, and a second time only after the record of the first expired.
AtMostOncePerWindow ==
  \A e, f \in effects :
    e # f => e.start + Window <= f.time \/ f.start + Window <= e.time

\* A replayed response is the response to the same body by a handler run that
\* committed.
ReplayFaithful ==
  \A q \in Requests : request[q].at = "replayed" =>
    LET p == request[q].response IN
      Body[p] = Body[q] /\ \E e \in effects : e.by = p

\* While a request is between its claim and its outcome the row is its own:
\* no other request can complete it, replay it or run the handler.
ClaimIsExclusive ==
  \A q \in Requests : request[q].at \in {"claimed", "succeeded", "failed"} =>
    /\ record = [hash |-> Body[q], expires |-> request[q].start + Window,
                 response |-> NoResponse]
    /\ \A p \in Requests \ {q} :
         request[p].at \notin {"claimed", "succeeded", "failed"}

\* internal/httpapi/httpapi_test.go:305 TestIdempotencyFailureAbandonsClaim-
\* ForRetry: the claim of a request that failed is given up, so that a retry
\* with the same key runs the handler again.
AbandonedAfterFailure ==
  [][\A q \in Requests :
       request[q].at = "failed" /\ request'[q].at = "answered" => ~Unfinished']_vars
=============================================================================
