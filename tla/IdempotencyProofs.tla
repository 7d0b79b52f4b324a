-------------------------- MODULE IdempotencyProofs --------------------------
(***************************************************************************)
(* What an Idempotency-Key guarantees for any number of requests that      *)
(* carry it, with any bodies, for every window longer than a request.      *)
(*                                                                         *)
(* The one thing that keeps a claim from being taken away is time: its row *)
(* expires a window after the start of the request that holds it, and all  *)
(* requests under way have begun within the limit of a request.            *)
(***************************************************************************)
EXTENDS Idempotency, TLAPS

Holding == {"claimed", "succeeded", "failed"}

Started == {"begun", "blocked", "expired"} \cup Holding

\* Requests under way have begun, and not long ago.
StartInv ==
  \A q \in Requests : request[q].at \in Started =>
    request[q].start <= now /\ now <= request[q].start + RequestLimit

\* A response, in the row or in what was read of it, is by a request with the
\* body of the row whose handler committed.
Given(row) ==
  row.response # NoResponse =>
    Body[row.response] = row.hash /\ \E e \in effects : e.by = row.response

ResponseInv ==
  /\ record # Absent => Given(record)
  /\ \A q \in Requests :
       /\ request[q].at = "expired" => Given(request[q].seen)
       /\ request[q].at = "succeeded" => \E e \in effects : e.by = q

\* Until the window of a handler run is over the row is the one it was done
\* under, and no request can run the handler or give the row up.
Covered(e) ==
  /\ record # Absent
  /\ record.expires = e.start + Window
  /\ \A q \in Requests : request[q].at \notin {"claimed", "failed"}

WindowInv == \A e \in effects : e.start + Window <= now \/ Covered(e)

IInv ==
  /\ TypeOK
  /\ StartInv
  /\ ClaimIsExclusive
  /\ ResponseInv
  /\ ReplayFaithful
  /\ WindowInv
  /\ AtMostOncePerWindow

-----------------------------------------------------------------------------
(* Steps of one request *)

Steps == {"begun", "blocked", "claimed", "succeeded", "failed"}

Ends == {"done", "failed", "error", "conflict", "not found"}

\* What a request knows at each of its steps.
RequestState ==
  [at : {"new", "dropped"}] \cup [at : Steps, start : Nat]
    \cup [at : {"expired"}, start : Nat, seen : Record]
    \cup [at : {"answered"}, answer : Ends]
    \cup [at : {"replayed"}, response : Requests]

\* A step of q leaves the other requests where they are.
OthersStay(q) == \A p \in Requests \ {q} : request'[p] = request[p]

\* A request is at one step, and what it knows follows from the step.
LEMMA RequestShapes ==
  ASSUME TypeOK, NEW q \in Requests
  PROVE  /\ request \in [Requests -> RequestState]
         /\ request[q].at \in Steps => request[q] \in [at : Steps, start : Nat]
         /\ request[q].at = "expired" =>
              request[q] \in [at : {"expired"}, start : Nat, seen : Record]
         /\ request[q].at \in Started => request[q].start \in Nat
         /\ Active(q) <=> request[q].at \in Started
<1>1. request \in [Requests -> RequestState]
  BY DEF TypeOK, RequestState, Steps, Ends
<1>2. request[q] \in RequestState
  BY <1>1
<1> QED
  BY <1>1, <1>2 DEF RequestState, Steps, Ends, Started, Holding, Active

\* A request that is put into a proper state leaves the others alone.
LEMMA PutEffect ==
  ASSUME TypeOK, NEW q \in Requests, NEW state \in RequestState,
         request' = [request EXCEPT ![q] = state]
  PROVE  /\ request' \in [Requests -> RequestState]
         /\ request'[q] = state
         /\ OthersStay(q)
BY RequestShapes DEF OthersStay

\* Goto keeps when a request was started.
LEMMA GotoEffect ==
  ASSUME TypeOK, NEW q \in Requests, NEW at \in Steps,
         request[q].at \in Steps, Goto(q, at)
  PROVE  /\ request' \in [Requests -> RequestState]
         /\ request'[q].at = at
         /\ request'[q].start = request[q].start
         /\ OthersStay(q)
<1>1. request[q] \in [at : Steps, start : Nat]
  BY RequestShapes
<1> DEFINE state == [request[q] EXCEPT !.at = at]
<1>2. /\ state \in [at : Steps, start : Nat]
      /\ state.at = at
      /\ state.start = request[q].start
  BY <1>1
<1>3. state \in RequestState
  BY <1>2 DEF RequestState
<1>4. request' = [request EXCEPT ![q] = state]
  BY DEF Goto
<1> HIDE DEF state
<1> QED
  BY <1>2, <1>3, <1>4, PutEffect

\* An answer ends a request.
LEMMA AnswerEffect ==
  ASSUME TypeOK, NEW q \in Requests, NEW answer \in Ends, Answer(q, answer)
  PROVE  /\ request' \in [Requests -> RequestState]
         /\ request'[q].at = "answered"
         /\ OthersStay(q)
<1>1. [at |-> "answered", answer |-> answer] \in RequestState
  BY DEF RequestState
<1> QED
  BY <1>1, PutEffect DEF Answer

\* So does a replay, of what was recorded for another request.
LEMMA ReplayEffect ==
  ASSUME TypeOK, NEW q \in Requests, NEW response \in Requests, Replay(q, response)
  PROVE  /\ request' \in [Requests -> RequestState]
         /\ request'[q].at = "replayed" /\ request'[q].response = response
         /\ OthersStay(q)
<1>1. [at |-> "replayed", response |-> response] \in RequestState
  BY DEF RequestState
<1> QED
  BY <1>1, PutEffect DEF Replay

\* A claim that was not made is answered, or replayed from a finished row of
\* the same body.
LEMMA NotClaimedEffect ==
  ASSUME TypeOK, NEW q \in Requests, NEW seen \in Record, NotClaimed(q, seen)
  PROVE  /\ request' \in [Requests -> RequestState]
         /\ OthersStay(q)
         /\ \/ request'[q].at = "answered"
            \/ /\ request'[q].at = "replayed"
               /\ seen.hash = Body[q] /\ seen.response # NoResponse
               /\ request'[q].response = seen.response
<1>1. CASE seen.hash # Body[q] \/ seen.response = NoResponse
  BY <1>1, AnswerEffect DEF NotClaimed, Ends
<1>2. CASE ~(seen.hash # Body[q] \/ seen.response = NoResponse)
  <2>1. seen.response \in Requests
    BY <1>2 DEF Record
  <2> QED
    BY <1>2, <2>1, ReplayEffect DEF NotClaimed
<1> QED
  BY <1>1, <1>2

-----------------------------------------------------------------------------
(* The invariant, step by step *)

\* A row that exists is a row of the table.
LEMMA RecordExists ==
  ASSUME TypeOK
  PROVE  /\ record = Absent \/ record \in Record
         /\ Absent \notin Record
         /\ \A row \in Record : row.expires \in Nat
                             /\ row.response \in Requests \cup {NoResponse}
         /\ now \in Nat
         /\ \A e \in effects : e.start \in Nat /\ e.time \in Nat /\ e.by \in Requests
<1>1. \A row \in Record : DOMAIN row = {"hash", "expires", "response"}
  BY DEF Record
<1>2. DOMAIN Absent = {"hash"}
  BY DEF Absent
<1>3. Absent \notin Record
  BY <1>1, <1>2
<1>4. now \in Nat
  <2>1. now \in 0 .. MaxNow
    BY DEF TypeOK
  <2> QED
    BY <2>1, IdempotencyAssumption
<1> QED
  BY <1>3, <1>4 DEF TypeOK, Record

\* The row, the clock and the handler runs stay, and so do all requests but q.
Quiet(q) ==
  /\ request' \in [Requests -> RequestState]
  /\ OthersStay(q)
  /\ UNCHANGED <<now, record, effects>>
  /\ gone' = gone

LEMMA QuietTyped ==
  ASSUME TypeOK, NEW q \in Requests, Quiet(q)
  PROVE  TypeOK'
BY DEF TypeOK, Quiet, RequestState, Steps, Ends

\* A request may end at any time: what it claimed it leaves behind.
LEMMA EndKeeps ==
  ASSUME IInv, NEW q \in Requests, Quiet(q),
         request'[q].at \notin Started,
         request'[q].at = "replayed" =>
           /\ Body[request'[q].response] = Body[q]
           /\ \E e \in effects : e.by = request'[q].response
  PROVE  IInv'
<1>1. TypeOK'
  BY QuietTyped DEF IInv
<1>2. StartInv'
  BY DEF IInv, StartInv, Quiet, OthersStay
<1>3. ClaimIsExclusive'
  BY DEF IInv, ClaimIsExclusive, Quiet, OthersStay, Started, Holding
<1>4. ResponseInv'
  BY DEF IInv, ResponseInv, Given, Quiet, OthersStay, Started, Holding
<1>5. ReplayFaithful'
  BY DEF IInv, ReplayFaithful, Quiet, OthersStay
<1>6. WindowInv'
  BY DEF IInv, WindowInv, Covered, Quiet, OthersStay, Started, Holding
<1>7. AtMostOncePerWindow'
  BY DEF IInv, AtMostOncePerWindow, Quiet
<1> QED
  BY <1>1, <1>2, <1>3, <1>4, <1>5, <1>6, <1>7 DEF IInv

\* A request may move on as long as it does not come to hold the row thereby.
LEMMA MoveKeeps ==
  ASSUME IInv, NEW q \in Requests, Quiet(q),
         request'[q].at \in {"begun", "blocked", "expired", "failed"},
         request'[q].start <= now, now <= request'[q].start + RequestLimit,
         request'[q].at = "expired" => Given(request'[q].seen),
         request'[q].at = "failed" =>
           /\ request[q].at = "claimed"
           /\ request'[q].start = request[q].start
  PROVE  IInv'
<1>1. TypeOK'
  BY QuietTyped DEF IInv
<1>2. StartInv'
  BY DEF IInv, StartInv, Quiet, OthersStay
<1>3. ClaimIsExclusive'
  BY DEF IInv, ClaimIsExclusive, Quiet, OthersStay
<1>4. ResponseInv'
  BY DEF IInv, ResponseInv, Given, Quiet, OthersStay
<1>5. ReplayFaithful'
  BY DEF IInv, ReplayFaithful, Quiet, OthersStay
<1>6. WindowInv'
  BY DEF IInv, WindowInv, Covered, Quiet, OthersStay
<1>7. AtMostOncePerWindow'
  BY DEF IInv, AtMostOncePerWindow, Quiet
<1> QED
  BY <1>1, <1>2, <1>3, <1>4, <1>5, <1>6, <1>7 DEF IInv

LEMMA BeginKeeps ==
  ASSUME IInv, NEW q \in Requests, Begin(q)
  PROVE  IInv'
<1>0. TypeOK /\ now \in Nat
  BY RecordExists DEF IInv
<1> DEFINE state == [at |-> "begun", start |-> now]
<1>1. state \in RequestState /\ state.at = "begun" /\ state.start = now
  BY <1>0 DEF RequestState, Steps
<1>2. request' = [request EXCEPT ![q] = state] /\ UNCHANGED <<now, record, gone, effects>>
  BY DEF Begin
<1> HIDE DEF state
<1>3. Quiet(q) /\ request'[q] = state
  BY <1>0, <1>1, <1>2, PutEffect DEF Quiet
<1> QED
  BY <1>0, <1>1, <1>3, MoveKeeps, IdempotencyAssumption

\* The INSERT finds no row: no handler run is covered by one, so the window
\* of each is over.
LEMMA ClaimKeeps ==
  ASSUME IInv, NEW q \in Requests, Insert(q), record = Absent
  PROVE  IInv'
<1>0. TypeOK
  BY DEF IInv
<1>1. /\ request[q].at = "begun" /\ request[q].start \in Nat
      /\ record' = [hash |-> Body[q], expires |-> request[q].start + Window,
                    response |-> NoResponse]
      /\ Goto(q, "claimed")
      /\ UNCHANGED <<now, gone, effects>>
  BY <1>0, RequestShapes DEF Insert, At, Started
<1>2. /\ request' \in [Requests -> RequestState]
      /\ request'[q].at = "claimed"
      /\ request'[q].start = request[q].start
      /\ OthersStay(q)
  BY <1>0, <1>1, GotoEffect DEF Steps
<1>3. /\ record' \in Record /\ record' # Absent
      /\ record'.expires = request[q].start + Window
      /\ record'.response = NoResponse
      /\ record'.hash = Body[q]
  <2>1. request[q].start + Window \in Nat
    BY <1>1, IdempotencyAssumption
  <2>2. record' \in Record
    BY <1>1, <2>1 DEF Record
  <2> QED
    BY <1>0, <1>1, <2>2, RecordExists
<1>4. TypeOK'
  BY <1>0, <1>1, <1>2, <1>3 DEF TypeOK, RequestState, Steps, Ends
<1>5. StartInv'
  BY <1>1, <1>2 DEF IInv, StartInv, OthersStay, Started
<1>6. \A p \in Requests : request[p].at \notin Holding
  <2>1. ASSUME NEW p \in Requests, request[p].at \in Holding PROVE FALSE
    <3>1. record = [hash |-> Body[p], expires |-> request[p].start + Window,
                    response |-> NoResponse]
      BY <2>1 DEF IInv, ClaimIsExclusive, Holding
    <3>2. DOMAIN record = {"hash", "expires", "response"}
      BY <3>1
    <3> QED
      BY <3>2 DEF Absent
  <2> QED
    BY <2>1
<1>7. ClaimIsExclusive'
  BY <1>1, <1>2, <1>6 DEF ClaimIsExclusive, OthersStay, Holding
<1>8. ResponseInv'
  BY <1>1, <1>2, <1>3 DEF IInv, ResponseInv, Given, OthersStay
<1>9. ReplayFaithful'
  BY <1>1, <1>2 DEF IInv, ReplayFaithful, OthersStay
<1>10. WindowInv'
  BY <1>1 DEF IInv, WindowInv, Covered
<1>11. AtMostOncePerWindow'
  BY <1>1 DEF IInv, AtMostOncePerWindow
<1> QED
  BY <1>4, <1>5, <1>7, <1>8, <1>9, <1>10, <1>11 DEF IInv

LEMMA InsertKeeps ==
  ASSUME IInv, NEW q \in Requests, Insert(q)
  PROVE  IInv'
<1>0. TypeOK
  BY DEF IInv
<1>1. CASE record = Absent
  BY <1>1, ClaimKeeps
<1>2. CASE record # Absent
  <2>1. request[q].at = "begun" /\ Goto(q, "blocked") /\ UNCHANGED <<now, record, gone, effects>>
    BY <1>2 DEF Insert, At
  <2>2. /\ Quiet(q) /\ request'[q].at = "blocked"
        /\ request'[q].start = request[q].start
    BY <1>0, <2>1, GotoEffect DEF Quiet, Steps
  <2>3. request[q].start <= now /\ now <= request[q].start + RequestLimit
    BY <2>1 DEF IInv, StartInv, Started
  <2> QED
    BY <2>2, <2>3, MoveKeeps
<1> QED
  BY <1>1, <1>2

\* What was read of a row decides the answer, whatever became of the row.
LEMMA NotClaimedKeeps ==
  ASSUME IInv, NEW q \in Requests, NEW seen \in Record, NotClaimed(q, seen),
         Given(seen), UNCHANGED <<now, record, gone, effects>>
  PROVE  IInv'
<1>0. TypeOK
  BY DEF IInv
<1>1. /\ Quiet(q)
      /\ \/ request'[q].at = "answered"
         \/ /\ request'[q].at = "replayed"
            /\ seen.hash = Body[q] /\ seen.response # NoResponse
            /\ request'[q].response = seen.response
  BY <1>0, NotClaimedEffect DEF Quiet
<1>2. request'[q].at \notin Started
  BY <1>1 DEF Started, Holding
<1>3. request'[q].at = "replayed" =>
        /\ Body[request'[q].response] = Body[q]
        /\ \E e \in effects : e.by = request'[q].response
  BY <1>1 DEF Given
<1> QED
  BY <1>1, <1>2, <1>3, EndKeeps

LEMMA SelectKeeps ==
  ASSUME IInv, NEW q \in Requests, Select(q)
  PROVE  IInv'
<1>0. TypeOK /\ request[q].at = "blocked" /\ UNCHANGED <<now, record, gone, effects>>
  BY DEF IInv, Select, At
<1>1. CASE record = Absent
  <2>1. Quiet(q) /\ request'[q].at = "answered"
    BY <1>0, <1>1, AnswerEffect DEF Select, Quiet, Ends
  <2> QED
    BY <2>1, EndKeeps DEF Started, Holding
<1>2. CASE record # Absent /\ request[q].start >= record.expires
  <2> DEFINE state == [at |-> "expired", start |-> request[q].start, seen |-> record]
  <2>1. record \in Record /\ request[q].start \in Nat
    BY <1>0, <1>2, RecordExists, RequestShapes DEF Started
  <2>2. /\ state \in RequestState /\ state.at = "expired"
        /\ state.start = request[q].start /\ state.seen = record
    BY <2>1 DEF RequestState
  <2>3. request' = [request EXCEPT ![q] = state]
    BY <1>2 DEF Select
  <2> HIDE DEF state
  <2>4. Quiet(q) /\ request'[q] = state
    BY <1>0, <2>2, <2>3, PutEffect DEF Quiet
  <2>5. request[q].start <= now /\ now <= request[q].start + RequestLimit
    BY <1>0 DEF IInv, StartInv, Started
  <2>6. Given(record)
    BY <1>2 DEF IInv, ResponseInv
  <2> QED
    BY <2>2, <2>4, <2>5, <2>6, MoveKeeps
<1>3. CASE record # Absent /\ ~(request[q].start >= record.expires)
  <2>1. record \in Record /\ Given(record)
    BY <1>0, <1>3, RecordExists DEF IInv, ResponseInv
  <2>2. NotClaimed(q, record)
    BY <1>3 DEF Select
  <2> QED
    BY <1>0, <2>1, <2>2, NotClaimedKeeps
<1> QED
  BY <1>1, <1>2, <1>3

\* A row is deleted by a request that began when the row had expired: its own
\* request is over by now, and the window of what it did as well.
LEMMA DeleteKeeps ==
  ASSUME IInv, NEW q \in Requests, DeleteExpired(q), Deletable(q)
  PROVE  IInv'
<1>0. TypeOK /\ now \in Nat /\ Window \in Nat /\ RequestLimit \in Nat
      /\ RequestLimit < Window
  BY RecordExists, IdempotencyAssumption DEF IInv
<1> DEFINE state == [at |-> "begun", start |-> request[q].start]
<1>1. /\ request[q].at = "expired" /\ request[q].start \in Nat
      /\ record' = Absent
      /\ request' = [request EXCEPT ![q] = state]
      /\ UNCHANGED <<now, gone, effects>>
  BY <1>0, RequestShapes DEF DeleteExpired, At, Started
<1>2. /\ state \in RequestState /\ state.at = "begun" /\ state.start = request[q].start
  BY <1>1 DEF RequestState, Steps
<1> HIDE DEF state
<1>3. request' \in [Requests -> RequestState] /\ request'[q] = state /\ OthersStay(q)
  BY <1>0, <1>1, <1>2, PutEffect
<1>4. record \in Record /\ record.expires <= now
  <2>1. record \in Record /\ record.expires \in Nat /\ record.expires <= request[q].start
    BY <1>0, RecordExists DEF Deletable
  <2>2. request[q].start <= now
    BY <1>1 DEF IInv, StartInv, Started
  <2> QED
    BY <1>0, <1>1, <2>1, <2>2
<1>5. ASSUME NEW p \in Requests, request[p].at \in Holding PROVE FALSE
  <2>1. request[p].start \in Nat /\ now <= request[p].start + RequestLimit
    BY <1>0, <1>5, RequestShapes DEF IInv, StartInv, Started
  <2>2. record.expires = request[p].start + Window
    BY <1>5 DEF IInv, ClaimIsExclusive, Holding
  <2> QED
    BY <1>0, <1>4, <2>1, <2>2
<1>6. ASSUME NEW e \in effects PROVE e.start + Window <= now
  BY <1>4, <1>6 DEF IInv, WindowInv, Covered
<1>7. TypeOK'
  BY <1>0, <1>1, <1>3 DEF TypeOK, RequestState, Steps, Ends
<1>8. StartInv'
  BY <1>1, <1>2, <1>3 DEF IInv, StartInv, OthersStay, Started
<1>9. ClaimIsExclusive'
  BY <1>2, <1>3, <1>5 DEF ClaimIsExclusive, OthersStay, Holding
<1>10. ResponseInv'
  BY <1>1, <1>2, <1>3 DEF IInv, ResponseInv, Given, OthersStay
<1>11. ReplayFaithful'
  BY <1>1, <1>2, <1>3 DEF IInv, ReplayFaithful, OthersStay
<1>12. WindowInv' /\ AtMostOncePerWindow'
  BY <1>1, <1>6 DEF IInv, WindowInv, AtMostOncePerWindow
<1> QED
  BY <1>7, <1>8, <1>9, <1>10, <1>11, <1>12 DEF IInv

LEMMA DeleteExpiredKeeps ==
  ASSUME IInv, NEW q \in Requests, DeleteExpired(q)
  PROVE  IInv'
<1>1. CASE Deletable(q)
  BY <1>1, DeleteKeeps
<1>2. CASE ~Deletable(q)
  <2>1. /\ request[q].at = "expired" /\ NotClaimed(q, request[q].seen)
        /\ UNCHANGED <<now, record, gone, effects>>
    BY <1>2 DEF DeleteExpired, At
  <2>2. request[q].seen \in Record /\ Given(request[q].seen)
    BY <2>1, RequestShapes DEF IInv, ResponseInv
  <2> QED
    BY <2>1, <2>2, NotClaimedKeeps
<1> QED
  BY <1>1, <1>2

\* A handler runs under a claim of its own: no run before it is covered by
\* the row any more.
LEMMA SucceedKeeps ==
  ASSUME IInv, NEW q \in Requests, At(q, "claimed"), Goto(q, "succeeded"),
         effects' = effects \cup {[by |-> q, start |-> request[q].start, time |-> now]},
         UNCHANGED <<now, record, gone>>
  PROVE  IInv'
<1> PICK run : run = [by |-> q, start |-> request[q].start, time |-> now]
  OBVIOUS
<1>0. TypeOK /\ now \in Nat /\ Window \in Nat
  BY RecordExists, IdempotencyAssumption DEF IInv
<1>1. request[q].at = "claimed" /\ request[q].start \in Nat
  BY <1>0, RequestShapes DEF At, Started, Holding
<1>2. /\ request' \in [Requests -> RequestState]
      /\ request'[q].at = "succeeded" /\ request'[q].start = request[q].start
      /\ OthersStay(q)
  BY <1>0, <1>1, GotoEffect DEF Steps
<1>3. /\ run \in [by : Requests, start : Nat, time : Nat]
      /\ run.by = q /\ run.start = request[q].start /\ run.time = now
      /\ effects' = effects \cup {run}
  BY <1>0, <1>1
<1>4. /\ record = [hash |-> Body[q], expires |-> request[q].start + Window,
                   response |-> NoResponse]
      /\ \A p \in Requests \ {q} : request[p].at \notin Holding
  BY <1>1 DEF IInv, ClaimIsExclusive, Holding
<1>5. ASSUME NEW e \in effects PROVE e.start + Window <= now
  BY <1>1, <1>5 DEF IInv, WindowInv, Covered
<1>6. TypeOK'
  BY <1>0, <1>2, <1>3 DEF TypeOK, RequestState, Steps, Ends
<1>7. StartInv'
  BY <1>1, <1>2 DEF IInv, StartInv, OthersStay, Started, Holding
<1>8. ClaimIsExclusive'
  BY <1>2, <1>4 DEF ClaimIsExclusive, OthersStay, Holding
<1>9. ResponseInv'
  BY <1>2, <1>3 DEF IInv, ResponseInv, Given, OthersStay
<1>10. ReplayFaithful'
  BY <1>2, <1>3 DEF IInv, ReplayFaithful, OthersStay
<1>11. WindowInv'
  <2>1. record # Absent /\ record.expires = request[q].start + Window
    <3>1. DOMAIN record = {"hash", "expires", "response"}
      BY <1>4
    <3> QED
      BY <1>4, <3>1 DEF Absent
  <2>2. Covered(run)'
    BY <1>2, <1>3, <1>4, <2>1 DEF Covered, OthersStay, Holding
  <2> QED
    BY <1>3, <1>5, <2>2 DEF WindowInv
<1>12. AtMostOncePerWindow'
  <2> SUFFICES ASSUME NEW e \in effects', NEW f \in effects', e # f
               PROVE  e.start + Window <= f.time \/ f.start + Window <= e.time
    BY DEF AtMostOncePerWindow
  <2>1. CASE e \in effects /\ f \in effects
    BY <2>1 DEF IInv, AtMostOncePerWindow
  <2>2. CASE e \in effects /\ f = run
    BY <1>3, <1>5, <2>2
  <2>3. CASE e = run /\ f \in effects
    BY <1>3, <1>5, <2>3
  <2> QED
    BY <1>3, <2>1, <2>2, <2>3
<1> QED
  BY <1>6, <1>7, <1>8, <1>9, <1>10, <1>11, <1>12 DEF IInv

\* A handler that fails leaves the claim to be given up.
LEMMA FailKeeps ==
  ASSUME IInv, NEW q \in Requests, request[q].at = "claimed", Goto(q, "failed"),
         UNCHANGED <<now, record, gone, effects>>
  PROVE  IInv'
<1>0. TypeOK
  BY DEF IInv
<1>1. Quiet(q) /\ request'[q].at = "failed" /\ request'[q].start = request[q].start
  BY <1>0, GotoEffect DEF Quiet, Steps
<1>2. request[q].start <= now /\ now <= request[q].start + RequestLimit
  BY DEF IInv, StartInv, Started, Holding
<1> QED
  BY <1>1, <1>2, MoveKeeps

LEMMA RunKeeps ==
  ASSUME IInv, NEW q \in Requests, Run(q)
  PROVE  IInv'
BY SucceedKeeps, FailKeeps DEF Run, At

\* The response goes into the row the request still holds.
LEMMA CompleteKeeps ==
  ASSUME IInv, NEW q \in Requests, CompleteIdempotency(q)
  PROVE  IInv'
<1>0. TypeOK
  BY DEF IInv
<1>1. request[q].at = "succeeded" /\ request[q].start \in Nat
  BY <1>0, RequestShapes DEF CompleteIdempotency, At, Started, Holding
<1>2. /\ record = [hash |-> Body[q], expires |-> request[q].start + Window,
                   response |-> NoResponse]
      /\ \A p \in Requests \ {q} : request[p].at \notin Holding
      /\ \E e \in effects : e.by = q
  BY <1>1 DEF IInv, ClaimIsExclusive, ResponseInv, Holding
<1>3. record # Absent /\ record \in Record
  <2>1. DOMAIN record = {"hash", "expires", "response"}
    BY <1>2
  <2> QED
    BY <1>0, <2>1, RecordExists DEF Absent
<1>4. /\ record' = [record EXCEPT !.response = q]
      /\ Answer(q, "done")
      /\ UNCHANGED <<now, gone, effects>>
  BY <1>2, <1>3 DEF CompleteIdempotency, Unfinished
<1>5. /\ record' \in Record /\ record' # Absent
      /\ record'.hash = Body[q] /\ record'.expires = record.expires
      /\ record'.response = q
  <2>1. record' \in Record
    BY <1>3, <1>4 DEF Record
  <2> QED
    BY <1>0, <1>2, <1>3, <1>4, <2>1, RecordExists DEF Record
<1>6. /\ request' \in [Requests -> RequestState]
      /\ request'[q].at = "answered"
      /\ OthersStay(q)
  BY <1>0, <1>4, AnswerEffect DEF Ends
<1>7. TypeOK'
  BY <1>0, <1>4, <1>5, <1>6 DEF TypeOK, RequestState, Steps, Ends
<1>8. StartInv'
  BY <1>4, <1>6 DEF IInv, StartInv, OthersStay, Started, Holding
<1>9. ClaimIsExclusive'
  BY <1>2, <1>6 DEF ClaimIsExclusive, OthersStay, Holding
<1>10. ResponseInv'
  BY <1>2, <1>4, <1>5, <1>6 DEF IInv, ResponseInv, Given, OthersStay
<1>11. ReplayFaithful'
  BY <1>4, <1>6 DEF IInv, ReplayFaithful, OthersStay
<1>12. WindowInv'
  BY <1>4, <1>5, <1>6 DEF IInv, WindowInv, Covered, OthersStay
<1>13. AtMostOncePerWindow'
  BY <1>4 DEF IInv, AtMostOncePerWindow
<1> QED
  BY <1>7, <1>8, <1>9, <1>10, <1>11, <1>12, <1>13 DEF IInv

\* A claim is given up by the request that holds it, under which nothing
\* was done.
LEMMA AbandonKeeps ==
  ASSUME IInv, NEW q \in Requests, AbandonIdempotency(q)
  PROVE  IInv'
<1>0. TypeOK
  BY DEF IInv
<1>1. request[q].at = "failed"
  BY DEF AbandonIdempotency, At
<1>2. /\ record = [hash |-> Body[q], expires |-> request[q].start + Window,
                   response |-> NoResponse]
      /\ \A p \in Requests \ {q} : request[p].at \notin Holding
  BY <1>1 DEF IInv, ClaimIsExclusive, Holding
<1>3. /\ record' = Absent
      /\ Answer(q, "failed")
      /\ UNCHANGED <<now, gone, effects>>
  BY <1>2 DEF AbandonIdempotency, Unfinished
<1>4. /\ request' \in [Requests -> RequestState]
      /\ request'[q].at = "answered"
      /\ OthersStay(q)
  BY <1>0, <1>3, AnswerEffect DEF Ends
<1>5. ASSUME NEW e \in effects PROVE e.start + Window <= now
  BY <1>1, <1>5 DEF IInv, WindowInv, Covered
<1>6. TypeOK'
  BY <1>0, <1>3, <1>4 DEF TypeOK, RequestState, Steps, Ends
<1>7. StartInv'
  BY <1>3, <1>4 DEF IInv, StartInv, OthersStay, Started, Holding
<1>8. ClaimIsExclusive'
  BY <1>2, <1>4 DEF ClaimIsExclusive, OthersStay, Holding
<1>9. ResponseInv'
  BY <1>3, <1>4 DEF IInv, ResponseInv, Given, OthersStay
<1>10. ReplayFaithful'
  BY <1>3, <1>4 DEF IInv, ReplayFaithful, OthersStay
<1>11. WindowInv' /\ AtMostOncePerWindow'
  BY <1>3, <1>5 DEF IInv, WindowInv, AtMostOncePerWindow
<1> QED
  BY <1>6, <1>7, <1>8, <1>9, <1>10, <1>11 DEF IInv

\* A request whose context is done fails where it is.
LEMMA GoneKeeps ==
  ASSUME IInv, NEW q \in Requests, Fail(q)
  PROVE  IInv'
<1>0. TypeOK /\ UNCHANGED <<now, record, gone, effects>>
  BY DEF IInv, Fail
<1>1. ASSUME NEW answer \in Ends, Answer(q, answer) PROVE IInv'
  <2>1. Quiet(q) /\ request'[q].at = "answered"
    BY <1>0, <1>1, AnswerEffect DEF Quiet
  <2> QED
    BY <2>1, EndKeeps DEF Started, Holding
<1>2. CASE request[q].at = "claimed" /\ Goto(q, "failed")
  BY <1>0, <1>2, FailKeeps
<1> QED
  BY <1>1, <1>2 DEF Fail, Ends

LEMMA DropKeeps ==
  ASSUME IInv, NEW q \in Requests, Drop(q)
  PROVE  IInv'
<1>0. TypeOK
  BY DEF IInv
<1> DEFINE state == [at |-> "dropped"]
<1>1. state \in RequestState /\ state.at = "dropped"
  BY DEF RequestState
<1>2. request' = [request EXCEPT ![q] = state] /\ UNCHANGED <<now, record, gone, effects>>
  BY DEF Drop
<1> HIDE DEF state
<1>3. Quiet(q) /\ request'[q] = state
  BY <1>0, <1>1, <1>2, PutEffect DEF Quiet
<1> QED
  BY <1>1, <1>3, EndKeeps DEF Started, Holding

LEMMA DisconnectKeeps ==
  ASSUME IInv, NEW q \in Requests, Disconnect(q)
  PROVE  IInv'
<1>1. UNCHANGED <<now, record, request, effects>> /\ gone' = gone \cup {q}
  BY DEF Disconnect
<1>2. TypeOK'
  BY <1>1 DEF IInv, TypeOK
<1>3. StartInv' /\ ClaimIsExclusive'
  BY <1>1 DEF IInv, StartInv, ClaimIsExclusive
<1>4. ResponseInv' /\ ReplayFaithful'
  BY <1>1 DEF IInv, ResponseInv, Given, ReplayFaithful
<1>5. WindowInv' /\ AtMostOncePerWindow'
  BY <1>1 DEF IInv, WindowInv, Covered, AtMostOncePerWindow
<1> QED
  BY <1>2, <1>3, <1>4, <1>5 DEF IInv

\* The clock waits for requests that are at their limit.
LEMMA TickKeeps ==
  ASSUME IInv, Tick
  PROVE  IInv'
<1>0. TypeOK /\ now \in Nat /\ Window \in Nat /\ RequestLimit \in Nat /\ MaxNow \in Nat
  BY RecordExists, IdempotencyAssumption DEF IInv
<1>1. /\ now < MaxNow /\ now' = now + 1
      /\ UNCHANGED <<record, request, gone, effects>>
  BY DEF Tick
<1>2. TypeOK'
  <2>1. now' \in 0 .. MaxNow
    BY <1>0, <1>1
  <2> QED
    BY <1>0, <1>1, <2>1 DEF TypeOK
<1>3. StartInv'
  <2> SUFFICES ASSUME NEW q \in Requests, request[q].at \in Started
               PROVE  request[q].start <= now + 1 /\ now + 1 <= request[q].start + RequestLimit
    BY <1>1 DEF StartInv
  <2>1. request[q].start \in Nat /\ Active(q)
    BY <1>0, RequestShapes
  <2>2. now < request[q].start + RequestLimit /\ request[q].start <= now
    BY <2>1 DEF Tick, IInv, StartInv
  <2> QED
    BY <1>0, <2>1, <2>2
<1>4. ClaimIsExclusive'
  BY <1>1 DEF IInv, ClaimIsExclusive
<1>5. ResponseInv' /\ ReplayFaithful'
  BY <1>1 DEF IInv, ResponseInv, Given, ReplayFaithful
<1>6. WindowInv'
  <2> SUFFICES ASSUME NEW e \in effects, ~Covered(e)
               PROVE  e.start + Window <= now + 1
    BY <1>1 DEF WindowInv, Covered
  <2>1. e.start + Window <= now /\ e.start \in Nat
    BY <1>0, RecordExists DEF IInv, WindowInv
  <2> QED
    BY <1>0, <2>1
<1>7. AtMostOncePerWindow'
  BY <1>1 DEF IInv, AtMostOncePerWindow
<1> QED
  BY <1>2, <1>3, <1>4, <1>5, <1>6, <1>7 DEF IInv

LEMMA IInvInit == Init => IInv
<1> SUFFICES ASSUME Init PROVE IInv
  OBVIOUS
<1>1. TypeOK
  BY IdempotencyAssumption DEF Init, TypeOK
<1> QED
  BY <1>1 DEF Init, IInv, StartInv, ClaimIsExclusive, ResponseInv, ReplayFaithful,
          WindowInv, AtMostOncePerWindow, Started, Holding

LEMMA IInvNext == IInv /\ [Next]_vars => IInv'
<1> SUFFICES ASSUME IInv, [Next]_vars PROVE IInv'
  OBVIOUS
<1>1. ASSUME NEW q \in Requests,
             \/ Begin(q) \/ Insert(q) \/ Select(q) \/ DeleteExpired(q)
             \/ Run(q) \/ CompleteIdempotency(q) \/ AbandonIdempotency(q)
             \/ Disconnect(q) \/ Fail(q) \/ Drop(q)
      PROVE  IInv'
  BY <1>1, BeginKeeps, InsertKeeps, SelectKeeps, DeleteExpiredKeeps, RunKeeps,
     CompleteKeeps, AbandonKeeps, DisconnectKeeps, GoneKeeps, DropKeeps
<1>2. CASE Tick
  BY <1>2, TickKeeps
<1>3. CASE UNCHANGED vars
  BY <1>3 DEF vars, IInv, TypeOK, StartInv, ClaimIsExclusive, ResponseInv, Given,
              ReplayFaithful, WindowInv, Covered, AtMostOncePerWindow
<1> QED
  BY <1>1, <1>2, <1>3 DEF Next

-----------------------------------------------------------------------------
(* Theorems *)

\* The inductive invariant: a claim is exclusive because requests are younger
\* than their rows, and what follows from that.
THEOREM Invariant == Spec => []IInv
BY IInvInit, IInvNext, PTL DEF Spec

\* Whatever the interleaving, row, requests and handler runs are well formed.
THEOREM TypeCorrect == Spec => []TypeOK
<1>1. IInv => TypeOK
  BY DEF IInv
<1> QED
  BY <1>1, Invariant, PTL

\* The handler does its work at most once in a window, although claims are
\* given up, expire, are deleted and claimed again.
THEOREM RunsOncePerWindow == Spec => []AtMostOncePerWindow
<1>1. IInv => AtMostOncePerWindow
  BY DEF IInv
<1> QED
  BY <1>1, Invariant, PTL

\* A replayed response was recorded by a committed run for the same body, even
\* if the row it was read from has been deleted since.
THEOREM ReplaysFaithful == Spec => []ReplayFaithful
<1>1. IInv => ReplayFaithful
  BY DEF IInv
<1> QED
  BY <1>1, Invariant, PTL

\* From its claim to its outcome a request is alone with its row.
THEOREM ClaimsExclude == Spec => []ClaimIsExclusive
<1>1. IInv => ClaimIsExclusive
  BY DEF IInv
<1> QED
  BY <1>1, Invariant, PTL
==============================================================================
