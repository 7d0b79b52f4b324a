\* A reservation with its expire job, a deployment on it with its activate job,
\* and whoever else ends or moves them. A fault and an error together make a job
\* fail for good, and so does either of them with the move of an operator.
SPECIFICATION Spec
CONSTANTS
  r1 = r1  d1 = d1  w1 = w1  w2 = w2
  Reservations = {r1}
  Deployments = {d1}
  ReservationOf <- OneEach
  Workers = {w1, w2}
  NoOwner = NoOwner
  MaxAttempts = 2
  Lease = 1
  MaxDelay = 1
  MaxWait = 0
  MaxFaults = 1
  MaxErrors = 1
INVARIANTS TypeOK SettledMeansDone
PROPERTIES WorkGetsDone ImplementsQueue
