\* One process, from a database that an old and a new one open, too, to its
\* exit, with two requests and every pair of durations, accepted or not.
SPECIFICATION Spec
CONSTANTS
  old = old  new = new  self = self  q1 = q1  q2 = q2
  Processes = {old, new, self}
  Known <- MCKnown
  Nobody = Nobody
  MaxFaults = 2
  Self = self
  Requests = {q1, q2}
  Durations = {0, 1, 2}
INVARIANTS TypeOK CleanExit LedgerTrue ServedSchemaComplete
PROPERTIES StopsInTime EventuallyServes
\* The process exits.
CHECK_DEADLOCK FALSE
