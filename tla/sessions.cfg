\* Requests, logouts and cleanups of one session, while four processes bootstrap
\* the operator, one with a password and one with an address the code refuses
\* after config.Load accepted it, and a partner may take the address first.
SPECIFICATION Spec
CONSTANTS
  op = op  s1 = s1  q1 = q1  q2 = q2  p1 = p1  p2 = p2  p3 = p3  p4 = p4
  Emails = {op}
  Sessions = {s1}
  Requests = {q1, q2}
  Processes = {p1, p2, p3, p4}
  Operator = op
  Misnamed = {p4}
  Overlong = {p3}
  Nil = Nil
  TTL = 2
  Retention = 1
  MaxTime = 4
INVARIANTS TypeOK ReadyHasOperator
PROPERTIES AdmittedWhileAlive LoggedOutOnce LifetimeKept BootstrapEnds
\* The clock is at its end, every process is ready and nobody needs to come.
CHECK_DEADLOCK FALSE
