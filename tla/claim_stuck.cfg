SPECIFICATION Spec
CONSTANTS
  q1 = q1
  q2 = q2
  q3 = q3
  Requests = {q1, q2, q3}
  Body <- Bodies
  NoResponse = NoResponse
  Window = 2
  RequestLimit = 1
  MaxNow = 5
PROPERTY AbandonedAfterFailure
CHECK_DEADLOCK FALSE
