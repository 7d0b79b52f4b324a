\* Does the trigger refuse a period that ends after it starts?
CONSTANTS
  t1 = t1  t2 = t2  d1 = d1
  Base = 2
  Places = 2
  Threads = {t1, t2}
  Deployments = {d1}
  Times = {0, 2, 3, 5, 6, 9}
  UnitSeconds <- Units
  Rate = 3
  MaxInt = 15
  MaxPeriod = 6
  MaxRecords = 2
SPECIFICATION Spec
INVARIANT TriggerRefusesOnlyEmptyPeriods
\* The system really may stop: a deployment ends, and its usage is recorded.
CHECK_DEADLOCK FALSE
