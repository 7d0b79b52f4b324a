\* Three owners, of whom two may die or be late, and two jobs.
SPECIFICATION Spec
CONSTANTS
  j1 = j1
  j2 = j2
  w1 = w1
  w2 = w2
  w3 = w3
  Jobs = {j1, j2}
  Workers = {w1, w2, w3}
  NoOwner = NoOwner
  MaxAttempts = 2
  Lease = 2
  MaxDelay = 1
  MaxWait = 0
  MaxFaults = 2
INVARIANTS TypeOK LeaseExclusive RetryBudget
PROPERTIES SettledForever OnlyOwnerFinishes JobsSettle
