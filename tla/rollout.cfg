\* Every operation, on one reservation and its deployment: requests and the
\* worker race to activate, stop, release and expire.
CONSTANTS
  t1 = t1  t2 = t2  s1 = s1  c1 = c1  r1 = r1  r2 = r2
  Threads = {t1, t2}
  Sites = {s1}
  Scenarios = {c1}
  Reservations = {r1}
  Total <- ThreeUnits
  Units <- TwoEach
  Operations <- AllOps
  MaxSiteVersion = 5
SYMMETRY ThreadsAndIds
SPECIFICATION Spec
INVARIANTS
  PreparedMovesAreLegal
  OutboxComplete
  ChangesAudited
PROPERTIES
  LifecyclesFollowed
  ImplementsLedger
