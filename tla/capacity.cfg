\* Two requests race for the last units of one site while operators review
\* and suspend it and reservations are released and expire.
CONSTANTS
  t1 = t1  t2 = t2  s1 = s1  c1 = c1  r1 = r1  r2 = r2
  Threads = {t1, t2}
  Sites = {s1}
  Scenarios = {c1}
  Reservations = {r1, r2}
  Total <- ThreeUnits
  Units <- TwoEach
  Operations <- CapacityOps
  MaxSiteVersion = 8
SYMMETRY ThreadsAndIds
SPECIFICATION Spec
INVARIANTS
  TypeOK
  CapacityConserved
  ReturnAlwaysFits
  ReservedAfterApproval
  DecisionsRecorded
PROPERTIES
  ReservedOnActiveSite
