\* README.md:7 against TransitionSite: is a site verified before it is active?
CONSTANTS
  t1 = t1  t2 = t2  s1 = s1  c1 = c1  r1 = r1  r2 = r2
  Threads = {t1, t2}
  Sites = {s1}
  Scenarios = {c1}
  Reservations = {r1}
  Total <- ThreeUnits
  Units <- TwoEach
  Operations <- CapacityOps
  MaxSiteVersion = 5
SPECIFICATION Spec
INVARIANT ActiveSitesVerified
