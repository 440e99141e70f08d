SPECIFICATION FairSpec
CONSTANTS
  k1 = k1
  k2 = k2
  k3 = k3
  m1 = m1
  m2 = m2
  p1 = p1
  p2 = p2
  Requests = {r1, r2}
  Keys = {k1, k2, k3}
  NoKey = NoKey
  Members = {m1, m2}
  Owner <- TwoOwners
  Plans = {p1}
  NoPlan = NoPlan
  ActivePlans = {p1}
  Duration <- OnlyOne
  Sweeps = {s1, s2}
  BatchSize = 2
  MaxTime = 2
  MaxFailures = 1
PROPERTIES
  LapsedIsSwept
CHECK_DEADLOCK FALSE
