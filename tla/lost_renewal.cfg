SPECIFICATION Spec
CONSTANTS
  k1 = k1
  k2 = k2
  k3 = k3
  m1 = m1
  m2 = m2
  p1 = p1
  p2 = p2
  Requests = {r1, r2, r3}
  Keys = {k1, k2, k3}
  NoKey = NoKey
  Members = {m1}
  Owner <- OneOwner
  Plans = {p1}
  NoPlan = NoPlan
  ActivePlans = {p1}
  Duration <- OnlyOne
  Sweeps = {s1}
  BatchSize = 1
  MaxTime = 1
  MaxFailures = 0
PROPERTIES
  RenewalExtends
SYMMETRY SymmetryOfKeys
CHECK_DEADLOCK FALSE
