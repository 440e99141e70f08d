SPECIFICATION Spec
CONSTANTS
  k1 = k1
  k2 = k2
  k3 = k3
  m1 = m1
  m2 = m2
  p1 = p1
  p2 = p2
  Requests = {r1, r2, r3}
  Keys = {k1, k2, k3}
  NoKey = NoKey
  Members = {m1, m2}
  Owner <- TwoOwners
  Plans = {p1, p2}
  NoPlan = NoPlan
  ActivePlans = {p1, p2}
  Duration <- OneAndTwo
  Sweeps = {s1, s2}
  BatchSize = 2
  MaxTime = 2
  MaxFailures = 0
INVARIANTS
  OneActivePerMember
  PaidIsApplied
  NoFreeTime
PROPERTIES
  ExpiredIsFinal
SYMMETRY Symmetry
CHECK_DEADLOCK FALSE
