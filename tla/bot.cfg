SPECIFICATION Spec
CONSTANTS
  u1 = u1
  u2 = u2
  x1 = x1
  x2 = x2
  x3 = x3
  s0 = s0
  s1 = s1
  Senders = {u1, u2}
  Updates = {x1, x2, x3}
  From <- MCFrom
  Scripts <- MCScripts
  Points = 1
  Window = 2
  MaxTime = 2
  Replicas = {p1, p2}
  NoReplica = NoReplica
  Creators = {c1, c2}
  NoCreator = NoCreator
  Slugs = {s0, s1}
  DefaultSlug = s0
  MaxEdits = 1
  MaxFailures = 1
INVARIANTS
  LimitIsFair
  RegisteredOnce
  ActsOnChosen
SYMMETRY Symmetry
CHECK_DEADLOCK FALSE
