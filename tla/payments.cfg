SPECIFICATION FairSpec
CONSTANTS
  k1 = k1
  k2 = k2
  u1 = u1
  Requests = {r1, r2}
  Keys = {k1, k2}
  Users = {u1}
  Owner <- OneOwner
  Drops = {d1, d2}
  PaidDrops = {d1}
  NoDrop = NoDrop
  Sweeps = {s1, s2}
  PendingTtl = 0
  BatchSize = 2
  MaxFailures = 1
INVARIANTS
  TypeOK
  ChargedAtMostOnce
  PaidIsUnlocked
  AuditExplainsStatus
  NoPhantomEvents
  AnswersAreTrue
  SweepsDoNotDeadlock
PROPERTIES
  SucceededIsFinal
  ImplementsLedger
  PendingIsResolved
CHECK_DEADLOCK FALSE
