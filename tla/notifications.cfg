SPECIFICATION FairSpec
CONSTANTS
  r1 = r1
  r2 = r2
  p1 = p1
  p2 = p2
  u1 = u1
  u2 = u2
  Runs = {r1, r2}
  NoRun = NoRun
  Replicas = {p1, p2}
  Home <- OneRunEach
  MaxIntents = 3
  Users = {u1, u2}
  For <- TwoUsers
  Blockers = {u1}
  Batch = 2
  MaxErrors = 1
  MaxExits = 1
  MaxRetries = 1
INVARIANTS
  TypeOK
  OverlapIsLate
  HeldOnce
  StopLosesNothing
PROPERTIES
  IntentsSettle
  JobKeepsRunning
