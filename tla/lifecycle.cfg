SPECIFICATION FairSpec
CONSTANTS
  Replicas = {p1, p2}
  Commands = {u1}
  Presses = {b1}
  Calls = {c1}
  MaxStarts = 2
  MaxCrashes = 1
  MaxErrors = 1
INVARIANTS
  PoolOutlivesWork
PROPERTIES
  ShutdownEnds
  UpdatesArrive
CHECK_DEADLOCK FALSE
