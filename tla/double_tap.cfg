SPECIFICATION Spec
CONSTANTS
  u1 = u1
  x1 = x1
  x2 = x2
  Users = {u1}
  Drops = {d1}
  Updates = {x1, x2}
  From <- OneUser
  NoPress = NoPress
  Runs = {h1, h2}
  NoUpdate = NoUpdate
  MaxFailures = 0
INVARIANTS
  DoubleTapsAreAbsorbed
CHECK_DEADLOCK FALSE
