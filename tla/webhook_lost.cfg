SPECIFICATION Spec
CONSTANTS
  Replicas = {p1, p2}
  Commands = {u1}
  Presses = {}
  Calls = {}
  MaxStarts = 2
  MaxCrashes = 0
  MaxErrors = 0
PROPERTIES
  WebhookStays
CHECK_DEADLOCK FALSE
