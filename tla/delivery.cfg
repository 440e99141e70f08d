SPECIFICATION FairSpec
CONSTANTS
  u1 = u1
  x1 = x1
  p1 = p1
  Users = {u1}
  Drops = {x1}
  Positions = {1, 2}
  Media <- TextThenPhoto
  Deliveries = {d1, d2}
  Asker <- OneUser
  Wants <- OneDrop
  Home <- OneReplica
  Replicas = {p1}
  Period = 1
  MaxTime = 1
  MaxSubscribes = 1
  MaxFailures = 1
INVARIANTS
  TypeOK
  OnlyEntitledReceive
  RecordedIsReceived
  SentTwiceIsUnsure
  FirstIsAnnounced
PROPERTIES
  AskedIsDelivered
