SPECIFICATION Spec
CONSTANTS
  f1 = f1
  f2 = f2
  Calls = {r1, r2, r3}
  NoCall = NoCall
  Creators = {c1, c2, c3}
  NoCreator = NoCreator
  Founder = c1
  Emails = {e1, e2}
  NoEmail = NoEmail
  FounderEmail = e1
  Slugs = {s1, s2}
  NoSlug = NoSlug
  Drops = {d1, d2}
  FirstDrop = d1
  Files = {f1, f2}
  Objects <- Paths
  ObjectAt <- PathOf
  Positions = {n1, n2}
  MaxTokens = 4
  MaxFailures = 1
INVARIANTS
  AccountsAreWhole
  SessionsEnd
  ContentIsAccounted
SYMMETRY Symmetry
CHECK_DEADLOCK FALSE
