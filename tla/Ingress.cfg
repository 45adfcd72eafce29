SPECIFICATION MCSpec
CONSTANTS
  r1 = r1  r2 = r2  r3 = r3  i1 = i1  i2 = i2  c1 = c1
  Initializers = {r1, r2}
  Users = {r3}
  Ids = {i1, i2}
  Credentials = {c1}
  MaxLegacy = 1  MaxWork = 2  MaxStreams = 1
  Timers = {"idle"}
  None = None
INVARIANTS SessionsAccounted
PROPERTIES SessionKeepsLease SessionsEnd
CHECK_DEADLOCK FALSE
