SPECIFICATION MCSpec
CONSTANTS
  n1 = n1  n2 = n2  e1 = e1  x1 = x1  x2 = x2  t1 = t1  a1 = a1  a2 = a2
  Credentials = {n1, n2, e1}
  NonExpiring = {n1, n2}
  Initial = {n1, e1}
  SignIns = {x1, x2}
  Streamers = {t1}
  Admins = {a1, a2}
  MaxCredentials = 2
  MaxSessions = 1
  MaxStreams = 2
  None = None
INVARIANTS AuthorityRemains RevokedHasNoSession
PROPERTIES StreamsEnd
CHECK_DEADLOCK FALSE
