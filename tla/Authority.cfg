SPECIFICATION Spec
CONSTANTS
  r1 = r1  r2 = r2  a1 = a1  a2 = a2  w1 = w1  p1 = p1  p2 = p2  t1 = t1  t2 = t2
  Requests = {r1}
  Admins = {a1}
  Writers = {w1}
  Drainer = Drainer
  Principals = {p1}
  Targets = {t1}
  Synthetic = t1
  WorkLimit = 2
  None = None
INVARIANTS StaleLeaseUnusable
PROPERTIES AdmissionIsCurrent LeasesEnd
