SPECIFICATION MCSpec
CONSTANTS
  e1 = e1
  e2 = e2
  r1 = r1
  h1 = h1
  h2 = h2
  k1 = k1
  k2 = k2
  k3 = k3
  k4 = k4
  None = None
  Editors = {e1, e2}
  Requests = {r1}
  Handles = {h1, h2}
  MaxCandidates = 64
  MaxCrashes = 2
  MasterKeys = {k1, k2, k3, k4}
  Runs = {"i1", "i2", "i3"}

INVARIANTS DurableState NothingStale KeyOpensCustody InstallationIsWhole
PROPERTIES SlotSpec PermitsComeBack
CHECK_DEADLOCK FALSE
