CONSTANTS
  f1 = f1  f2 = f2  c1 = c1  c2 = c2  r1 = r1  r2 = r2  i1 = i1  i2 = i2  s1 = s1  s2 = s2  None = None
  Flows = {f1, f2}
  Callbacks = {c1, c2}
  Refreshers = {r1, r2}
  Owned = {r1}
  Issuers = {i1, i2}
  Home = i1
  Scopes = {s1}
  MaxCallbackWork = 1
  MaxGenerations = 3
  MaxEdits = 1
  MaxCrashes = 1
SPECIFICATION MCSpec
INVARIANTS FlowAndTokensAgree TokensAreFenced
PROPERTIES AuthorizationEnds
CHECK_DEADLOCK FALSE
