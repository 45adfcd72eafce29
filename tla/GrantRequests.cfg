CONSTANTS
    p1 = p1  s1 = s1  t1 = t1  a1 = a1  Null = Null
    Requesters = {p1}
    Servers = {s1}
    Policies <- MCPolicies
    MaxRows = 2
    MaxPending = 2
    MaxEvidence = 2
    MaxGrants = 1
    PageSize = 1
    MaxSequence = 3
    MaxTime = 1
    Keys = {1, 2}
    PageRows = 1
    LastRow = 4
    Retained = 1
    MaxChanges = 2
SPECIFICATION MCSpec
INVARIANTS StartupAccepts WalksComplete
PROPERTIES SettledOnce
CHECK_DEADLOCK FALSE
