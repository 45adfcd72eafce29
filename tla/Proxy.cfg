CONSTANTS
    q1 = q1  q2 = q2  o1 = o1  o2 = o2  x1 = x1  x2 = x2  None = None
    Requests = {q1, q2}
    Origins = {o1, o2}
    Repository = o1
    GrantPool <- MCGrants
    GitGrantPool <- MCGitGrants
    Push <- MCPush
    Addresses <- MCAddresses
    WorkLimit = 2
    PrincipalLimit = 2
    ConnectionLimit = 2
    MaxRevision = 3
SPECIFICATION MCSpec
INVARIANTS RecordsAreTrue
PROPERTIES DispatchIsPermitted ProxyDrains
CHECK_DEADLOCK FALSE
