CONSTANTS
    c1 = c1  c2 = c2  k1 = k1  k2 = k2  o1 = o1  o2 = o2  Nothing = Nothing  Nil = Nothing
    Calls = {c1, c2}
    Capabilities = {k1, k2}
    Objects = {o1, o2}
    GlobalLimit = 2
    ServerLimits = {1, 2}
    TrafficIds = {c1, c2}
    Collisions = {c1}
    QueueRecords = 2
    BatchRecords = 2
    RetainedRecords = 1
    MaxFailures = 2
    FrameQueue = 1
    Absent = Nothing
SPECIFICATION MCSpec
INVARIANTS OneStory HistoryIsTrue ResourcesAreOwned
PROPERTIES EverythingEnds
CHECK_DEADLOCK FALSE
