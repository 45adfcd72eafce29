SPECIFICATION MCFairSpec
CONSTANTS
  Nobody = Nobody  Null = Null
  Controllers = {"audit", "invocations", "http", "git", "related", "export"}
  MaxRecords = 3
  MaxDrops = 1
  MaxMoves = 1
  MaxFails = 1
  MaxClicks = 3
  MaxLosses = 1
  Focuses = {"views", "lists", "export", "related", "hub"}
  invocations = invocations  system_status = system_status  servers = servers
  Kinds = {invocations, system_status, servers}
  Coalesced = {invocations, system_status}
  Limit = 2
  Buffer = 2
  MaxStreams = 3
INVARIANTS
  NothingLost
  PageIsTrue
  WalksAreWhole
PROPERTIES
  PauseHolds
  HintsArrive
\* Nothing has to happen while nobody touches the page.
CHECK_DEADLOCK FALSE
