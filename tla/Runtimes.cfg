CONSTANTS
    s1 = s1  e1 = e1  c1 = c1  None = None
    Servers = {s1}
    Edits = {e1}
    Callbacks = {c1}
    MaxReconciliations = 1
    CompletionAttempts = 2
    MaxFaults = 2
    MaxRuntimes = 3
SPECIFICATION MCSpec
INVARIANTS NothingForgotten RoutesAreSound
PROPERTIES OperationsSettleOnce Settles
CHECK_DEADLOCK FALSE
