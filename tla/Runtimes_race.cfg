CONSTANTS
    s1 = s1  e1 = e1  c1 = c1  None = None
    Servers = {s1}
    Edits = {e1}
    Callbacks = {}
    MaxReconciliations = 1
    CompletionAttempts = 2
    MaxFaults = 0
    MaxRuntimes = 2
SPECIFICATION Spec
INVARIANTS BlockedByFault
CHECK_DEADLOCK FALSE
