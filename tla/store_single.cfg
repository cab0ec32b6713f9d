CONSTANTS
    c1 = c1
    c2 = c2
    w = w
    Calls = {c1}
    Workers = {}
    CreatedBy = "backend"
    Requests <- MCWholeLane
    MaxAgentAttempts = 2
    MaxQaRejectionLoops = 1
    MaxInFlight = 1
    MaxRecoveries = 2
    MaxCancels = 0
    MaxFaults = 1
SPECIFICATION Spec
PROPERTIES
    CrashesCostOneAttempt
    ImplementsContract
CHECK_DEADLOCK FALSE
