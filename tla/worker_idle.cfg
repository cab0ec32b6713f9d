CONSTANTS
    c1 = c1
    c2 = c2
    w = w
    Calls = {c1}
    Workers = {w}
    CreatedBy = "backend"
    Requests <- MCFirstStage
    MaxAgentAttempts = 1
    MaxQaRejectionLoops = 0
    MaxInFlight = 2
    MaxRecoveries = 2
    MaxCancels = 0
    MaxFaults = 1
SPECIFICATION Spec
PROPERTY OrphansAreSettled
CHECK_DEADLOCK FALSE
