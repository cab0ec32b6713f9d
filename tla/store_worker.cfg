CONSTANTS
    c1 = c1
    c2 = c2
    w = w
    Calls = {c1}
    Workers = {w}
    CreatedBy = "langgraph-worker"
    Requests <- MCQaOnly
    MaxAgentAttempts = 1
    MaxQaRejectionLoops = 1
    MaxInFlight = 1
    MaxRecoveries = 0
    MaxCancels = 1
    MaxFaults = 1
SPECIFICATION Spec
PROPERTIES
    OrphansAreSettled
    EveryCallEnds
CHECK_DEADLOCK FALSE
