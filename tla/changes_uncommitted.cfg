CONSTANTS
    c1 = c1
    c2 = c2
    t1 = t1
    u1 = u1
    Code = {c1, c2}
    Tests = {c2, t1}
    Calls <- SomeCalls
    Faults <- SomeFaults
    MaxAttempts = 2
    MaxPasses = 2
    PerPass = 1
    MaxKept = 1
    Reports <- SomeReports
    SandboxAttempts = 2
    Sequence <- ThreeAgents
    None = None
    RejectionRoutes <- QaToDeveloper
    MaxAgentAttempts = 2
    MaxRejectionLoops = 1
    RecursionLimit = 12
    Clients = {u1}
    MaxMessages <- TwoOrThree
    MayDelete = TRUE
    Repositories = {"file", "postgres"}
SPECIFICATION Spec
INVARIANT AppliedChangesAreCommitted
CHECK_DEADLOCK FALSE
