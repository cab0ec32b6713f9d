CONSTANTS
    s1 = s1
    Sessions = {s1}
    Owners <- MCOwners
    OwnerOf <- MCOneOwner
    Requests <- MCRequests
    MaxAgentAttempts = 2
    MaxQaRejectionLoops = 2
    MaxFaults = 2
SPECIFICATION Spec
INVARIANTS
    StagesBuildOnStandingWork
    CompletedWorkIsKept
    ReworkIsBounded
PROPERTIES
    EndsAreEarned
    ImplementsContract
    EverySessionEnds
CHECK_DEADLOCK FALSE
