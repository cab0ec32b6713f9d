CONSTANTS
    s1 = s1
    s2 = s2
    s3 = s3
    Sessions = {s1, s2, s3}
    Owners <- TwoOwners
    OwnerOf <- ThirdIsForeign
    Requests <- ShortRequests
    MaxAgentAttempts = 2
    MaxQaRejectionLoops = 1
    MaxFaults = 0
SPECIFICATION Spec
INVARIANTS
    TypeOK
    CoherentWork
    OnlyTheOwnerRunsStages
CONSTRAINT TwoAtOnce
SYMMETRY BackendsAreAlike
CHECK_DEADLOCK FALSE
