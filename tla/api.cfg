CONSTANTS
    c1 = c1
    c2 = c2
    w1 = w1
    g1 = g1
    g2 = g2
    u1 = u1
    Calls = {c1, c2}
    Workflows = {w1}
    Gates = {g1, g2}
    None = None
    SafeMode = TRUE
    RunEnd = {"completed", "paused"}
    Overrides = {"unset", "off"}
    MaxRestarts = 1
    Clients = {u1}
    MaxMessages <- Four
    MayDelete = TRUE
    Repositories = {"file"}
SPECIFICATION Spec
INVARIANTS
    SafeModeRunsAlone
    RecoveryFollowsTheRun
    PauseNamesAnOpenGate
    StoreIsCurrent
    WritesAreKept
PROPERTIES
    EveryCallEnds
    DeletedStaysDeleted
CHECK_DEADLOCK FALSE
