SPECIFICATION FairSpec
CONSTANTS
    Policies = {A, B}
    i1 = i1
    m1 = m1
    Identities = {i1}
    Members = {m1}
    Owner <- OneGroup
    Rank <- KeyOrder
    Steps = {"prometheus"}
    Errors = {{"server"}}
    BaseRetryDelay = 2
    MaxRetryDelay = 5
    RetryFloor = 1
    ReconcileInterval = 1
    MaxShift = 2
    DurationBits = 5
    Happens = {"move", "policies", "list", "call"}
    MaxEvents = 1
    MaxKills = 1
    MaxAttempts = 1
    MaxTime = 0
INVARIANTS SeriesAreOwned
PROPERTIES AbsentIsForgotten
CHECK_DEADLOCK FALSE
