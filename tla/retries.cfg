SPECIFICATION Spec
CONSTANTS
    Policies = {A, B}
    i1 = i1
    m1 = m1
    Identities = {i1}
    Members = {m1, m2}
    Owner <- OneGroup
    Rank <- KeyOrder
    Steps = {"patch"}
    Errors = {{"server"}, {"rejected", "notfound"}}
    BaseRetryDelay = 2
    MaxRetryDelay = 3
    RetryFloor = 1
    ReconcileInterval = 4
    MaxShift = 1
    DurationBits = 4
    Happens = {"move", "policies", "list", "call"}
    MaxEvents = 1
    MaxAttempts = 3
    MaxTime = 1000
INVARIANTS RetryIsScheduled KeptIsClaimed
PROPERTIES RetryWaits BlockedIsKept
VIEW Timeless
SYMMETRY Swaps
