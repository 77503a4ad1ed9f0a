SPECIFICATION FairSpec
CONSTANTS
    Policies = {A, B}
    Names = {c}
    Levels = {"lo"}
    RefreshInterval = 1
    MinStalenessBudget = 3
    SweepGrace = 1
    ReconcileInterval = 1
    Retention = 4
    InitialPolicies = {A, B}
    LegacyPolicies = {A}
    Inputs = {"lo"}
    PolicyConcurrencyLimit = 2
    Lagging = {"wlr", "workload"}
    Happens = {"members", "backoff", "call-fails"}
    MaxTime = 1
    MaxEvents = 1
PROPERTIES Converges
