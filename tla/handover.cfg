SPECIFICATION Spec
CONSTANTS
    Policies = {A, B}
    Names = {c}
    Levels = {"lo"}
    RefreshInterval = 1
    MinStalenessBudget = 3
    SweepGrace = 1
    ReconcileInterval = 1
    Retention = 4
    InitialPolicies = {A}
    LegacyPolicies = {A}
    Inputs = {"lo"}
    PolicyConcurrencyLimit = 2
    Lagging = {"wlr", "policy"}
    Happens = {"members", "policies", "restart", "admit"}
    MaxTime = 1
    MaxEvents = 2
INVARIANTS LabelFollowsSpec
PROPERTIES DeletesOnlyJudged ReleaseComplete ConflictFreezes
VIEW View
CHECK_DEADLOCK FALSE
