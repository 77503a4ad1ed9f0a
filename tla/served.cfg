SPECIFICATION Spec
CONSTANTS
    Policies = {A, B}
    Names = {c}
    Levels = {"lo"}
    RefreshInterval = 1
    MinStalenessBudget = 3
    SweepGrace = 1
    ReconcileInterval = 1
    Retention = 4
    InitialPolicies = {A, B}
    LegacyPolicies = {A}
    Inputs = {"lo", "NoData"}
    PolicyConcurrencyLimit = 1
    Lagging = {"webhook-wlr"}
    Happens = {"members", "inputs", "admit", "webhook-restart", "call-fails"}
    MaxTime = 6
    MaxEvents = 1
INVARIANTS InjectedIsRecent ServedOnlyToItsPolicy
PROPERTIES SweepSparesServed SweepSparesNew
VIEW View
