SPECIFICATION Spec
CONSTANTS
    Policies = {A, B}
    Names = {c}
    Levels = {"lo"}
    RefreshInterval = 1
    MinStalenessBudget = 3
    SweepGrace = 1
    ReconcileInterval = 1
    Retention = 4
    InitialPolicies = {A, B}
    LegacyPolicies = {}
    Inputs = {"lo"}
    PolicyConcurrencyLimit = 2
    Lagging = {}
    Happens = {"members"}
    MaxTime = 1
    MaxEvents = 1
INVARIANTS ServedOnlyToItsPolicy
VIEW View
