SPECIFICATION FairSpec
CONSTANTS
    Policies = {A}
    Names = {c}
    Levels = {"lo"}
    RefreshInterval = 1
    MinStalenessBudget = 3
    SweepGrace = 1
    ReconcileInterval = 1
    Retention = 4
    InitialPolicies = {A}
    LegacyPolicies = {}
    Inputs = {"lo"}
    PolicyConcurrencyLimit = 1
    Lagging = {"wlr", "policy", "webhook-policy"}
    Happens = {"policies", "admit", "restart"}
    MaxTime = 1
    MaxEvents = 3
PROPERTIES OrphansGo
CHECK_DEADLOCK FALSE
