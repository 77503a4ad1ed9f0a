SPECIFICATION AFairSpec
CONSTANTS
    w = w
    Requests = {r1, r2, r3}
    Readers = {r1, r2, r3}
    Keys = {w}
    KeyOf <- OneKey
    DedupTTL = 1
    DedupMaxEntries = 2
    MaxInflight = 1
    QueueTimeout = 1
    MaxTime = 3
    Things <- AllThings
    CacheOf <- TwoCaches
    TTL = 1
    MaxEntries = 1
    Deadline = 1
    Zero <- Unknown
    Policies <- OnePolicy
    Excluded = {}
    ObjectKinds = {"Deployment"}
    Workloads = {w}
    Kind = "Deployment"
    RefOf <- OneRef
    OwnerOf <- OneOwner
    Subject <- Pods
    Annotations <- SomeSays
    NamespaceSays <- Nothing
    GovernanceTimeout = 2
    Earlier = {r3}
    Happens = {"annotate", "api-fails", "cancel", "stop"}
    MaxEvents = 1
INVARIANTS ATypeOK DrainedIsQuiet OneRequestPerWindow
PROPERTIES ReadsAreRecent FailsForCause EveryRequestEnds
CHECK_DEADLOCK FALSE
