SPECIFICATION FFairSpec
CONSTANTS
    Identities = {1, 2, 3, 4}
    Malformed = {4}
    Callers <- Queries
    Group <- OneGroup
    Sizes <- KnownOrNot
    Instants = {1, 2}
    Required <- UsageThenOOM
    Samples <- DearUsage
    HasHistory <- OOMHistory
    Unanswerable <- SickFirst
    MaxSamples = 4
    MaxShardMembers = 2
    ShardConcurrency = 2
    FallbackConcurrency = 1
    MaxFailures = 3
    Cooldown = 1
    MaxInflight = 1
    Happens = {"outage", "cancel"}
INVARIANTS FTypeOK ShardsFit DeniedForCause
PROPERTIES KeepsPromise EveryFetchEnds ProbesGetThrough
