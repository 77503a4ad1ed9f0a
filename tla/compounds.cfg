SPECIFICATION Spec
CONSTANTS
    Mebibyte = 10
    Precision = 1
    MaxInt = 120
    p1 = p1
    Pods = {p1}
    Keys <- Two
    Owners <- SharedOnly
    TTL = 1
    minOwnerRetry = 1
    MaxEntries = 2
    MinWorkloadAge = 1
    Reads = {"w"}
    Template <- Small
    Policies <- Memories
    Usages = {12}
    Rules <- NoKills
    Scaler <- Busy
    Needs = 35
    Happens = {"kill", "pass", "resize"}
    MaxEvents = 5
    Victims <- Hungry
    Undated <- Vague
    MaxKills = 1
    MaxTime = 3
INVARIANT GrowsOnlyWithKills
CHECK_DEADLOCK FALSE
