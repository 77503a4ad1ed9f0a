SPECIFICATION FairSpec
CONSTANTS
    Mebibyte = 10
    Precision = 1
    MaxInt = 120
    p1 = p1
    Pods = {p1, p2}
    Keys <- Three
    Owners <- Either
    TTL = 1
    minOwnerRetry = 1
    MaxEntries = 2
    MinWorkloadAge = 1
    Reads = {"w"}
    Template <- Small
    Policies <- Both
    Usages = {12}
    Rules <- NoKills
    Scaler <- Busy
    Needs = 35
    Happens = {"kill", "pass", "resize", "touch", "unresolved", "read-fails", "ungoverned", "delete", "restart"}
    MaxEvents = 4
    Victims <- Hungry
    Undated <- Vague
    MaxKills = 1
    MaxTime = 3
INVARIANTS TypeOK  Recommendable
PROPERTIES EscapesTheKill ReportedOnce KillsAreSettled
CHECK_DEADLOCK FALSE
