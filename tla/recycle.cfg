SPECIFICATION FairSpec
CONSTANTS
    Names = {0, 1, 2, 3, 4}
    Ended = {0}
    Replicas = 2
    StatefulSet = FALSE
    Modes = {TRUE, FALSE}
    Rules = {TRUE, FALSE}
    Pinned = {3}
    Containers = {"app", "side"}
    Sidecars = {"side"}
    Template <- Current
    Recs <- Mixed
    Tolerance <- FivePercent
    Needs <- Enough
    Room = 400
    Happens = {"settings", "invalid", "sidecars", "api-fails", "pdb", "timeout", "cancel", "webhook-fails", "verdict", "recommend", "drain"}
    MaxEvents = 1
INVARIANTS TypeOK
PROPERTIES EvictsOnlyForRequests ResizeSettles OneAtATime CountedIsTrue Rightsized
