\* One worker that dies while its pipeline runs.
SPECIFICATION Spec
CONSTANTS
    w1 = w1
    w2 = w2
    often = often
    rare = rare
    leap = leap
    Crons = {often, rare}
    Fires <- MCFires
    Horizon = 3
    MaxTime = 5
    LeaseLen = 2
    Owners <- OwnerNames
    NoOwner = NoOwner
    Workers = {w1}
    OwnerOf <- DistinctOwners
    Reporter = TRUE
    RenewEvery = 1
    Prompt = FALSE
    Editors = {e1}
    Submitted <- ThreeSettings
    MaxVersion = 2
    MaxFaults = 1
    LastFault = 1
INVARIANTS
    LostRunIsAbandoned
