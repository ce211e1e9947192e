\* One worker without faults whose claims and renewals are prompt, catching up on missed slots.
SPECIFICATION Spec
CONSTANTS
    w1 = w1
    w2 = w2
    often = often
    rare = rare
    leap = leap
    Crons = {often, rare}
    Fires <- MCFires
    Horizon = 3
    MaxTime = 8
    LeaseLen = 2
    Owners <- OwnerNames
    NoOwner = NoOwner
    Workers = {w1}
    OwnerOf <- DistinctOwners
    Reporter = TRUE
    RenewEvery = 1
    Prompt = TRUE
    Editors = {e1}
    Submitted <- ThreeSettings
    MaxVersion = 2
    MaxFaults = 0
    LastFault = 1
INVARIANTS
    LeaseKeptAhead
