\* A cron expression that matches once and then not within the horizon.
SPECIFICATION FairSpec
CONSTANTS
    w1 = w1
    w2 = w2
    often = often
    rare = rare
    leap = leap
    Crons = {leap}
    Fires <- MCFires
    Horizon = 3
    MaxTime = 3
    LeaseLen = 2
    Owners <- OwnerNames
    NoOwner = NoOwner
    Workers = {w1}
    OwnerOf <- DistinctOwners
    Reporter = TRUE
    RenewEvery = 1
    Prompt = FALSE
    Editors = {e1}
    Submitted <- LeapDay
    MaxVersion = 2
    MaxFaults = 0
    LastFault = 1
PROPERTIES
    DueSlotHandled
