\* Two workers with names of their own, two settings pages, one fault, late renewals.
SPECIFICATION Spec
CONSTANTS
    w1 = w1
    w2 = w2
    often = often
    rare = rare
    leap = leap
    Crons = {often, leap}
    Fires <- MCFires
    Horizon = 3
    MaxTime = 4
    LeaseLen = 1
    Owners <- OwnerNames
    NoOwner = NoOwner
    Workers = {w1, w2}
    OwnerOf <- DistinctOwners
    Reporter = TRUE
    RenewEvery = 1
    Prompt = FALSE
    Editors = {e1, e2}
    Submitted <- OftenOrLeap
    MaxVersion = 2
    MaxFaults = 1
    LastFault = 9
INVARIANTS
    TypeOK
    SlotRunsAtMostOnce
    SummaryFollowsCompletion
    LeaseNamesItsRun
PROPERTIES
    LedgerKept
    NoOvertakenOutcome
    LeaseHeldToItsEnd
    RenewalKeepsOwnLease
    NoSlotDropped
    SaveReplacesSeenVersion
SYMMETRY EditorSymmetry
