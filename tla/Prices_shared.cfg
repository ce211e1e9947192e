\* The worker and the history page at work on the table at once.
SPECIFICATION Spec
CONSTANTS
    None = None
    Prices = {1}
    LookbackDays = 2
    Endpoints = 2
    Attempts = 2
    MaxTime = 2
    Items = {1, 2}
    Actors = {"worker", "refresh", "recover"}
    Program <- MCProgram
    Page = {"refresh", "recover"}
    Delivered <- MCDelivered
    Captures <- MCCaptures
    Closes <- MCCloses
    MayFail = {"database", "lookup"}
    MaxFaults = 1
CHECK_DEADLOCK FALSE
INVARIANTS
    TypeOK
    ShownEntryIsStored
    RecoveredCountIsTrue
    PicksRecorded
PROPERTIES
    LedgerKept
    QueriesSettle
