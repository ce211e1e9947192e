\* One run, two streams, two faults, one heartbeat, a workflow of two nodes.
SPECIFICATION FairSpec
CONSTANTS
    Runs = {r1}
    LastNode = 2
    SkipTo = 2
    MaxBeats = 1
    NoRun = NoRun
    Retries = 1
    MaxFaults = 2
INVARIANTS
    TypeOK
    TerminalEventAnswered
    CompletionShownIsReal
    FailureHasCause
    OneOpenSource
    NoLossOnFirstStream
PROPERTIES
    FeedKept
    PageSettles
CHECK_DEADLOCK FALSE
