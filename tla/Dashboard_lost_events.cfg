\* One broken stream; evaluate, a node it may skip, and a last node.
SPECIFICATION Spec
CONSTANTS
    Runs = {r1}
    LastNode = 3
    SkipTo = 3
    MaxBeats = 0
    NoRun = NoRun
    Retries = 2
    MaxFaults = 1
INVARIANTS
    SkippedStagesDidNotRun
CHECK_DEADLOCK FALSE
