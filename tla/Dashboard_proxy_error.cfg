\* One run, one stream after the first; a broken connection and a failing lookup.
SPECIFICATION Spec
CONSTANTS
    Runs = {r1}
    LastNode = 2
    SkipTo = 2
    MaxBeats = 0
    NoRun = NoRun
    Retries = 1
    MaxFaults = 2
INVARIANTS
    FailureShownIsReal
CHECK_DEADLOCK FALSE
