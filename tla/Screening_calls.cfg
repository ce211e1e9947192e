\* Up to four articles in batches of two, with half of the limits of the code.
SPECIFICATION FairSpec
CONSTANTS
    None = None
    Articles <- MCArticles
    MinBody = 2
    MaxBody = 3
    Inputs <- MCInputs
    Answers <- MCAnswers
    ErrorTypes = {"APITimeoutError", "RateLimitError"}
    MaxRequests = 7
    BatchSize = 2
    PartSize = 1
    MaxRetries = 1
    MaxRecovery = 3
    ScreenBatch = 2
    ReviewBatch = 1
    MaxImpacts = 1
    MaxPicks = 1
CHECK_DEADLOCK FALSE
INVARIANTS
    TypeOK
    ArticlesAccounted
    FailureIsExplained
    ProgressTellsTruth
PROPERTIES
    ScreeningEnds
