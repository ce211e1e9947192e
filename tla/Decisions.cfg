SPECIFICATION Spec
CONSTANTS
    None = None
    Articles <- MCArticles
    MaxCandidates = 100
    MaxRelated = 3
    MaxPicks = 1
    Extractions <- MCExtractions
    Directories <- MCDirectories
    Files <- MCFiles
    Comparisons <- MCComparisons
    Assessments <- MCAssessments
    Verdicts <- MCVerdicts
    ScreenBatch = 2
    ReviewBatch = 2
CHECK_DEADLOCK FALSE
INVARIANTS
    TypeOK
    IncidentsAreJoined
    VerifiedIndependently
    PickIsSupported
    ScoresAreNet
