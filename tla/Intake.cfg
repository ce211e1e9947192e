\* A dashboard run, two executions of the command line, two rotations and one fault.
SPECIFICATION Spec
CONSTANTS
    None = None
    dashboard = dashboard
    cli1 = cli1
    cli2 = cli2
    MaxPages = 2
    Executions = {dashboard, cli1, cli2}
    CommandLine = {cli1, cli2}
    Asked <- MCAsked
    Answers <- MCAnswers
    Limit = 4
    Filter <- MCFilter
    WorkflowErrors = {"WorkflowStageRetriesExhaustedError"}
    Slow = {cli1}
    MaxRotations = 2
    MaxFaults = 1
    Faulty = {dashboard, cli2}
INVARIANTS
    TypeOK
    InputsRecorded
    AuditIsTrue
    RecordsKept
