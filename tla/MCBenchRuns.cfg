SPECIFICATION FairSpec
CONSTANTS
    r1 = r1
    r2 = r2
    Runs <- MCRuns
    Watched = r1
    Passes <- MCPasses
    Cases <- MCCases
    Concurrency = 2
    Retries = 1
INVARIANTS
    TypeOK
    CompleteReport
    PageShowsReport
PROPERTIES
    CancelStopsSpending
    RunsEnd
CHECK_DEADLOCK FALSE
