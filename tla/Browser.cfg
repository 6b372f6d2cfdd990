SPECIFICATION BrowserSpec
CONSTANTS
    Projects = {"p1", "p2", "p3"}
    Exclusive = {"p3"}
    Headless = {"p1", "p2", "p3"}
    MaxPages <- PagesOf
    Pages = {s1, s2, s3, s4, s5, s6}
    Runs <- ThreeRuns
    Isolated = {"p1", "p3"}
    Cancels = TRUE
    Faults = {"open", "close", "file", "tester"}
    MaxFaults = 1
    None = None
INVARIANTS
    GoodRunRanAll
    FilesOfThisRun
    BrowsersBounded
PROPERTIES
    RunsEnd
CHECK_DEADLOCK FALSE
