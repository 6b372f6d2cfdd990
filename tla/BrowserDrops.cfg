SPECIFICATION BrowserSpec
CONSTANTS
    Projects = {"p1"}
    Exclusive = {}
    Headless = {"p1"}
    MaxPages <- ThreePages
    Pages = {s1, s2, s3, s4, s5}
    Runs <- SameThrice
    Isolated = {}
    Cancels = TRUE
    Faults = {"open"}
    MaxFaults = 1
    None = None
INVARIANTS
    GoodRunRanAll
    FilesOfThisRun
CHECK_DEADLOCK FALSE
