SPECIFICATION BrowserSpec
CONSTANTS
    Projects = {"p1"}
    Exclusive = {}
    Headless = {"p1"}
    MaxPages <- TwoPages
    Pages = {s1, s2, s3, s4}
    Runs <- SameTwice
    Isolated = {"p1"}
    Cancels = FALSE
    Faults = {"open"}
    MaxFaults = 2
    None = None
PROPERTY RunsEnd
CHECK_DEADLOCK FALSE
