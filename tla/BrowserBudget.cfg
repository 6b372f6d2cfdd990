SPECIFICATION BrowserSpec
CONSTANTS
    Projects = {"p1", "p2"}
    Exclusive = {}
    Headless = {"p1", "p2"}
    MaxPages <- TwoPages
    Pages = {s1, s2, s3, s4}
    Runs <- InTurns
    Isolated = {"p1"}
    Cancels = FALSE
    Faults = {}
    MaxFaults = 0
    None = None
INVARIANT PagesShared
CHECK_DEADLOCK FALSE
