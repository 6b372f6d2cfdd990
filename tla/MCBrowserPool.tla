--------------------------- MODULE MCBrowserPool ---------------------------
EXTENDS BrowserPool, TLC

\* Two instances that share and one that cannot: the second run has to close
\* the idle browser of p3 while p2 runs, the third has one worker.
ThreeRuns == << [maxWorkers |-> 2, files |-> ("p1" :> 0 @@ "p2" :> 2 @@ "p3" :> 1)],
                [maxWorkers |-> 2, files |-> ("p1" :> 3 @@ "p2" :> 1 @@ "p3" :> 0)],
                [maxWorkers |-> 1, files |-> ("p1" :> 1 @@ "p2" :> 0 @@ "p3" :> 1)] >>
\* p1 may have two pages; p2, whose tests share a page, and p3 have one.
PagesOf == [p \in Projects |-> IF p = "p1" THEN 2 ELSE 1]
TwoPages == [p \in Projects |-> 2]
ThreePages == [p \in Projects |-> 3]
\* One instance with two pages that runs twice.
SameTwice == << [maxWorkers |-> 2, files |-> [p \in Projects |-> 2]],
                [maxWorkers |-> 2, files |-> [p \in Projects |-> 1]] >>
\* One instance with three pages, of which the first run opens them all.
SameThrice == << [maxWorkers |-> 3, files |-> [p \in Projects |-> 3]],
                 [maxWorkers |-> 3, files |-> [p \in Projects |-> 1]],
                 [maxWorkers |-> 3, files |-> [p \in Projects |-> 1]] >>
\* Each of two instances alone, then both.
InTurns == << [maxWorkers |-> 2, files |-> ("p1" :> 2 @@ "p2" :> 0)],
              [maxWorkers |-> 2, files |-> ("p1" :> 0 @@ "p2" :> 2)],
              [maxWorkers |-> 2, files |-> ("p1" :> 2 @@ "p2" :> 2)] >>
=============================================================================
