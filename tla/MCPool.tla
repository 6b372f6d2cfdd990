------------------------------- MODULE MCPool -------------------------------
(***************************************************************************)
(* Instances of Pool for TLC: which tasks there are, how they are grouped, *)
(* which of them may share a worker.                                       *)
(***************************************************************************)
EXTENDS Pool, TLC

CONSTANTS a, b, c, d

FourTasks == {a, b, c, d}
ThreeTasks == {a, b, c}
TwoTasks == {a, b}

Group(run, max, tasks) == [run |-> run, max |-> max, tasks |-> tasks]

\* Two runs of a watcher: two files on one worker, then two files on two.
TwoRunsPlan == <<Group(1, 1, <<a, b>>), Group(2, 2, <<c, d>>)>>

\* One run: two files on one worker, then a group with one file on two.
TwoGroupsPlan == <<Group(1, 1, <<a, b>>), Group(1, 2, <<c>>)>>

\* Two files on one worker, and on two.
SerialPairPlan == <<Group(1, 1, <<a, b>>)>>
PairPlan == <<Group(1, 2, <<a, b>>)>>

\* The files of one project, which fit the same workers, and the same with a worker type of its
\* own for the file of the second group.
OneProject == [t \in FourTasks |-> 1]
TwoTypes == [t \in FourTasks |-> IF t = c THEN 2 ELSE 1]
=============================================================================
