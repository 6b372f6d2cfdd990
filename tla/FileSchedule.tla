---------------------------- MODULE FileSchedule ----------------------------
(***************************************************************************)
(* What the pool promises to whoever starts a run: groups of test files    *)
(* one after another, at most `max` files of a group at a time, each file  *)
(* run at most once, and nothing new begins once the run is cancelled.     *)
(* Workers, runners, ids and queues are not visible here.                  *)
(***************************************************************************)
EXTENDS Naturals, Sequences, FiniteSets

CONSTANTS Tasks, Plan

InGroup(g) == {Plan[g].tasks[i] : i \in DOMAIN Plan[g].tasks}

VARIABLES group,      \* the group that is open, 0 before the first
          status,     \* "waiting", "running" or "settled" for each task
          cancelled   \* the run was cancelled

scheduleVars == <<group, status, cancelled>>

Running == {t \in Tasks : status[t] = "running"}

Init == group = 0 /\ status = [t \in Tasks |-> "waiting"] /\ cancelled = FALSE

\* The next group opens when the one before has settled; a new run is not cancelled.
OpenGroup ==
  /\ group < Len(Plan)
  /\ group > 0 => \A t \in InGroup(group) : status[t] = "settled"
  /\ group' = group + 1
  /\ cancelled' = (cancelled /\ group > 0 /\ Plan[group + 1].run = Plan[group].run)
  /\ UNCHANGED status

Begin(t) ==
  /\ ~cancelled
  /\ group > 0 /\ t \in InGroup(group)
  /\ status[t] = "waiting"
  /\ Cardinality(Running) < Plan[group].max
  /\ status' = [status EXCEPT ![t] = "running"]
  /\ UNCHANGED <<group, cancelled>>

Settle(t) ==
  /\ status[t] = "running"
  /\ status' = [status EXCEPT ![t] = "settled"]
  /\ UNCHANGED <<group, cancelled>>

\* Cancelling settles waiting files without running them, some at once, some when
\* their turn would have come.
Drop ==
  /\ cancelled'
  /\ group > 0
  /\ \E S \in SUBSET {t \in InGroup(group) : status[t] = "waiting"} :
       status' = [t \in Tasks |-> IF t \in S THEN "settled" ELSE status[t]]
  /\ UNCHANGED group

Next == OpenGroup \/ Drop \/ \E t \in Tasks : Begin(t) \/ Settle(t)

Spec == Init /\ [][Next]_scheduleVars
=============================================================================
