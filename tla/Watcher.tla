------------------------------- MODULE Watcher -------------------------------
(***************************************************************************)
(* Which tests run again after a file has changed: class VitestWatcher     *)
(* (packages/vitest/src/node/watcher.ts) with scheduleRerun, rerunFiles    *)
(* and the begin and end of runFiles of packages/vitest/src/node/core.ts.  *)
(*                                                                         *)
(* A change of a file that is already in changedTests or invalidates is    *)
(* ignored: what it would do is taken to be on its way.  The sets are      *)
(* filled by the events of the file system and emptied by timers and runs, *)
(* with awaits in between.  Nobody cancels a run here (see RunControl) and *)
(* the server is not restarted.                                            *)
(*                                                                         *)
(* Resumed awaits (microtasks) run before other events, as in Pool.        *)
(***************************************************************************)
EXTENDS Integers

CONSTANTS
  Tests, Sources,   \* the files of the project
  Global,           \* forceRerunTriggers and configuration: files all tests depend on
  Imports,          \* the module graph: pairs <<importer, imported>>
  Deletable,        \* files that may be deleted, and created again
  Patterns,         \* filename patterns vitest may be started with: the tests they match
  NoPattern,
  MaxCalls,         \* bound: how often scheduleRerun is called
  MaxReruns         \* bound: how often all tests are run again by a key, the UI or the API

Files == Tests \cup Sources
Calls == 1..MaxCalls
Jobs == 1..(MaxCalls + MaxReruns)
Manual == Jobs \ Calls
NoJob == 0

ASSUME WatcherAssumption ==
  /\ Tests \cap Sources = {} /\ Global \cap Files = {} /\ Deletable \subseteq Files
  /\ Imports \subseteq Files \X Sources
  /\ Patterns \subseteq SUBSET Tests /\ NoPattern \notin Patterns
  /\ MaxCalls \in Nat /\ MaxReruns \in Nat

VARIABLES
  changedTests, invalidates,   \* of VitestWatcher
  timer,             \* the call of scheduleRerun _rerunTimer belongs to, or NoJob
  runningPromise,    \* the job whose run it stands for, or NoJob
  filenamePattern,   \* the tests that match it, or NoPattern
  closing,           \* closingPromise is set
  pc,                \* where each job is: a call of scheduleRerun, or a rerun of all tests
  awaits,            \* the job whose run it awaits, or NoJob
  files,             \* the test files it is to run
  present,           \* the files on disk
  known,             \* the test files in state.filesMap
  outdated,          \* history: tests with a change that no run has begun after
  filtered           \* history: a rerun has been filtered by a pattern

sets == <<changedTests, invalidates>>
jobs == <<pc, awaits, files>>
disk == <<present, known, outdated>>
vars == <<sets, timer, runningPromise, filenamePattern, closing, jobs, disk, filtered>>

RunOver(j) == j # NoJob => pc[j] = "over"

-----------------------------------------------------------------------------
\* Mutated forms of definitions below, for the properties to catch.
StaysInvalid == invalidates
TimerLost(k) == NoJob

-----------------------------------------------------------------------------
Init ==
  /\ changedTests = {} /\ invalidates = {}
  /\ timer = NoJob /\ runningPromise = NoJob
  /\ filenamePattern \in {NoPattern} \cup Patterns
  /\ closing = FALSE
  /\ pc = [j \in Jobs |-> "none"] /\ awaits = [j \in Jobs |-> NoJob] /\ files = [j \in Jobs |-> {}]
  /\ present = Files /\ known = Tests /\ outdated = {} /\ filtered = FALSE

\* No await can resume.
Quiescent == \A j \in Jobs : pc[j] \in {"scheduled", "awaitsTurn"} => ~RunOver(awaits[j])

-----------------------------------------------------------------------------
\* handleFileChanged

\* The files S leads to when it is followed from f up the importers, as far as the tests,
\* without the ignored ones.
Leads(S, f, importers) ==
  /\ f \in S
  /\ \A e \in Imports : e[2] \in S \ Tests /\ e[1] \in importers => e[1] \in S
Upwards(f, importers) == {x \in Files : \A S \in SUBSET Files : Leads(S, f, importers) => x \in S}

\* The tests on disk that depend on the file.
Dependents(f) == Upwards(f, present) \cap Tests \cap present

Ignored(f) == f \in changedTests \cup invalidates

\* The module graph has the sources and the tests that were loaded.
Reached(f) == Upwards(f, {x \in known \cup (Sources \cap present) : ~Ignored(x)})

\* A test file that was not loaded is only marked as changed.
NewlyInvalid(f) == Reached(f) \ (Tests \ known)

-----------------------------------------------------------------------------
\* scheduleRerun

\* clearTimeout: the call that has set the timer does nothing more.
TimerCleared == [j \in Jobs |-> IF j = timer THEN "over" ELSE pc[j]]

\* The pending timer is cleared, then the run under way is awaited ...
ScheduleRerun(k) ==
  /\ pc[k] = "none" /\ \A j \in Calls : j < k => pc[j] # "none"
  /\ timer' = NoJob
  /\ pc' = [TimerCleared EXCEPT ![k] = "scheduled"]
  /\ awaits' = [awaits EXCEPT ![k] = runningPromise]
  /\ UNCHANGED files

\* ... and the timer that another call has set meanwhile is cleared, too.
NewTimer(k) == k

Arm(k) ==
  /\ pc[k] = "scheduled" /\ RunOver(awaits[k])
  /\ timer' = NewTimer(k)
  /\ pc' = [TimerCleared EXCEPT ![k] = "armed"]
  /\ awaits' = [awaits EXCEPT ![k] = NoJob]
  /\ UNCHANGED <<sets, runningPromise, filenamePattern, closing, files, disk, filtered>>

\* The events of the file system: a file has changed ...
Touch(f) ==
  \/ /\ Ignored(f)
     /\ UNCHANGED <<sets, timer, jobs>>
  \/ /\ ~Ignored(f)
     /\ invalidates' = invalidates \cup NewlyInvalid(f)
     /\ changedTests' = changedTests \cup (Reached(f) \cap Tests)
     /\ IF Reached(f) \cap Tests # {} THEN \E k \in Calls : ScheduleRerun(k) ELSE UNCHANGED <<timer, jobs>>

Change(f) ==
  /\ Quiescent
  /\ f \in present
  /\ Touch(f)
  /\ outdated' = outdated \cup Dependents(f)
  /\ UNCHANGED <<runningPromise, filenamePattern, closing, present, known, filtered>>

\* ... a file that triggers all tests has ...
ChangeGlobal(g) ==
  /\ Quiescent
  /\ changedTests' = changedTests \cup known
  /\ \E k \in Calls : ScheduleRerun(k)
  /\ outdated' = outdated \cup (Tests \cap present)
  /\ UNCHANGED <<invalidates, runningPromise, filenamePattern, closing, present, known, filtered>>

\* ... a file was deleted ...
WithoutDeleted(f) == IF f \in known THEN changedTests \ {f} ELSE changedTests
KnownWithout(f) == known \ {f}

Delete(f) ==
  /\ Quiescent
  /\ f \in Deletable \cap present
  /\ present' = present \ {f} /\ outdated' = outdated \ {f}
  /\ invalidates' = invalidates \cup {f}
  /\ known' = KnownWithout(f) /\ changedTests' = WithoutDeleted(f)
  /\ UNCHANGED <<timer, runningPromise, filenamePattern, closing, jobs, filtered>>

\* ... or created: a test is run, whatever else is taken for changed.
Create(f) ==
  /\ Quiescent
  /\ f \in Files \ present
  /\ present' = present \cup {f}
  /\ \/ /\ f \in Tests
        /\ changedTests' = changedTests \cup {f}
        /\ \E k \in Calls : ScheduleRerun(k)
        /\ outdated' = outdated \cup {f}
        /\ UNCHANGED invalidates
     \/ /\ f \in Sources
        /\ Touch(f)
        /\ outdated' = outdated \cup Dependents(f)
  /\ UNCHANGED <<runningPromise, filenamePattern, closing, known, filtered>>

-----------------------------------------------------------------------------
\* The timer fires.

Goes(j, where) == pc' = [pc EXCEPT ![j] = where]

\* The tests the pattern lets pass are found in the file system, by an await.
MatchesPattern(S) == IF filenamePattern = NoPattern THEN S ELSE S \cap filenamePattern

Fire(k) ==
  /\ Quiescent
  /\ timer = k /\ timer' = NoJob
  /\ \/ /\ closing \/ changedTests = {}
        /\ Goes(k, "over")
        /\ invalidates' = IF closing THEN invalidates ELSE {}
        /\ UNCHANGED <<changedTests, files, filtered>>
     \/ /\ ~closing /\ changedTests # {}
        /\ files' = [files EXCEPT ![k] = MatchesPattern(changedTests)]
        /\ \/ /\ filenamePattern = NoPattern
              /\ Goes(k, "reporting") /\ changedTests' = {}
              /\ UNCHANGED filtered
           \/ /\ filenamePattern # NoPattern
              /\ Goes(k, "globbing") /\ filtered' = TRUE
              /\ UNCHANGED changedTests
        /\ UNCHANGED invalidates
  /\ UNCHANGED <<runningPromise, filenamePattern, closing, awaits, disk>>

\* The pattern has been applied: a rerun of changed tests that has none left is over, one
\* that has some empties changedTests.
Globbed(j) ==
  /\ Quiescent
  /\ pc[j] = "globbing"
  /\ \/ j \in Calls /\ files[j] = {} /\ Goes(j, "over") /\ UNCHANGED changedTests
     \/ j \in Calls /\ files[j] # {} /\ Goes(j, "reporting") /\ changedTests' = {}
     \/ j \in Manual /\ Goes(j, "reporting") /\ UNCHANGED changedTests
  /\ UNCHANGED <<invalidates, timer, runningPromise, filenamePattern, closing, awaits, files, disk, filtered>>

\* rerunFiles and changeNamePattern: all tests are run again, the second resets the pattern.
Rerun(j, reset) ==
  /\ Quiescent
  /\ pc[j] = "none" /\ \A i \in Manual : i < j => pc[i] # "none"
  /\ filenamePattern' = IF reset THEN NoPattern ELSE filenamePattern
  /\ files' = [files EXCEPT ![j] = IF reset THEN Tests \cap present ELSE MatchesPattern(known)]
  /\ Goes(j, IF filenamePattern' = NoPattern THEN "reporting" ELSE "globbing")
  /\ UNCHANGED <<sets, timer, runningPromise, closing, awaits, disk, filtered>>

-----------------------------------------------------------------------------
\* runFiles: the reporters have been told, the run under way is awaited ...
Report(j) ==
  /\ Quiescent
  /\ pc[j] = "reporting"
  /\ Goes(j, "awaitsTurn")
  /\ awaits' = [awaits EXCEPT ![j] = runningPromise]
  /\ UNCHANGED <<sets, timer, runningPromise, filenamePattern, closing, files, disk, filtered>>

\* ... the run begins and takes the invalid modules with it ...
InvalidatesLeft == {}

Begin(j) ==
  /\ pc[j] = "awaitsTurn" /\ RunOver(awaits[j])
  /\ Goes(j, "running")
  /\ runningPromise' = j
  /\ invalidates' = InvalidatesLeft
  /\ known' = known \cup (files[j] \cap present)
  /\ outdated' = outdated \ files[j]
  /\ awaits' = [awaits EXCEPT ![j] = NoJob]
  /\ UNCHANGED <<changedTests, timer, filenamePattern, closing, files, present, filtered>>

\* ... and ends.
End(j) ==
  /\ Quiescent
  /\ pc[j] = "running"
  /\ Goes(j, "over")
  /\ runningPromise' = NoJob
  /\ files' = [files EXCEPT ![j] = {}]
  /\ UNCHANGED <<sets, timer, filenamePattern, closing, awaits, disk, filtered>>

\* close() clears the timer.
Close ==
  /\ Quiescent
  /\ ~closing /\ closing' = TRUE
  /\ timer' = NoJob
  /\ pc' = TimerCleared
  /\ UNCHANGED <<sets, runningPromise, filenamePattern, awaits, files, disk, filtered>>

-----------------------------------------------------------------------------
Resumed == (\E k \in Calls : Arm(k)) \/ (\E j \in Jobs : Begin(j))

Proceeds(j) == Globbed(j) \/ Report(j) \/ End(j)

Next ==
  \/ Resumed
  \/ \E f \in Files : Change(f) \/ Delete(f) \/ Create(f)
  \/ \E g \in Global : ChangeGlobal(g)
  \/ \E k \in Calls : Fire(k)
  \/ \E j \in Jobs : Proceeds(j)
  \/ \E j \in Manual, reset \in BOOLEAN : Rerun(j, reset)
  \/ Close

\* Promises resolve, timers fire, reporters return and runs end.  No file has to change.
Spec ==
  /\ Init /\ [][Next]_vars
  /\ WF_vars(Resumed)
  /\ WF_vars(\E k \in Calls : Fire(k))
  /\ \A j \in Jobs : WF_vars(Proceeds(j))

-----------------------------------------------------------------------------
Places == {"none", "scheduled", "armed", "globbing", "reporting", "awaitsTurn", "running", "over"}

TypeOK ==
  /\ changedTests \subseteq Tests /\ invalidates \subseteq Files
  /\ timer \in Calls \cup {NoJob} /\ runningPromise \in Jobs \cup {NoJob}
  /\ filenamePattern \in {NoPattern} \cup Patterns
  /\ closing \in BOOLEAN /\ filtered \in BOOLEAN
  /\ pc \in [Jobs -> Places] /\ awaits \in [Jobs -> Jobs \cup {NoJob}]
  /\ files \in [Jobs -> SUBSET Tests]
  /\ present \subseteq Files /\ known \subseteq Tests \cap present /\ outdated \subseteq Tests \cap present
  /\ timer # NoJob => pc[timer] = "armed"

\* A call of scheduleRerun that has not become a run.
RerunComes == timer # NoJob \/ \E k \in Calls : pc[k] = "scheduled"

\* The test runs again: a run that has not begun has it, or the timer will find it.
RunsAgain(t) ==
  \/ \E j \in Jobs : t \in files[j] /\ pc[j] \in {"globbing", "reporting", "awaitsTurn"}
  \/ t \in changedTests /\ RerunComes

\* Without filename patterns and until Vitest is closed ...
Undisturbed == ~filtered /\ ~closing

\* ... no change is forgotten: "When you modify your source code or the test files, Vitest
\* [...] only reruns the related tests" (docs/guide/features.md), and it does rerun them.
NoChangeForgotten == Undisturbed => \A t \in outdated : RunsAgain(t)

\* A change is ignored only if every test that depends on the file runs again anyway.  What
\* stays in the sets after that is ignored for good (core.ts, _setRootConfig).
IgnoredRunsAgain ==
  Undisturbed => \A f \in present : Ignored(f) => \A t \in Dependents(f) : RunsAgain(t)

\* A run after the change begins, though changes reset the timer and runs wait for runs.
ChangedTestRuns == \A t \in Tests : t \in outdated ~> t \notin outdated \/ ~Undisturbed

\* Disagreements between the code and its documents (see README.md).

\* With a filename pattern, the changed tests that match it run again.
MatchingChangeRunsAgain ==
  ~closing => \A t \in outdated : filenamePattern = NoPattern \/ t \in filenamePattern => RunsAgain(t)
=============================================================================
