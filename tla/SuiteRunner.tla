----------------------------- MODULE SuiteRunner -----------------------------
(***************************************************************************)
(* runSuite and runTest of packages/vitest/src/runtime/runner/run.ts, for  *)
(* the tree of suites and tests of a file: hooks that fail, retries and    *)
(* repeats, tests that are expected to fail or skip themselves, concurrent *)
(* groups, and a cancel at any await.                                      *)
(*                                                                         *)
(* An attempt is two steps: the test with what comes before it, and what   *)
(* comes after.  Hooks around tests and suites are in AroundHooks, the way *)
(* of the events to the main process is in TaskUpdates; here they are      *)
(* reported at once, by TestRun.reportEvent (node/test-run.ts).            *)
(***************************************************************************)
EXTENDS Integers, SequencesExt, FiniteSets

CONSTANTS
  Tests, Suites, File,   \* the file is one of the suites
  Groups,                \* [Suites -> sequence of sets]: what partitionSuiteChildren returns, a
                         \* test or suite that is not concurrent being a set of its own
  Retry, Repeats,        \* [Tests -> Nat]
  Fails,                 \* the tests that are expected to fail
  Skipped,               \* the tasks with mode "skip"
  MaxConcurrency,
  MaxCancels             \* bound: the calls of cancel()

Tasks == Tests \cup Suites
Children(s) == UNION Range(Groups[s])

ASSUME SuiteAssumption ==
  /\ File \in Suites \ Skipped /\ Tests \cap Suites = {}
  /\ Skipped \cup Fails \subseteq Tasks /\ {Retry, Repeats} \subseteq [Tests -> Nat]
  /\ MaxConcurrency \in Nat \ {0} /\ MaxCancels \in Nat
\* A suite without children fails (run.ts 963-970), which is not modelled.
ASSUME GroupsAssumption == Groups \in [Suites -> Seq(SUBSET (Tasks \ {File})) \ {<<>>}]
\* The suites are a tree below the file.
ASSUME TreeAssumption ==
  /\ IsFiniteSet(Suites)
  /\ \A c \in Tasks \ {File} : \E s \in Suites : c \in Children(s)
  /\ \A s, q \in Suites : s # q => Children(s) \cap Children(q) = {}
  /\ \A S \in SUBSET Suites : S # {} => \E s \in S : Children(s) \cap S = {}

VARIABLES
  phase,            \* where runSuite or runTest is
  group,            \* the group of children a suite runs
  mode, result,     \* task.mode and task.result.state, "none" without a result
  pending,          \* task.result.pending: the test has skipped itself
  repeatCount, retryCount, hasFailedRepeat,
  cancelRun,        \* TestRunner.cancelRun
  cancels,          \* history: the calls of cancel()
  attempts,         \* the states of the attempts that are recorded, for each repeat
  hookFailed,       \* history: the suites whose beforeAll, afterAll or aroundAll failed
  reported          \* how often the result of a test was reported

loops == <<repeatCount, retryCount, hasFailedRepeat, pending, attempts>>
vars == <<phase, group, mode, result, loops, cancelRun, cancels, hookFailed, reported>>

Below[s \in Suites] == Children(s) \cup UNION {Below[c] : c \in Children(s) \cap Suites}
Parent(c) == CHOOSE s \in Suites : c \in Children(s)

HasFailed(s, results) == \E c \in Below[s] \cup {s} : results[c] = "fail"

\* The tests between addRunningTest and cleanupRunningTest.
Running == {t \in Tests : phase[t] \in {"test", "after", "delay"}}

Report(tests) == reported' = [t \in Tests |-> reported[t] + IF t \in tests THEN 1 ELSE 0]

-----------------------------------------------------------------------------
\* Mutated forms of definitions below, for the properties to catch.
LastRepeatDecides(t, state) == FALSE
ForgetsSuite(s) == \E c \in Children(s) \cap Tests : result[c] = "fail"
WaitsForAll(s) == \A c \in Below[s] : phase[c] = "done"
MarksTheEnded(c) == result[c] # "skip"

-----------------------------------------------------------------------------
Init ==
  /\ phase = [c \in Tasks |-> "idle"] /\ group = [s \in Suites |-> 1]
  /\ mode = [c \in Tasks |-> IF c \in Skipped THEN "skip" ELSE "run"]
  /\ result = [c \in Tasks |-> "none"] /\ pending = [t \in Tests |-> FALSE]
  /\ repeatCount = [t \in Tests |-> 0] /\ retryCount = [t \in Tests |-> 0]
  /\ hasFailedRepeat = [t \in Tests |-> FALSE]
  /\ cancelRun = FALSE /\ cancels = 0 /\ attempts = [t \in Tests |-> [r \in 0..Repeats[t] |-> <<>>]]
  /\ hookFailed = {} /\ reported = [t \in Tests |-> 0]

\* The suite around it runs its group; the file is run by runFiles.
Turn(c) ==
  /\ phase[c] = "idle"
  /\ c # File => phase[Parent(c)] = "children" /\ c \in Groups[Parent(c)][group[Parent(c)]]

-----------------------------------------------------------------------------
(* runSuite                                                                *)

\* The children of a suite that is reported as skipped are reported with it.
ReportedWith(s, state) == IF state = "skip" THEN Below[s] \cap Tests ELSE {}

\* onBeforeRunSuite skips the suite after a cancel.
Skips(c) == cancelRun \/ mode[c] = "skip"

SuiteStarts(s) ==
  /\ Turn(s) /\ ~Skips(s)
  /\ phase' = [phase EXCEPT ![s] = "before"] /\ result' = [result EXCEPT ![s] = "run"]
  /\ UNCHANGED <<group, mode, loops, cancelRun, cancels, hookFailed, reported>>

SuiteIsSkipped(s) ==
  /\ Turn(s) /\ Skips(s)
  /\ phase' = [phase EXCEPT ![s] = "done"]
  /\ mode' = [mode EXCEPT ![s] = "skip"] /\ result' = [result EXCEPT ![s] = "skip"]
  /\ Report(ReportedWith(s, "skip"))
  /\ UNCHANGED <<group, loops, cancelRun, cancels, hookFailed>>

BeforeAllPasses(s) ==
  /\ phase[s] = "before" /\ phase' = [phase EXCEPT ![s] = "children"]
  /\ UNCHANGED <<group, mode, result, loops, cancelRun, cancels, hookFailed, reported>>

\* beforeAll or the setup of aroundAll fails: markTasksAsSkipped.  After the latter there is no
\* afterAll, which makes no difference to what follows.
BeforeAllFails(s) ==
  /\ phase[s] = "before" /\ phase' = [phase EXCEPT ![s] = "after"]
  /\ hookFailed' = hookFailed \cup {s}
  /\ mode' = [c \in Tasks |-> IF c \in Below[s] THEN "skip" ELSE mode[c]]
  /\ result' = [c \in Tasks |-> IF c = s THEN "fail" ELSE IF c \in Below[s] THEN "skip" ELSE result[c]]
  /\ Report(Below[s] \cap Tests)
  /\ UNCHANGED <<group, loops, cancelRun, cancels>>

\* A group is over when all its children are.
GroupIsOver(s) == \A c \in Groups[s][group[s]] : phase[c] = "done"
IsLastGroup(s) == group[s] = Len(Groups[s])

GroupEnds(s) ==
  /\ phase[s] = "children" /\ GroupIsOver(s)
  /\ IF IsLastGroup(s)
     THEN phase' = [phase EXCEPT ![s] = "after"] /\ UNCHANGED group
     ELSE group' = [group EXCEPT ![s] = @ + 1] /\ UNCHANGED phase
  /\ UNCHANGED <<mode, result, loops, cancelRun, cancels, hookFailed, reported>>

\* The state a suite ends with: a cancel has taken the mode, and with it the question.
SuiteHasFailed(s) == HasFailed(s, result)
EndState(s, state) ==
  IF mode[s] # "run" THEN state ELSE IF state = "fail" \/ SuiteHasFailed(s) THEN "fail" ELSE "pass"

\* afterAll has run, or failed; then the suite has its result.
SuiteEnds(s, hookError) ==
  LET state == EndState(s, IF hookError THEN "fail" ELSE result[s]) IN
  /\ phase[s] = "after" /\ phase' = [phase EXCEPT ![s] = "done"]
  /\ hookFailed' = IF hookError THEN hookFailed \cup {s} ELSE hookFailed
  /\ result' = [result EXCEPT ![s] = state]
  /\ Report(ReportedWith(s, state))
  /\ UNCHANGED <<group, mode, loops, cancelRun, cancels>>

-----------------------------------------------------------------------------
(* runTest                                                                 *)

TestStarts(t) ==
  /\ Turn(t) /\ ~Skips(t) /\ Cardinality(Running) < MaxConcurrency
  /\ phase' = [phase EXCEPT ![t] = "test"] /\ result' = [result EXCEPT ![t] = "run"]
  /\ UNCHANGED <<group, mode, loops, cancelRun, cancels, hookFailed, reported>>

\* The mode says that it is skipped; the result is left as it is.
TestIsSkipped(t) ==
  /\ Turn(t) /\ Skips(t)
  /\ phase' = [phase EXCEPT ![t] = "done"] /\ mode' = [mode EXCEPT ![t] = "skip"]
  /\ Report({t})
  /\ UNCHANGED <<group, result, loops, cancelRun, cancels, hookFailed>>

\* beforeEach and the test: what does not fail passes, even after a cancel; only a cancel aborts.
TestPasses(t) ==
  /\ phase[t] = "test" /\ phase' = [phase EXCEPT ![t] = "after"]
  /\ result' = [result EXCEPT ![t] = "pass"]
  /\ UNCHANGED <<group, mode, loops, cancelRun, cancels, hookFailed, reported>>

TestThrows(t, error) ==
  /\ phase[t] = "test" /\ phase' = [phase EXCEPT ![t] = "after"]
  /\ error = "abort" => cancelRun
  /\ result' = [result EXCEPT ![t] = IF error = "failure" THEN "fail" ELSE "skip"]
  /\ pending' = [pending EXCEPT ![t] = @ \/ error = "skip"]
  /\ UNCHANGED <<group, mode, repeatCount, retryCount, hasFailedRepeat, attempts, cancelRun, cancels,
                 hookFailed, reported>>

\* The state after onTaskFinished, afterEach, cleanups and the hooks of the test.  A test that is
\* expected to fail turns it, unless an error of the attempt is a TestSyntaxError.
AfterHooks(t, hookError) == IF hookError THEN "fail" ELSE result[t]
IsPending(t, state) == pending[t] \/ state = "skip"
Flipped(t, state, syntaxError) ==
  IF t \notin Fails THEN state ELSE IF state = "pass" \/ syntaxError THEN "fail" ELSE "pass"

\* recordAttempt
Record(t, state) == attempts' = [attempts EXCEPT ![t][repeatCount[t]] = Append(@, state)]

\* A test that was skipped from inside is over, whatever its repeats were before.
AttemptSkips(t, hookError) ==
  /\ phase[t] = "after" /\ IsPending(t, AfterHooks(t, hookError))
  /\ Record(t, "skip")
  /\ mode' = [mode EXCEPT ![t] = "skip"] /\ result' = [result EXCEPT ![t] = "skip"]
  /\ pending' = [pending EXCEPT ![t] = TRUE]
  /\ phase' = [phase EXCEPT ![t] = "done"] /\ Report({t})
  /\ UNCHANGED <<group, repeatCount, retryCount, hasFailedRepeat, cancelRun, cancels, hookFailed>>

MayRetry(t) == retryCount[t] < Retry[t]

\* A failed attempt that the condition allows to run again, after a delay.
AttemptRetries(t, hookError, syntaxError) ==
  LET state == Flipped(t, AfterHooks(t, hookError), syntaxError) IN
  /\ phase[t] = "after" /\ ~IsPending(t, AfterHooks(t, hookError))
  /\ state = "fail" /\ MayRetry(t)
  /\ Record(t, "fail")
  /\ retryCount' = [retryCount EXCEPT ![t] = @ + 1] /\ result' = [result EXCEPT ![t] = "run"]
  /\ phase' = [phase EXCEPT ![t] = "delay"]
  /\ UNCHANGED <<group, mode, repeatCount, hasFailedRepeat, pending, cancelRun, cancels, hookFailed,
                 reported>>

DelayEnds(t) ==
  /\ phase[t] = "delay" /\ phase' = [phase EXCEPT ![t] = "test"]
  /\ UNCHANGED <<group, mode, result, loops, cancelRun, cancels, hookFailed, reported>>

\* The last attempt of a repeat: the condition of the retry may have forbidden another one.
FailedRepeat(t, state) == hasFailedRepeat[t] \/ state = "fail"

RepeatEnds(t, hookError, syntaxError) ==
  LET state == Flipped(t, AfterHooks(t, hookError), syntaxError)
      again == repeatCount[t] < Repeats[t]
  IN
  /\ phase[t] = "after" /\ ~IsPending(t, AfterHooks(t, hookError))
  /\ Record(t, state)
  /\ hasFailedRepeat' = [hasFailedRepeat EXCEPT ![t] = FailedRepeat(t, state)]
  /\ phase' = [phase EXCEPT ![t] = IF again THEN "test" ELSE "ending"]
  /\ repeatCount' = [repeatCount EXCEPT ![t] = IF again THEN @ + 1 ELSE @]
  /\ retryCount' = [retryCount EXCEPT ![t] = IF again THEN 0 ELSE @]
  /\ result' = [result EXCEPT ![t] = IF again THEN "run" ELSE IF hasFailedRepeat'[t] THEN "fail" ELSE state]
  /\ UNCHANGED <<group, mode, pending, cancelRun, cancels, hookFailed, reported>>

\* onAfterRunTask has returned.
TestEnds(t) ==
  /\ phase[t] = "ending" /\ phase' = [phase EXCEPT ![t] = "done"] /\ Report({t})
  /\ UNCHANGED <<group, mode, result, loops, cancelRun, cancels, hookFailed>>

-----------------------------------------------------------------------------
\* runner.cancel: markPendingTasksAsSkipped is called for the file of a running test.
IsMarked(c) == result[c] \in {"none", "run"}

Cancel ==
  /\ cancels < MaxCancels /\ cancels' = cancels + 1 /\ cancelRun' = TRUE
  /\ LET marked == {c \in Below[File] : Running # {} /\ IsMarked(c)} IN
     /\ mode' = [c \in Tasks |-> IF c \in marked THEN "skip" ELSE mode[c]]
     /\ result' = [c \in Tasks |-> IF c \in marked THEN "skip" ELSE result[c]]
  /\ phase[File] # "done"
  /\ UNCHANGED <<phase, group, loops, hookFailed, reported>>

Suite(s) ==
  \/ SuiteStarts(s) \/ SuiteIsSkipped(s) \/ BeforeAllPasses(s) \/ BeforeAllFails(s) \/ GroupEnds(s)
  \/ \E hookError \in BOOLEAN : SuiteEnds(s, hookError)

Test(t) ==
  \/ TestStarts(t) \/ TestIsSkipped(t) \/ TestPasses(t) \/ DelayEnds(t) \/ TestEnds(t)
  \/ \E error \in {"failure", "skip", "abort"} : TestThrows(t, error)
  \/ \E hookError \in BOOLEAN : AttemptSkips(t, hookError)
  \/ \E hookError \in BOOLEAN, syntaxError \in BOOLEAN :
       AttemptRetries(t, hookError, syntaxError) \/ RepeatEnds(t, hookError, syntaxError)

Next ==
  \/ \E s \in Suites : Suite(s)
  \/ \E t \in Tests : Test(t)
  \/ Cancel

\* Hooks and tests have timeouts and delays end, so every await is over at some time.
Fairness == (\A s \in Suites : WF_vars(Suite(s))) /\ (\A t \in Tests : WF_vars(Test(t)))

Spec == Init /\ [][Next]_vars /\ Fairness

-----------------------------------------------------------------------------
\* Every variable has a value of its kind, and the loops of a test keep their bounds.
TypeOK ==
  /\ phase \in [Tasks -> {"idle", "before", "children", "after", "test", "delay", "ending", "done"}]
  /\ \A s \in Suites : group[s] \in 1..Len(Groups[s])
  /\ mode \in [Tasks -> {"run", "skip"}]
  /\ result \in [Tasks -> {"none", "run", "pass", "fail", "skip"}]
  /\ \A t \in Tests : repeatCount[t] \in 0..Repeats[t] /\ retryCount[t] \in 0..Retry[t]
  /\ hasFailedRepeat \in [Tests -> BOOLEAN] /\ pending \in [Tests -> BOOLEAN]
  /\ cancelRun \in BOOLEAN /\ cancels \in 0..MaxCancels
  /\ hookFailed \subseteq Suites /\ reported \in [Tests -> Nat]

\* A test passes only if in every repeat the last attempt has passed, however many attempts
\* failed before and whatever a cancel does in between.  No repeat has more attempts than its
\* retries allow, nor one after an attempt that passed or skipped (run.ts 617-799).
PassIsEarned ==
  \A t \in Tests : \A r \in 0..Repeats[t] :
    /\ result[t] = "pass" /\ phase[t] \in {"ending", "done"} =>
         attempts[t][r] # <<>> /\ Last(attempts[t][r]) = "pass"
    /\ Len(attempts[t][r]) <= 1 + Retry[t]
    /\ \A i \in 1..(Len(attempts[t][r]) - 1) : attempts[t][r][i] = "fail"

\* A file that is over tells all: it fails exactly if a test in it ended as failed or beforeAll,
\* afterAll or aroundAll of a suite in it failed, at any depth and although a cancel takes the
\* suites between of their results.  A hook of a test that fails counts through the result of its
\* test, which is not failed if the test has skipped itself or is expected to fail.  Reporters
\* have heard of every test, also of those that never ran: because of a hook, a cancel, or a
\* suite that is skipped; without a cancel they have heard of each once (run.ts 690-764, 831-846
\* and 963-975, test-run.ts 247-253).
FileTellsAll ==
  phase[File] = "done" =>
    /\ result[File] = "fail" <=> hookFailed # {} \/ \E t \in Tests : result[t] = "fail"
    /\ \A t \in Tests : reported[t] >= 1 /\ (cancels = 0 => reported[t] = 1)

\* The result a test ends with stays, whatever hooks and cancels mark later (run.ts 831-856).
ResultIsFinal ==
  [][\A t \in Tests : result[t] \in {"pass", "fail", "skip"} /\ phase[t] \in {"ending", "done"} =>
       result'[t] = result[t]]_vars

\* Every file ends (run.ts 862-983).
FileEnds == <>(phase[File] = "done")

\* node/test-run.ts: children are reported with a skipped suite as they have no events.
ReportedOnce == \A t \in Tests : reported[t] <= 1

\* A repeat that fails makes the test fail.
NoFailureDropped == \A t \in Tests : phase[t] = "done" /\ hasFailedRepeat[t] => result[t] = "fail"

=============================================================================
