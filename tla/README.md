# Vitest in TLA+

TLA+ modules of the parts of Vitest whose correctness depends on the order in
which things happen: the pools that hand test files to workers and to browser
pages, the worker process and its runner, the runs, cancels and the close of the
core, the watcher, the test runner with its fixtures, the limiter it shares and
the way of the results to the reporters. TLC checks them on small instances, TLAPS proves what
is marked below for every value of the constants.

`src/` is the repository; paths below are relative to
`src/packages/vitest/src/` unless they begin with `packages/` or `docs/`.

    tlc -workers 2 -config PoolRuns.cfg MCPool      # a run
    tlapm RunControlProofs.tla                      # a proof

Contents: [the system](#the-system), [the modules](#the-modules),
[the runs](#the-runs), [what the code breaks](#what-the-code-breaks),
[the proofs](#the-proofs), [not modelled](#not-modelled), [plan](#plan).

## The system

Vitest is one main process, `Vitest` in `node/core.ts`, that starts worker
processes or threads, or browser pages. All of the main process is one JavaScript
thread: code between two `await`s is atomic, resumed awaits (promise jobs) come
before the next event (a message, an exit, a timer, a key), and every hazard is
about what somebody else did during an `await`.

| part | state | operations | talks to | hard because | correct if |
|---|---|---|---|---|---|
| concurrency limiter, `utils/limit-concurrency.ts` | one counter, a linked list of callers | acquire, release, the microtask of a woken caller | tests and hooks | the counter counts active and waiting calls at once; release functions are called twice | the limit holds, nobody waits beside a free slot, every call runs |
| pool of test files, `node/pools/pool.ts`, `node/pool.ts` | queue, active tasks, shared runners, ids, exit promises | run, schedule, cancel, close | core, runners | schedule() is entered by ends, failures and cancels, and goes on after awaits | ids distinct, groups in order, no slot lost, nothing left after close |
| runner and worker, `node/pools/poolRunner.ts`, `pools/workers/*`, `runtime/workers/init.ts` | `_state`, operation lock, listeners, channel; in the worker: setups, run, teardown | start, stop, requests, events, timeouts | pool, process | operations wait for the lock once; exits and channel errors come at any time | operations exclude each other, "terminated" means gone, no error that nobody hears |
| runs, `node/core.ts` | `runningPromise`, `cancelPromise`, `isCancelling`, cancel listeners | runFiles, cancelCurrentRun, close | pool, watcher, keys, API | promises are read, awaited and overwritten | one run at a time, a cancel cancels its run |
| watcher, `node/watcher.ts`, `node/core.ts` | changedTests, invalidates, `_rerunTimer` | change, add, unlink, scheduleRerun, rerunFiles | core | sets are emptied by runs and timers with awaits between; what is in them is ignored | no change forgotten |
| test runner, `runtime/runner/run.ts` | the tree of tasks with mode and result | runSuite, runTest, hooks, retries, repeats | limiter, updates | concurrency, failing hooks, cancels that mark tasks in the middle of them | results earned, final, and told upwards |
| hooks around, `runtime/runner/run.ts` callAroundHooks | three coroutines per hook, two timers, two slots | setup, use(), teardown | limiter | races of promises; user code may hang or misuse use() | proper nesting, no slot left |
| task updates, `run.ts`, `node/state.ts`, `node/test-run.ts`, `runtime/runners/index.ts` | packs, events, throttle; channel; the results the main process knows | updateTask, flush, updateTasks, updated, bail | runner, reporters | throttled and merged; a result is an object that goes on changing | every event once, in order; final results with the last event |
| browser pool, `node/pools/browser.ts`, `node/browser/sessions.ts`, `packages/browser/src/node/{rpc,serverTester}.ts` | queue, workers, active workers; per worker a queue of files, pages, one promise | schedule, cancel, runTests, grow, events of pages | providers, pages | pages outlive runs; all of them settle one promise | a good run ran all of its files, budgets, every run ends |
| keyboard input, `node/stdin.ts` | raw mode, a pending filter | keys | core | a second CTRL+c | - |
| deadlines, `runtime/runner/context.ts` | timer, elapsed time | withTimeout, extend | runner | a late answer races a timer | - |
| fixtures, `runtime/runner/fixture.ts` | per context: values, a note of what is initialized, clean-ups; promises of file fixtures | withFixtures, setup, use(), both clean-ups | runner | shared by concurrent tests; retries reuse the context; timeouts do not stop a setup | set up once, before use, torn down after it |
| waiting, `integrations/wait.ts`, expect.poll | interval, timeout | check | tests | two timers and a promise | - |
| snapshots, spies and mocks, module fetch caches | maps | - | workers | shared caches of promises | - |
| sequencers, groups, typechecker, coverage, expect, formatting, configuration, CLI, UI | - | - | - | sequential | - |

## The modules

Three abstract specifications say what a part promises, and its detailed module
is shown to implement them (`INSTANCE ... WITH`):

    Semaphore        <-  ConcurrencyLimiter   (TLC and TLAPS)
    FileSchedule     <-  Pool                 (TLC and TLAPS)
    RunnerLifecycle  <-  PoolRunner           (TLC and TLAPS)
    RunnerLifecycle  <-  Pool, once per runner: the pool uses runners only as
                         the lifecycle allows (TLC and TLAPS)

So Pool may look at a runner through `RunnerLifecycle`, and PoolRunner at its pool
through the calls in it: that is how the two are composed. RunControl sees the pool
as `poolCancelling` and `workers`; Watcher sees a run as its begin and end;
AroundHooks sees the limiter as holders and a queue, which is the view `Semaphore`
gives; SuiteRunner reports at once, TaskUpdates models the way there; Fixtures sees
an attempt of a test as its hooks and its function, and a retry as its result.

In every module an action is one stretch of code from an event or a resumed await
to the next await, with everything it calls. `Quiescent`, `Resumed` or `JobsLeft`
keep events back while an await can resume; resumed awaits are taken in any order.

**ConcurrencyLimiter** (`utils/limit-concurrency.ts`). `count`, `pending` and the
release functions are the variables of the code; `Resume` is the microtask between
finish() and the woken caller. A caller may call its release function twice, as
`run.ts` does.

**Pool** (`node/pools/pool.ts`, `node/pool.ts`, parts of `core.ts`). A task is a call
of run(), a runner is named after its first task. `Schedule` is the synchronous
part of schedule(); the awaits in it (`runner.start()`, the resolver, `runner.stop()`)
are the values of `pc`. Cancels take their four steps (tasks, shared runners, exits,
end), and come from a key, from `bail` or from close(); `CancelledBy` keeps the runs small: they
have the key's, which may come whenever `bail`'s may, PoolBail.cfg has `bail`'s, and the proofs
have both. "running" in `FileSchedule`
starts when the slot is taken, so it includes the start of the worker. `StartRun`
assumes that runs do not overlap; RunControl is about that. stop() is one step, of two
outcomes: `StopDone`, and `StopTimesOut` of a graceful stop the worker does not answer before
STOP_TIMEOUT (`CanHang`), which leaves the process alive. `SlowStart` are tasks whose
worker.start() takes longer than the 90 s of WORKER_START_TIMEOUT; START_TIMEOUT does not cover
that call, but the workers of Vitest return from it at once and give up the wait for the answer
after 60 s, so only a custom pool has such tasks. Runs of one project have equal `Key`s, as
isEqualRunner compares projects: runners may be shared with files of any run.

**PoolRunner** (`poolRunner.ts`, `forksWorker.ts`, `workers/init.ts`). start() and
stop() with their lock, the listeners, a process that exits, is killed or whose
channel breaks, two channels and the message loop of the worker. `Failures` chooses
what may go wrong. A thread or VM worker follows the same protocol.

**RunControl** (`core.ts`). runFiles, cancelCurrentRun and close, each a sequence
of places where it awaits; `awaits` is the promise it read, `found` the run it was
called in. `raced` is a history: two calls of runFiles have awaited runningPromise at the same
time, after which both begin (CoreOverlap).

**Watcher** (`watcher.ts`, `core.ts`). Changes, additions and deletions of files,
the importers of a file, the two sets, the timer, and the three awaits of a
rerun. `outdated` is the history the properties are about: tests whose code changed
after their last run began. Nobody cancels, the server is not restarted, the module
graph is static.

**SuiteRunner** (`runtime/runner/run.ts`, `utils/tasks.ts`, `utils/suite.ts`). The tree
of a file; suites with hooks before and after, groups of concurrent children, tests
with repeats and retries. An attempt is two steps, the test and what comes after;
a cancel may come at any await. The limiter is here the bound on running tests.

**AroundHooks** (`run.ts` 320-445). For each hook: `frame` is runNextHook, `hook` the
user's function, `use` its call of use(); timers; the limiter as a value, so that
a step may give back one slot and ask for another. The hook is user code: it may
hang, throw, call use() twice or never. `Abandons` says whether it may also end
without waiting for use().

**TaskUpdates** (`run.ts` 471-522, `state.ts`, `test-run.ts`, `runners/index.ts`). The
worker emits events; the throttle sends them at once, by timer or with the last
flush; the channel is ordered; TestRun.updated reports event by event and awaits each
report, whatever reporters return: there is a handler for each message it has received, and
those of one worker take their steps in any order. `received` and `told` are the events as the
main process receives them and as reporters are told; `alone` notes that no messages overlapped.
The result in a message is the state at the time it is sent, as in the
code, where it is one object. `bail` asks the main process how many failures it knows.

**BrowserPool** (`node/pools/browser.ts`). `schedule` with eviction of idle browsers,
runTests of a worker (`call`: before the provider, in the run, over), openPages and
grow, the pages with their files, and four faults: a page that does not open, a page
that closes, createTesters that fails, a tester whose html fails (`session.fail`).
`Settle`, `Reject`, `FinishSession`, `RunNextTest` are the methods of the same names as
functions on a worker's record. `own` and `grown` are the sets of pages a `Promise.all`
awaits. Page ids are taken again once nothing refers to the page: the code has
fresh ones, nothing compares them over time. The start of a provider is a step only
for a new worker. Pages of an evicted worker that open late have no effect.

**Fixtures** (`runtime/runner/fixture.ts`, with `run.ts`). A call is a hook or a test
function of one attempt, wrapped by withFixtures; an instance is one run of a fixture
function, named after the call that started it. `at` says which fixture a call awaits,
`cached` is contextHasFixturesCache, `promise` scopedFixturePromiseCache, `value` the
contexts, `cleanups` cleanupFnArrayMap, `cleaning` what runFixtureCleanups has taken
out. A call keeps the array it found when it began, so `detached` says for whom that
array is in the map no more. A call that times out (`abandoned`) is not stopped. The file
owns the fixtures of its scope. Tests are concurrent; the hooks of one follow each other
unless `Parallel`.

## The runs

`PROJECT.json` lists them with a mutant for each property: a plausible bug of the code,
defined beside what it mutates, with which TLC finds the property violated.

| run | instance | properties | shows |
|---|---|---|---|
| `limiter` ConcurrencyLimiter.cfg | five calls, two slots | `EveryCallRuns`, `Implements` | every call runs; the limiter is a FIFO semaphore, so the limit holds and no slot idles beside a waiting call |
| `pool_live` PoolLive.cfg | two files on one worker, one on two; two cancels, a broken channel, stops that time out | `TaskSettles`, `CancelReturns` | every accepted file settles, every cancel returns |
| `pool_runs` PoolRuns.cfg | two runs of one project, of two files on one and two workers; two cancels or a close, a slow start of an isolated file, an exit, a broken channel, stops that time out | `DistinctPoolIds`, `NoTaskForgotten`, `NoOrphanRunner`, `CloseLeavesNoWorker`, `KeepsSchedule`, `KeepsLifecycles` | pool ids; no wake-up lost, no task refused or without an id; no orphaned or idle shared runner; close leaves no process but those that did not answer a stop; the two refinements |
| `runner` Runner.cfg | three files, two forced cancels, five failures | `OneOperation`, `WorkerDoesOneThing`, `TerminatedMeansGone`, `NoUncaughtError`, `StopReturns`, `KeepsLifecycle` | lock, handlers of the worker, terminated runners, uncaught errors, stops return, lifecycle |
| `core_runs` CoreRuns.cfg | three runFiles, two cancels, close, at any time | `RunIsKnown`, `FoundRunEnds`, `CancelSticks`, `CallsReturn` | until two calls of runFiles await the same run (`raced`): one run at a time, and a cancel hits its run only; in any case every call returns |
| `watcher` Watcher.cfg | two tests, a chain of two sources, a configuration file; three scheduled reruns and one by hand | `NoChangeForgotten`, `ChangedTestRuns` | no change is forgotten; changed tests run again |
| `updates` Updates.cfg | two workers with a test each, a retry, bail 1; of one worker two messages may be reported at a time | `EventsInOrder`, `ResultsAreKnown`, `AllIsTold` | events received once and in order, told in order until messages overlap, all before the file is over, last results with the last event |
| `around` Around.cfg | two tests in three hooks each, one slot | `InsideAllHooks`, `NothingLeft`, `PhasesHoldSlots`, `EveryNestEnds` | nesting, slots, every nest ends |
| `suite` Suite.cfg | a file, a suite with two concurrent tests (one repeated and retried, one that must fail) and a suite, a test after it; two cancels | `PassIsEarned`, `FileTellsAll`, `ResultIsFinal`, `FileEnds` | results earned within the retries, final, told to the file and to the reporters, once without a cancel; the file ends |
| `browser` Browser.cfg | three instances, one exclusive; runs with two, two and one worker; a cancel in each, one fault | `GoodRunRanAll`, `FilesOfThisRun`, `BrowsersBounded`, `RunsEnd` | a good run ran all files, no old files, budgets and exclusive runs, runs end |
| `fixtures` Fixtures.cfg | two concurrent tests, one with a hook around it, a hook before it and a retry, one with a hook after it; a fixture of the file, two of the tests that need it | `FixturesAreReady`, `OneInstance`, `FixturesEnd` | set up before use and not torn down during it, once per context, and all of it ends |
| `fixtures_retry` FixturesRetry.cfg | one test with a retry that may time out | `FixturesAreReady` | finding: the retry runs without its fixture |

The type invariants are proved for all modules, so the runs spend their time on the others.

### Bounds, and why they are enough

- *ConcurrencyLimiter*: five calls of two slots are the least with two holders, two
  waiting and one that arrives in the window of the woken one.
- *Pool*: ids, slots and sharing are about two files at a time and the next one;
  two groups give a change of `maxWorkers` with old ids around, two runs of one
  project a pool that is used again with runners of the run before. Two cancels are the least for "second CTRL+c" and for a
  cancel that overlaps another.
- *PoolRunner*: a first, a middle and a last file; two forced cancels and the end of
  the task make three calls of stop(). `given` bounds everything else.
- *RunControl*: three runs are the least of which two await the first; two cancels and
  the close can each find a different run. The calls of a method are numbered in the order
  they are made.
- *Watcher*: `MaxCalls = 3` reruns allow a change before, during and after the run of
  another; `Manual` reruns clear the sets from outside. Two sources in a chain give
  a direct, an indirect and a shared importer.
- *TaskUpdates*: `MaxOnTheWay = 1`: the 100 ms of the throttle do not pass while a message
  is under way or being reported; the flush and the question of `bail` still send a second.
  It bounds the queue, not the order of anything in it; the cfgs that fail have 2.
  `MaxReported`: of one worker two messages are reported at a time, the least that overlap.
- *AroundHooks*: `Depth = 3` gives an outer, a middle and an inner hook; two tests with
  one slot are the harshest concurrency. The proof covers any depth, tests and limit.
- *SuiteRunner*: one retry in each of two repeats, two levels of suites, `MaxCancels = 2`,
  as a second cancel finds tasks the first has marked.
- *BrowserPool*: three runs, `MaxFaults = 1`; six pages are never all in use. The first run
  leaves two idle browsers, one of which the second must close, the third has a
  smaller budget. The failing cases below need two faults or two pages.
- *Fixtures*: two tests are the least that share a promise; three fixtures give a chain
  across the scopes and a fixture two others need; one retry is a second attempt in the
  same context. Timeouts, parallel hooks and a late use() are in the cfgs that fail.

### Fairness

Awaits that can resume resume, messages that were sent arrive while the process
lives, timers fire: the event loop guarantees it. A worker goes on with its file
because tests and hooks have timeouts (PoolRunner, SuiteRunner, BrowserPool, Fixtures); hooks
in AroundHooks and tests in TaskUpdates need *not* go on. Processes need not die,
users need not cancel or change files, faults need not happen, and a new run need
not come. In Fixtures the part of a fixture after use()
is assumed to end: the code has no timeout for it. Pool: `SlowStart` tasks need no answer. PoolRunner: a process that
worker.stop() killed exits. BrowserPool uses one `WF_browserVars(Progress)` over all steps that
are no fault: some of them happens as long as there is any.

`CHECK_DEADLOCK FALSE` stands in the cfgs of programs that end: when every call was
made and is over, the system has stopped. `updates` checks deadlock, with a step
`Done` for the states in which both files are over.

## What the code breaks

The first of these is a run that expects a violation, with a finding in `PROJECT.json`;
the other cfgs are beside it and give the counterexample when run (SuiteBreaks,
BrowserDrops, PoolBail and UpdatesBreaks, which break several properties, with TLC's `-continue`).

| property | cfg, module | what happens | says otherwise |
|---|---|---|---|
| `FixturesAreReady` | FixturesRetry, MCFixtures | a test times out while it awaits a fixture; the retry takes the fixture for initialized and runs without it | `docs/guide/test-context.md:424` |
| `FixturesAreReady` | FixturesParallel, MCFixtures | with parallel hooks the second of two that use a fixture does not await the setup the first began | `docs/guide/test-context.md:424` |
| `OneInstance` | FixturesLate, MCFixtures | a fixture that calls use() after the clean-ups ran is never torn down | - |
| `ReportedOnce` | SuiteBreaks, MCSuiteRunner | a cancel marks the suite that runs as skipped; when it ends, all of its tests are reported again | `node/test-run.ts:251` |
| `RunsEnd` | BrowserHangs, MCBrowserPool | two pages fail to open; the second failure has no listener; a run that counts on that page waits for ever | `node/pools/browser.ts:522` |
| `GoodRunRanAll` | BrowserDrops, MCBrowserPool | non-isolated pages: of three, one fails, one opens late, finds no file and is cleaned; the next run relies on the third, the cleaned one settles it: its file is lost and the run is good | - |
| `FilesOfThisRun` | BrowserDrops, MCBrowserPool | the lost file stays in the queue of the worker, and a page runs it in a later run | - |
| `PagesShared` | BrowserBudget, MCBrowserPool | pages left from runs of one instance each take files together: twice the budget | `docs/config/maxworkers.md:64` |
| `NoFailureDropped` | SuiteBreaks, MCSuiteRunner | a repeat fails, a later one skips: the test is skipped | - |
| `NothingLeft` | AroundAbandons, AroundHooks | a hook ends without awaiting use(): its teardown slot is taken for ever | - |
| `NoEarlyBail` | UpdatesBreaks, MCTaskUpdates | a failing test is counted twice, once by its update and once by itself | `docs/config/bail.md` |
| `NothingPending` | UpdatesBreaks, MCTaskUpdates | the end of a test that skipped itself or was cancelled is reported before its result | `docs/api/advanced/reporters.md:320` |
| `ReportedInOrder` | UpdatesBreaks, MCTaskUpdates | two messages of a worker arrive one after the other; the reports of the first are awaited one by one, those of the second go between | `docs/api/advanced/reporters.md:32` |
| `NoStartAwaitsDeadWorker` | PoolDeadStart, MCPool | a shared runner dies between files: start() attaches to a dead process and waits for the 60 s of START_TIMEOUT | `node/pools/poolRunner.ts` |
| `DistinctPoolIds` | PoolLateStart, MCPool | a custom pool starts a worker in more than 90 s: its task is rejected, the run ends; the start goes on, and in the next run of the project the runner is shared with its id of the run before, which another file has | `node/pools/poolRunner.ts`, poolId |
| `CancelledRunSendsNothing` | PoolBail, MCPool | a cancel during runner.start() does not keep the file from being sent | `docs/` on cancelCurrentRun |
| `CancelReturns` | PoolCancelHangs, MCPool | a forced cancel awaits a worker that had died by itself | - |
| `BailIsGraceful` | PoolBail, MCPool | a second `bail` cancel is taken for a forced one | `docs/` on cancelCurrentRun |
| `NoUncaughtError` | RunnerRestart, PoolRunner | a runner that failed to start and is started again has two exit listeners; its exit emits an error too many | `node/pools/poolRunner.ts` |
| `StopReturns` | RunnerKilled, PoolRunner | a process killed by a signal has no exit code: stop() waits for an exit event it missed | - |
| `NoRunWhileClosing` | CoreClose, RunControl | close() waits for the run under way, not for one that is about to begin | `node/core.ts`, close |
| `NoRunRefused` | CoreRefused, RunControl | a run that waits while close() begins is refused by the pool | `test/e2e/test/bail-race.test.ts` |
| `KnowsTheRun` | CoreOverlap, RunControl | with two calls of runFiles waiting for the same run both go on: two runs at once, of which runningPromise is the later one and, when one ends, none | `docs/api/advanced/vitest.md:562` |
| `MatchingChangeRunsAgain` | WatcherPattern, MCWatcher | with a filename pattern, changes that come while rerunFiles globs are cleared | `docs/guide/features.md` |
| `NoChangeForgotten` | WatcherRecreate, MCWatcher | a deleted and created source stays in invalidates: its change is ignored | `docs/guide/features.md` |

Two properties of the runs name a case they leave out, as the code does leave it: a worker that
does not answer a graceful stop is not killed after STOP_TIMEOUT, so that it counts as terminated
and close() may return while its process lives (`TerminatedMeansGone`, `CloseLeavesNoWorker`;
`node/pools/poolRunner.ts` 312-346).

## The proofs

In TLAPS for every value of the constants, under the named ASSUMEs of the module.
Every module of proofs EXTENDS the module it is about. The invariants were checked
with TLC as well.

- **PoolProofs**: `PoolTypeOK`, `PoolDistinctIds`, `PoolForgetsNoTask`, `PoolLeavesNoOrphan`,
  `PoolClosesClean`, and the two refinements, `PoolKeepsLifecycles` and `PoolKeepsSchedule`, for
  any plan of runs and groups, any isolation, sharing, faults and number of cancels. Assumed is
  of the plan that each file is in one group, once, and of `Key` that in one run runners are
  equal only within a group, as groupSpecs puts a project and a kind of workers into one; files of
  different runs may fit the same runners. The theorems have the hypothesis `LateAreAlone`: no
  runner that starts late (`SlowStart`) fits a task of a later run. It holds for the pools of
  Vitest, where nothing starts late; without it an id of an earlier run comes back with such a
  runner (PoolLateStart). schedule() is
  entered by almost every action, so its two forms are first taken apart: a task of the loop
  is skipped, queued or begun (`Skips`, `Enqueues`, `Begins`), a task that ends leaves, hands
  its runner to the next in the queue or has it replaced (`Leaves`, `HandsOver`, `Replaces`),
  and it is shown of each of these what it keeps. The invariant relates: waiting tasks to
  the groups (`WaitingTasks`, `EndedTasks`); tasks to the runner they have alone (`BusyTasks`,
  `Runners`); slots to ids, each id that is taken having its task, without which an id
  could be missing when a slot is free (`Slots`); and cancels to what they await
  (`Cancelling`, `Awaited`), which close() needs: between two of its steps it holds that
  what still lives is awaited by it or was made to stop by another cancel. A cancel that awaits
  a worker that has died by itself never goes on (PoolCancelHangs) and promises nothing: `Hangs`
  and `Live` say which those are. In `FileSchedule` a task is running while it is `Busy` and its
  promise has not settled; each action of the pool begins one task, settles one, drops those of
  a cancelled group, opens a group, or is a stutter.
- **WorkersProofs** holds the proofs of PoolRunner and those of BrowserPool.
  PoolRunner: `RunnerTypeOK`, `RunnerOneOperation`, `RunnerTerminatedMeansGone`,
  `RunnerKeepsLifecycle` (the refinement), for any number of files and forced cancels
  and any `Failures`. `IInv` = types, `OneOperation` (the lock against the calls),
  `TaskInStep` (schedule() against what it called), `StateInStep` (`_state` against the
  operation under way; a failed runner has a microtask pending), `GoneInStep`. `_state`
  alone is not inductive, because an exit sets it in the middle of start().
  Then `RunnerWorkerDoesOneThing` and `RunnerHearsErrors`, assuming that a runner that failed to
  start is not started again (`"restart" \notin Failures`; RunnerRestart shows why). Their
  invariant, `IInvOnce`: one exchange at most is under way, counting messages both ways, setups and
  work (`OneExchange`), it is one schedule() has asked for (`ExchangeFits`), and a process that
  may still fail has one listener, with somebody attached to it (`SomebodyListens`).
  BrowserPool: `BrowserTypes`; `BrowserBounded` (`BrowsersBounded`), without any assumption;
  `BrowserGoodRun` (`GoodRunRanAll`) and `BrowserFilesOfThisRun` (`FilesOfThisRun`), assuming that
  every project is isolated. BrowserDrops shows why: the page of a project that is not isolated is
  cleaned after its last file, and the answer may come in the next run and settle it while
  its files wait in the queue. `BrowserIsolatedRanAll` and `BrowserIsolatedFiles` say the
  same of each isolated project, whatever the others are. schedule(), the eviction and grow() are loops over the state they
  change; they are recursive functions on the number of rounds, shown to exist, and of a round it
  is shown what it keeps. It is enough that there are as many rounds as the queue, or the map, was
  long. `BrowserIInv` has four parts: the types; what has a result (`Results`); the workers
  while providers start (`Prepared`); and the pool with its workers (`PoolOK`), which the loops
  keep, too. Of the pool: an exclusive instance is alone, and there are slots and room for
  headless browsers (`Slots`). Of a worker (`Fine`): it has a promise as long as the
  outcome of its call is open (`InCall`); it knows files of its project and of no later run
  (`KnownFiles`); and of an isolated one `InOnePlace`, that a file is in the queue or in a page, once,
  and nothing waits to be cleaned, and `Covers`, that every file of the run ended or is in
  such a place, unless an error or a cancel tells why not. With it `settle()` in the last busy
  page finds the queue empty and no file left.
- **RunControlProofs**: `ControlTypeOK`, `ControlRunIsKnown`, `ControlFoundRunEnds`,
  `ControlCancelSticks`, for any number of runs and cancels, without assumption on how they
  overlap. Until two calls of runFiles have awaited runningPromise at the same time (`raced`) the
  invariant (`Orderly`) relates each promise to the one call it stands for, and what a call
  awaits to what it found; so that is the only cause of two runs at once. CoreOverlap has it.
- **WatcherProofs**: `WatcherTypeOK`, `WatcherForgetsNothing`, `WatcherIgnoresSafely`, for
  any files, import graph, patterns and number of reruns, assuming that only tests are
  deleted (WatcherRecreate shows why). The two safety properties are inductive only together,
  and with `SourcesStay`, `UnknownRunsAgain`, `ChangedComes` (what is in changedTests has a
  timer or will) and `GlobbingIsFiltered`.
- **AroundHooksProofs** holds the limiter's proofs and those of the hooks that use it.
  ConcurrencyLimiter: `LimiterTypeOK`, `LimiterSafe` (`AtMostConcurrency`),
  `LimiterWakes` (`NoIdleSlot`), `LimiterImplements` (the refinement), for finitely many calls. The invariant adds that `count`
  is the slots taken plus the calls waiting, that the list holds exactly the calls
  that wait, once, and that a call has released iff it is done: without the first the
  test `count < concurrency` says nothing about slots. For the refinement an acquire
  and a release are shown to be steps of `Semaphore`, the microtask a stutter.
  AroundHooks: `AroundTypeOK`, `AroundNests`, `AroundLeavesNothing`,
  `AroundHoldsSlots`, `AroundHandlesTimers`, for any set of tests, any depth and limit,
  assuming hooks wait for their use() (AroundAbandons shows why). First the limiter as
  a value: who acquires is added, who releases is removed, and nobody else loses a slot.
  The invariant: a use() that runs has its frame and its hook waiting (`UseInHook`); the
  next frame exists iff use() was called; `UnderWayInside`: while a frame is under way use() runs
  in *every* hook around it, stated over all levels at once, so that no induction over the
  depth is needed; `ClaimsArePhases`: a slot is asked for or held exactly by a phase.
- **SuiteRunnerProofs**: `SuitePassIsEarned`, for any tree of suites, any retries and repeats,
  any cancels. The property speaks of tests that are over; the invariant adds what holds
  before: `RetriesCount` (while a test may have another attempt, retryCount counts those of
  its repeat, all of which failed), `RepeatsInOrder` (later repeats are empty, earlier ones
  have passed or hasFailedRepeat tells) and `PassIsLast`. Steps of suites and cancels mark a
  test as skipped at most, so nothing about the tree is needed.
  Then `SuiteTypeOK`, `SuiteFileTellsAll` and `SuiteResultIsFinal`, which are about the tree:
  assumed is that it is finite, that every task but the file has one parent, and that
  every set of suites has one without children in it. From this `Below` is shown to exist and
  to be the children and what is below them. `TreeInv` says that nothing below a suite
  has begun before the suite runs its children (`Untouched`) or goes on after them (`AtRest`),
  that reporters have heard of what is over (`Heard`), and that a suite which fails has a reason
  and tells it (`HooksFail`, `FailuresTold`, `FileFails`), although cancels mark
  suites as skipped in between. `OnceInv` says that without a cancel a test is reported once at
  most, and then is over or in a suite that is past its children: of two suites around a test one
  is in the other (`Nested`), and no suite that has begun is marked as skipped.
- **TaskUpdatesProofs**: `UpdatesTypeOK`, `UpdatesInOrder`, `UpdatesResultsAreKnown`, for any
  finite sets of tests and workers, a file for each worker, any retries, bail and number of
  messages that are reported at a time. The messages on their way are joined by the community module's FlattenSeq, a
  recursive function; that it exists, is unique, and what it gives for a longer, a joined and
  a changed sequence is shown by the least counterexample. The invariant: `InOrder`, of
  which the part about reporters says that one message at most is reported as long as none have
  overlapped; `AllThere`, for the length and for the set of the events, since overlaps change the
  order (ReportedInOrder); `LastIsSo`, that of each task the last message about it, or the
  main process if there is none, has its present result, unless an event of it waits, in
  which case the result will be sent; `FinishIsLast`, that from the message on that tells
  the end of a test every result of it is the final one; and `Places`, how far tests and files
  are. All steps of a worker have one shape (`Sending`: a part is sent, the rest waits, only
  results of tasks with a new event change), of which all this is shown once.

- **FixturesProofs**: `FixturesTypeOK`; `FixturesOneInstance` (`OneInstance`), assuming that
  no call times out while it awaits a fixture (FixturesRetry and FixturesLate show why); and
  `FixturesReady` (`FixturesAreReady`), assuming besides that hooks follow each other
  (FixturesParallel shows why); for any tests, retries, uses and dependencies the code does not
  refuse. First what resolveDeps gives: `Order` is a recursive function on the dependencies, which
  exists because circular ones throw; in the list of a call every fixture comes after
  those it depends on, and of several places the first one counts.
  `OneInstance` needs `IInv`, which places all that is under way: calls in the stage of their
  attempt (`CallsInPlace`); arrays of clean-ups, empty when an attempt begins
  (`CleanupsInPlace`); values and promises of the file (`FileContext`); every instance
  with the call that awaits it or the clean-up that will tear it down (`InstancesInPlace`);
  and that the two entries of a fixture are in one array, on one side of the checkpoint
  (`TogetherCleaned`), without which the inner clean-up could drop one of them from the cache
  and leave the other alive. `RInv` adds who may rely on what: what is in the cache is ready or
  awaited (`CachedIsReady`), the fixtures before the one a call awaits are ready
  (`CallsAreReady`), those of the hook around the test lie below the checkpoint
  (`AroundKeeps`), each instance is torn down once and after those that depend on it
  (`AllTornOnce`, `DepsOutlive`): the order of the arrays, cut and reversed twice, is what
  the proof follows.

Only model-checked: every liveness property (the proof system has no ENABLED), and
`FilesOfThisRun` and `GoodRunRanAll` of the projects of BrowserPool that are not isolated and
have one page, as in the run `browser`. With more pages the code breaks both, and the second
also with one page when a tester fails: its late answer ends the run after it, whose page is
then cleaned in the run after that (three runs of one instance show it).
The counterexamples of the section before do not contradict a theorem: the property is in
none, or in one with an assumption, named above, that excludes them.

## Not modelled

- *Pool*: groupSpecs and the options of workers; typecheck and VM pools' memory limits
  beyond "the worker is recycled". *PoolRunner*: RPC traffic, traces, stdio.
- *Core*: start, restart of the server, standalone and merge-reports modes. *Watcher*:
  watchTriggerPatterns, a module graph that changes, the trackers of the API; cancels
  (RunControl has them).
- *Test runner*: the order of hooks, collection errors, passWithNoTests, benchmarks;
  the timeout of a test is an outcome. *AroundHooks*: the text of errors, abort signals.
- *Fixtures*: test.extend and its parsing, static values, overrides of a suite, the worker
  scope (one context for all files of a worker), hooks of suites, validation errors; what
  beforeEach hooks return.
- *TaskUpdates*: start and end of a run, console logs, artifacts, annotations, unhandled errors.
- *BrowserPool*: close(), which comes after all runs; a page adopted from standalone mode;
  a provider that fails to start; breakpoints and traces.
- *Keyboard input*: four keys that call what RunControl and Watcher model; a composition
  of its own would add no state of interest but the raw mode.
- *Deadlines, waiting, snapshots, spies and mocks, module caches, sequencers and
  groups*: modelled by nothing yet; see the plan.
- *RPC*: birpc is vendored. *Typechecker, coverage, expect, formatting, configuration, CLI,
  plugins, UI*: sequential transformations of data or I/O. They are most of the lines
  of the repository, so the share of lines that is modelled stays small.

## Plan

Done: limiter, pool, runner, runs, watcher, updates, hooks, suites, browser pool and
fixtures, in this order, and proofs of all of their safety properties. Next: `FilesOfThisRun`
of browser projects that are not isolated but have one page, whose proof needs to follow a
page over runs; deadlines of tests (`context.ts`) with the deadline browser operations derive from
them; waitFor and expect.poll; the fetch caches of modules.
