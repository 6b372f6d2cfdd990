----------------------------- MODULE PoolRunner -----------------------------
(***************************************************************************)
(* One worker of the pool from the inside: class PoolRunner                *)
(* (packages/vitest/src/node/pools/poolRunner.ts) around a forked process  *)
(* (workers/forksWorker.ts), and the message loop of that process          *)
(* (packages/vitest/src/runtime/workers/init.ts).                          *)
(*                                                                         *)
(* Module Pool is the environment: schedule() gives the runner one file    *)
(* after another and stops it after the last, cancelTask({ force: true })  *)
(* stops it at any moment.  start() and stop() exclude each other through  *)
(* an operation lock; messages travel in order, in both directions, and    *)
(* may be lost when the process ends.                                      *)
(*                                                                         *)
(* As in Pool, resumed awaits (microtasks) run before any event of the     *)
(* event loop: the events of the main process have Quiescent as a guard.   *)
(* The worker process takes its own steps at any time.                     *)
(***************************************************************************)
EXTENDS Integers, Sequences, FiniteSets

CONSTANTS
  Files,       \* the number of files the runner may be given, one after another
  Forced,      \* the calls of cancelTask({ force: true }), each made at most once
  Failures     \* what may go wrong, out of the set below

ASSUME RunnerAssumption ==
  /\ Files \in Nat \ {0}
  /\ "end" \notin Forced
  /\ Failures \subseteq {"startError", "startTimeout", "stopTimeout", "broken", "exited", "killed",
                  "restart"}

\* stop() is called by schedule() after the last file ("end") and by the forced cancels.
StopCalls == Forced \cup {"end"}

VARIABLES
  state,           \* PoolRunner._state
  lock,            \* who holds _operationLock: "none", "start" or "stop"
  terminated,      \* _terminatePromise is resolved
  startPc,         \* where start() is
  stopPc,          \* where each stop() is
  timedOut,        \* a stop() gave up after STOP_TIMEOUT
  exitListeners,   \* how often emitUnexpectedExit is attached to the process
  task,            \* where the schedule() call that uses the runner is
  rejected,        \* its resolver.isRejected
  attached,        \* its onFinished and onTaskError listen to the runner
  given,           \* the number of files given so far
  proc,            \* the process: "none", "alive", "broken" (alive, but its channel broke),
                   \* "exited" (with a code) or "killed" (by a signal)
  toWorker, toRunner,   \* the two directions of the channel
  pipeError,       \* emitError holds a write error until _pipeErrorTimer fires
  setups,          \* `start` messages the worker is still working on
  running,         \* isRunning of the worker
  teardown,        \* its `stop` handler: "none", "awaitsRun", "active" or "done"
  uncaught         \* an "error" was emitted that nobody listened to

runnerVars == <<state, lock, terminated, startPc, stopPc, timedOut, exitListeners>>
taskVars == <<task, rejected, attached, given>>
workerVars == <<setups, running, teardown>>
channels == <<toWorker, toRunner, pipeError>>
vars == <<runnerVars, taskVars, proc, channels, workerVars, uncaught>>

\* The stop() that is inside its try block.
StopBody == {"waitStopped", "waitExit", "exitSeen"}
Stopper(s) == stopPc[s] \in StopBody

-----------------------------------------------------------------------------
\* Mutated forms of definitions below, for the properties to catch.
IgnoresLock == FALSE
NeverStopped == FALSE
StaysAttached == exitListeners
GracefulAfterError == FALSE
ExitNotAwaited == "exitSeen"
StopKeepsLock(s) ==
  /\ state' = "stopped" /\ lock' = lock /\ terminated' = TRUE
  /\ stopPc' = [stopPc EXCEPT ![s] = "returned"]

-----------------------------------------------------------------------------
Init ==
  /\ state = "idle" /\ lock = "none" /\ terminated = FALSE
  /\ startPc = "none" /\ stopPc = [s \in StopCalls |-> "none"]
  /\ timedOut = FALSE /\ exitListeners = 0
  /\ task = "none" /\ rejected = FALSE /\ attached = FALSE /\ given = 0
  /\ proc = "none" /\ toWorker = <<>> /\ toRunner = <<>> /\ pipeError = FALSE
  /\ setups = 0 /\ running = FALSE /\ teardown = "none"
  /\ uncaught = FALSE

\* A stop() that waits for the lock start() or another stop() holds.
LockHeld == lock # "none"

\* No await of the main process can resume.
Quiescent ==
  /\ startPc \in {"none", "waiting"}
  /\ task # "settled"
  /\ \A s \in StopCalls :
       /\ stopPc[s] # "exitSeen"
       /\ stopPc[s] = "lockWait" => LockHeld
       /\ stopPc[s] = "waitTerminated" => ~terminated

\* postMessage: nothing reaches a process that is gone, and a broken channel reports it.
Post(m) ==
  /\ toWorker' = IF proc \in {"none", "alive"} THEN Append(toWorker, m) ELSE toWorker
  /\ pipeError' = (pipeError \/ proc = "broken")

-----------------------------------------------------------------------------
\* schedule(): the runner is given a file.

\* start(), up to `await startPromise`.  A process there is, dead or alive, is kept,
\* and every start attaches the listeners once more.
CallStart ==
  /\ state' = "starting" /\ lock' = "start" /\ startPc' = "waiting"
  /\ exitListeners' = exitListeners + 1
  /\ proc' = IF proc = "none" THEN "alive" ELSE proc
  /\ Post("start")
  /\ task' = "starting"

\* A runner that is started is sent the file at once; any other is started first.
Use ==
  /\ given' = given + 1
  /\ attached' = TRUE /\ rejected' = FALSE
  /\ \/ /\ state = "started"
        /\ Post("run") /\ task' = "running"
        /\ UNCHANGED <<state, lock, startPc, exitListeners, proc>>
     \/ state # "started" /\ CallStart
  /\ UNCHANGED <<terminated, stopPc, timedOut, toRunner, workerVars, uncaught>>

FirstUse == task = "none" /\ Use

\* Whether stop() has already been called to cancel the file.
Cancelling == \E s \in Forced : stopPc[s] # "none"

QueueNotEmpty == given < Files

\* The file is over, the runner is kept for the next one; a cancelled pool has none.  So is a
\* runner that failed to start, which is started again ("restart").
Reuse ==
  /\ task = "settled" /\ QueueNotEmpty
  /\ state = "failed" => "restart" \in Failures
  /\ state # "stopped" /\ ~Cancelling
  /\ Use

\* `if (!resolver.isRejected) runner.request(...)`
Sends == startPc = "resolved" /\ ~rejected

\* start() has settled.
AfterStart ==
  /\ task = "starting" /\ startPc \in {"resolved", "rejected"}
  /\ startPc' = "none"
  /\ rejected' = (rejected \/ startPc = "rejected")
  /\ \/ Sends /\ Post("run") /\ task' = "running"
     \/ ~Sends /\ task' = "settled" /\ UNCHANGED <<toWorker, pipeError>>
  /\ UNCHANGED <<state, lock, terminated, stopPc, timedOut, exitListeners, attached, given,
                 proc, toRunner, workerVars, uncaught>>

-----------------------------------------------------------------------------
\* stop()

\* `_state` is STOPPED or STOPPING already.
AlreadyStopped == state \in {"stopped", "stopping"}

\* A call that does nothing: a cancelTask goes on to waitForTerminated().
Left(s) == IF s \in Forced THEN "waitTerminated" ELSE "returned"

\* After `await worker.stop()` has been called: an exit code is there at once, else the
\* 'exit' event is awaited, which a process killed by a signal has already emitted.
KillWorker == IF proc = "exited" THEN "exitSeen" ELSE "waitExit"

RemovedListeners == IF exitListeners > 0 THEN exitListeners - 1 ELSE 0

\* stop() once no lock is in its way.
StopEnters(s, force) ==
  \/ /\ AlreadyStopped
     /\ stopPc' = [stopPc EXCEPT ![s] = Left(s)]
     /\ UNCHANGED <<state, lock, exitListeners, attached, toWorker, pipeError>>
  \/ /\ ~AlreadyStopped
     /\ state' = "stopping" /\ lock' = "stop"
     /\ exitListeners' = RemovedListeners
     /\ \/ /\ force
           /\ stopPc' = [stopPc EXCEPT ![s] = KillWorker]
           /\ attached' = FALSE /\ UNCHANGED <<toWorker, pipeError>>
        \/ /\ ~force
           /\ stopPc' = [stopPc EXCEPT ![s] = "waitStopped"]
           /\ Post("stop") /\ UNCHANGED attached

CallStop(s, force) ==
  \/ /\ LockHeld
     /\ stopPc' = [stopPc EXCEPT ![s] = "lockWait"]
     /\ UNCHANGED <<state, lock, exitListeners, attached, toWorker, pipeError>>
  \/ ~LockHeld /\ StopEnters(s, force)

\* The lock is waited for once only.
StopAfterLock(s) ==
  /\ stopPc[s] = "lockWait" /\ ~LockHeld
  /\ StopEnters(s, s \in Forced)
  /\ UNCHANGED <<terminated, startPc, timedOut, task, rejected, given, proc, toRunner,
                 workerVars, uncaught>>

\* The last file is over: `runner.stop({ force: resolver.isRejected })`.
ForceAtEnd == rejected

EndOfTask ==
  /\ task = "settled"
  /\ task' = "over"
  /\ \/ /\ state = "stopped"
        /\ UNCHANGED <<state, lock, stopPc, exitListeners, attached, toWorker, pipeError>>
     \/ state # "stopped" /\ CallStop("end", ForceAtEnd)
  /\ UNCHANGED <<terminated, startPc, timedOut, rejected, given, proc, toRunner, workerVars, uncaught>>

\* A second CTRL+c while the file runs or its worker starts.
ForceCancel(s) ==
  /\ Quiescent
  /\ stopPc[s] = "none" /\ task \in {"starting", "running"}
  /\ CallStop(s, TRUE)
  /\ UNCHANGED <<terminated, startPc, timedOut, task, rejected, given, proc, toRunner,
                 workerVars, uncaught>>

\* `finally` of stop().
StopSettles(s) ==
  /\ state' = "stopped" /\ lock' = "none" /\ terminated' = TRUE
  /\ stopPc' = [stopPc EXCEPT ![s] = Left(s)]

StopEnds(s) ==
  /\ stopPc[s] = "exitSeen"
  /\ StopSettles(s)
  /\ UNCHANGED <<startPc, timedOut, exitListeners, taskVars, proc, channels, workerVars, uncaught>>

\* The worker never answers: stop() throws before it came to worker.stop().
StopTimeout(s) ==
  /\ Quiescent
  /\ "stopTimeout" \in Failures /\ stopPc[s] = "waitStopped"
  /\ StopSettles(s)
  /\ timedOut' = TRUE
  /\ UNCHANGED <<startPc, exitListeners, taskVars, proc, channels, workerVars, uncaught>>

\* cancelTask: the runner is terminated; the file is rejected.
CancelTaskEnds(s) ==
  /\ stopPc[s] = "waitTerminated" /\ terminated
  /\ stopPc' = [stopPc EXCEPT ![s] = "returned"]
  /\ rejected' = TRUE
  /\ task' = IF task = "running" THEN "settled" ELSE task
  /\ UNCHANGED <<state, lock, terminated, startPc, timedOut, exitListeners, attached, given,
                 proc, channels, workerVars, uncaught>>

-----------------------------------------------------------------------------
\* Events of the main process.

StartEnds ==
  /\ startPc \in {"ok", "failed"}
  /\ state' = IF startPc = "ok" THEN "started" ELSE "failed"
  /\ startPc' = IF startPc = "ok" THEN "resolved" ELSE "rejected"
  /\ lock' = "none"
  /\ UNCHANGED <<terminated, stopPc, timedOut, exitListeners, taskVars, proc, channels,
                 workerVars, uncaught>>

StartTimeout ==
  /\ Quiescent
  /\ "startTimeout" \in Failures /\ startPc = "waiting"
  /\ startPc' = "failed"
  /\ UNCHANGED <<state, lock, terminated, stopPc, timedOut, exitListeners, taskVars, proc,
                 channels, workerVars, uncaught>>

\* What the listeners of the runner do with a message of the worker.
OnStarted(m) ==
  /\ m \in {"started", "startError"}
  /\ startPc' = IF startPc # "waiting" THEN startPc ELSE IF m = "started" THEN "ok" ELSE "failed"
  /\ UNCHANGED <<stopPc, task, attached>>

OnFinished(m) ==
  /\ m = "finished"
  /\ attached' = FALSE
  /\ task' = IF attached /\ task = "running" THEN "settled" ELSE task
  /\ UNCHANGED <<startPc, stopPc>>

OnStopped(m) ==
  /\ m = "stopped"
  /\ stopPc' = [s \in StopCalls |-> IF stopPc[s] = "waitStopped" THEN KillWorker ELSE stopPc[s]]
  /\ attached' = FALSE
  /\ UNCHANGED <<startPc, task>>

Receive ==
  /\ Quiescent
  /\ toRunner # <<>>
  /\ toRunner' = Tail(toRunner)
  /\ LET m == Head(toRunner) IN OnStarted(m) \/ OnFinished(m) \/ OnStopped(m)
  /\ UNCHANGED <<state, lock, terminated, timedOut, exitListeners, rejected, given, proc,
                 toWorker, pipeError, workerVars, uncaught>>

\* "error" is emitted as often as its source has listeners.  The task and waitForStart
\* listen, and detach at the first; one that nobody hears is thrown.
EmitsError ==
  /\ startPc' = IF startPc = "waiting" THEN "failed" ELSE startPc
  /\ task' = IF attached /\ task = "running" THEN "settled" ELSE task
  /\ rejected' = (rejected \/ attached)
  /\ attached' = FALSE
  /\ uncaught' = (uncaught \/ ~(attached \/ startPc = "waiting") \/ exitListeners > 1)

Emits ==
  \/ exitListeners > 0 /\ EmitsError
  \/ exitListeners = 0 /\ UNCHANGED <<startPc, task, rejected, attached, uncaught>>

\* The process ends, by itself or because worker.stop() killed it; what it had sent may
\* still arrive, or not.  The 'exit' event ends the wait of worker.stop();
\* emitUnexpectedExit, where it is attached, marks the runner stopped.
Exit(how) ==
  /\ Quiescent
  /\ proc \in {"alive", "broken"}
  /\ how \in Failures \/ \E s \in StopCalls : stopPc[s] = "waitExit"
  /\ proc' = how
  /\ toWorker' = <<>>
  /\ \E n \in 0..Len(toRunner) : toRunner' = SubSeq(toRunner, 1, n)
  /\ stopPc' = [s \in StopCalls |-> IF stopPc[s] = "waitExit" THEN "exitSeen" ELSE stopPc[s]]
  /\ state' = IF exitListeners > 0 THEN "stopped" ELSE state
  /\ Emits
  /\ UNCHANGED <<lock, terminated, timedOut, exitListeners, given, pipeError, workerVars>>

\* A write into the channel fails while the process lives ...
ChannelBreaks ==
  /\ Quiescent
  /\ "broken" \in Failures /\ proc = "alive"
  /\ proc' = "broken" /\ pipeError' = TRUE
  /\ toWorker' = <<>>
  /\ \E n \in 0..Len(toRunner) : toRunner' = SubSeq(toRunner, 1, n)
  /\ UNCHANGED <<runnerVars, taskVars, workerVars, uncaught>>

\* ... and a second later it still does: emitWorkerError.
PipeErrorTimer ==
  /\ Quiescent
  /\ pipeError
  /\ pipeError' = FALSE
  /\ IF proc = "broken" THEN Emits ELSE UNCHANGED <<startPc, task, rejected, attached, uncaught>>
  /\ UNCHANGED <<state, lock, terminated, stopPc, timedOut, exitListeners, given, proc,
                 toWorker, toRunner, workerVars>>

-----------------------------------------------------------------------------
\* The worker process.  Its handlers are asynchronous: the next message is read while
\* an earlier one is still being worked on.

Answer(m) == toRunner' = Append(toRunner, m)

OnStart ==
  /\ setups' = setups + 1
  /\ UNCHANGED <<running, teardown, toRunner>>

\* "Worker is already running tests" is the answer to a second file.
OnRun ==
  /\ running' = TRUE
  /\ \/ running /\ Answer("finished")
     \/ ~running /\ UNCHANGED toRunner
  /\ UNCHANGED <<setups, teardown>>

\* `await runPromise`, then the environment is torn down.
OnStop ==
  /\ teardown' = IF running THEN "awaitsRun" ELSE "active"
  /\ UNCHANGED <<setups, running, toRunner>>

WorkerReads ==
  /\ proc = "alive" /\ toWorker # <<>>
  /\ toWorker' = Tail(toWorker)
  /\ \/ Head(toWorker) = "start" /\ OnStart
     \/ Head(toWorker) = "run" /\ OnRun
     \/ Head(toWorker) = "stop" /\ OnStop
  /\ UNCHANGED <<runnerVars, taskVars, proc, pipeError, uncaught>>

\* worker.setup has ended, well or not.
SetupEnds(m) ==
  /\ proc = "alive" /\ setups > 0
  /\ m = "startError" => m \in Failures
  /\ setups' = setups - 1
  /\ Answer(m)
  /\ UNCHANGED <<runnerVars, taskVars, proc, toWorker, pipeError, running, teardown, uncaught>>

\* `isRunning = false`
FileStillRuns == FALSE

FileEnds ==
  /\ proc = "alive" /\ running
  /\ running' = FileStillRuns
  /\ teardown' = IF teardown = "awaitsRun" THEN "active" ELSE teardown
  /\ Answer("finished")
  /\ UNCHANGED <<runnerVars, taskVars, proc, toWorker, pipeError, setups, uncaught>>

TeardownEnds ==
  /\ proc = "alive" /\ teardown = "active"
  /\ teardown' = "done"
  /\ Answer("stopped")
  /\ UNCHANGED <<runnerVars, taskVars, proc, toWorker, pipeError, setups, running, uncaught>>

-----------------------------------------------------------------------------
Resumed ==
  \/ StartEnds \/ AfterStart \/ Reuse \/ EndOfTask
  \/ \E s \in StopCalls : StopAfterLock(s) \/ StopEnds(s) \/ CancelTaskEnds(s)

Worker == WorkerReads \/ FileEnds \/ TeardownEnds \/ \E m \in {"started", "startError"} : SetupEnds(m)

Next ==
  \/ FirstUse \/ Resumed \/ Worker
  \/ Receive \/ StartTimeout
  \/ \E s \in Forced : ForceCancel(s)
  \/ \E s \in StopCalls : StopTimeout(s)
  \/ \E how \in {"exited", "killed"} : Exit(how)
  \/ ChannelBreaks \/ PipeErrorTimer

\* Promises resolve, messages arrive, a killed process ends; the worker works as long
\* as it lives (hooks and tests have timeouts) and the timers end what it leaves open.
\* No process has to die, no run has to be cancelled.
Spec ==
  /\ Init /\ [][Next]_vars
  /\ WF_vars(Resumed) /\ WF_vars(Receive) /\ WF_vars(Worker)
  /\ WF_vars(StartTimeout) /\ WF_vars(\E s \in StopCalls : StopTimeout(s)) /\ WF_vars(PipeErrorTimer)
  /\ WF_vars((\E s \in StopCalls : stopPc[s] = "waitExit") /\ Exit("killed"))

-----------------------------------------------------------------------------
Requests == {"start", "run", "stop"}
Responses == {"started", "startError", "finished", "stopped"}
Calls == {"none", "lockWait", "waitStopped", "waitExit", "exitSeen", "waitTerminated", "returned"}

RunnerTypes ==
  /\ state \in {"idle", "starting", "started", "failed", "stopping", "stopped"}
  /\ lock \in {"none", "start", "stop"}
  /\ terminated \in BOOLEAN /\ timedOut \in BOOLEAN
  /\ startPc \in {"none", "waiting", "ok", "failed", "resolved", "rejected"}
  /\ stopPc \in [StopCalls -> Calls]
  /\ exitListeners \in 0..Files

TaskTypes ==
  /\ task \in {"none", "starting", "running", "settled", "over"}
  /\ rejected \in BOOLEAN /\ attached \in BOOLEAN /\ uncaught \in BOOLEAN
  /\ given \in 0..Files

ChannelTypes ==
  /\ toWorker \in Seq(Requests) /\ toRunner \in Seq(Responses)
  /\ pipeError \in BOOLEAN

WorkerTypes ==
  /\ proc \in {"none", "alive", "broken", "exited", "killed"}
  /\ setups \in Nat
  /\ running \in BOOLEAN
  /\ teardown \in {"none", "awaitsRun", "active", "done"}

TypeOK == RunnerTypes /\ TaskTypes /\ ChannelTypes /\ WorkerTypes

\* start() and stop() exclude each other, and so do two calls of stop(), although a
\* waiting call waits for the lock only once: who holds the lock is the only one inside.
OneOperation ==
  /\ lock = "start" <=> startPc \in {"waiting", "ok", "failed"}
  /\ lock = "stop" <=> \E s \in StopCalls : Stopper(s)
  /\ \A s, t \in StopCalls : Stopper(s) /\ Stopper(t) => s = t

\* The handlers of the worker overlap, what they do does not: the environment is never
\* set up or torn down while a file runs, nor torn down while it is set up, and no file
\* is sent before the last one is done ("Worker is already running tests" is not answered).
WorkerDoesOneThing ==
  /\ running => setups = 0 /\ \A i \in DOMAIN toWorker : toWorker[i] # "run"
  /\ teardown = "active" => ~running /\ setups = 0

\* Whoever awaited the termination of the runner finds the process gone, unless the
\* worker never answered the request to stop.
TerminatedMeansGone == terminated /\ ~timedOut => proc \in {"exited", "killed"}

\* "Remove exit and error listeners early to avoid "unexpected exit" [...] errors during
\* shutdown" (poolRunner.ts): no error of the worker is emitted to nobody, which would
\* throw in an event handler of the main process.
NoUncaughtError == ~uncaught

\* Every stop(), and every cancelTask({ force: true }), returns.
StopReturns == \A s \in StopCalls : stopPc[s] # "none" ~> stopPc[s] = "returned"

\* The runner lives the life the pool relies on.  An exit during start() shows as
\* STOPPED for a moment, before the failed start makes it START_FAILURE.
Lifecycle == INSTANCE RunnerLifecycle
  WITH state <- IF startPc \in {"waiting", "ok", "failed"} THEN "starting" ELSE state
KeepsLifecycle == Lifecycle!Spec
=============================================================================
