---------------------------- MODULE WorkersProofs ----------------------------
(***************************************************************************)
(* Theorems about what runs the test files of a pool.                      *)
(*                                                                         *)
(* Part 1: PoolRunner, a process or thread, for every number of files and  *)
(* of forced cancels and every set of failures: the types, the exclusion   *)
(* of start() and stop(), what _terminatePromise means, and that the       *)
(* runner lives the life of RunnerLifecycle, which is what module Pool     *)
(* relies on.  Then a stronger invariant, of runners that are not started  *)
(* again after a failed start: at most one message of the protocol is      *)
(* under way, so the handlers of the worker do not meet, and every error   *)
(* has a listener.                                                         *)
(*                                                                         *)
(* Part 2: BrowserPool, the pages of browser instances, for every set of   *)
(* instances, of pages, of runs and of faults: the browsers stay within    *)
(* the workers of the run, and projects with isolation neither lose a file *)
(* of the run nor run one of another.  The invariant says of every worker  *)
(* where each file of the run is: in its queue, in one page, or ended.     *)
(***************************************************************************)
EXTENDS PoolRunner, BrowserPool, SequenceTheorems, FiniteSetTheorems, WellFoundedInduction, TLAPS

\* start() is inside its try block.
InStart == startPc \in {"waiting", "ok", "failed"}

\* Where schedule() is, against what it has called.
TaskInStep ==
  /\ task = "none" => given = 0 /\ proc = "none" /\ \A s \in StopCalls : stopPc[s] = "none"
  /\ task = "starting" <=> startPc # "none"
  /\ task # "over" => stopPc["end"] = "none"
  /\ exitListeners <= given

\* _state, against the operation under way.  A failed runner is never left alone: the
\* microtask that starts or stops it is pending.
StateInStep ==
  /\ InStart => state \in {"starting", "stopped"}
  /\ ~InStart => state # "starting"
  /\ lock = "stop" => state \in {"stopping", "stopped"}
  /\ state = "stopping" => lock = "stop"
  /\ state = "failed" => startPc = "rejected" \/ task = "settled"
  /\ state = "idle" <=> task = "none"

\* An observed exit is an exit.
GoneInStep ==
  /\ \A s \in StopCalls : stopPc[s] = "exitSeen" => proc \in {"exited", "killed"}
  /\ TerminatedMeansGone

\* The inductive invariant.
IInv == TypeOK /\ OneOperation /\ TaskInStep /\ StateInStep /\ GoneInStep

\* What a channel holds after a message was sent, read or lost.
LEMMA MessageTypes ==
  ASSUME NEW S, NEW q \in Seq(S)
  PROVE  /\ \A m \in S : Append(q, m) \in Seq(S)
         /\ q # <<>> => Head(q) \in S /\ Tail(q) \in Seq(S)
         /\ \A n \in 0..Len(q) : SubSeq(q, 1, n) \in Seq(S)
         /\ <<>> \in Seq(S)
  OBVIOUS

\* A request is appended to the channel, or lost.
LEMMA PostTypes ==
  ASSUME ChannelTypes, NEW m \in Requests, Post(m)
  PROVE  toWorker' \in Seq(Requests) /\ pipeError' \in BOOLEAN
  <1>1. toWorker' \in Seq(Requests) BY MessageTypes DEF ChannelTypes, Post
  <1>2. pipeError' \in BOOLEAN BY DEF ChannelTypes, Post
  <1> QED BY <1>1, <1>2

\* The first file starts the worker.
LEMMA FirstUseIInv == ASSUME IInv, FirstUse PROVE IInv'
  <1> USE RunnerAssumption DEF IInv, TypeOK, StopCalls, FirstUse, Use, CallStart,
        workerVars
  <1>1. RunnerTypes' BY DEF RunnerTypes, Calls, TaskTypes, TaskInStep
  <1>2. TaskTypes'
    <2>1. given' \in 0..Files BY DEF TaskTypes, TaskInStep
    <2>2. task' \in {"starting", "running"} OBVIOUS
    <2>3. rejected' \in BOOLEAN /\ attached' \in BOOLEAN /\ uncaught' \in BOOLEAN BY DEF TaskTypes
    <2> QED BY <2>1, <2>2, <2>3 DEF TaskTypes
  <1>3. ChannelTypes' BY PostTypes DEF ChannelTypes, Requests, Responses
  <1>4. WorkerTypes' BY DEF WorkerTypes
  <1>5. OneOperation' BY DEF OneOperation, Stopper, StopBody, TaskInStep
  <1>6. TaskInStep' BY DEF TaskInStep, RunnerTypes
  <1>7. StateInStep' BY DEF StateInStep, InStart
  <1>8. GoneInStep' BY DEF GoneInStep, TerminatedMeansGone
  <1> QED BY <1>1, <1>2, <1>3, <1>4, <1>5, <1>6, <1>7, <1>8

\* start() gives the lock back.
LEMMA StartEndsIInv == ASSUME IInv, StartEnds PROVE IInv'
  <1> USE RunnerAssumption DEF IInv, TypeOK, StopCalls, StartEnds, taskVars, workerVars,
        channels
  <1>1. RunnerTypes' BY DEF RunnerTypes
  <1>2. TaskTypes' BY DEF TaskTypes
  <1>3. ChannelTypes' BY MessageTypes DEF ChannelTypes, Requests, Responses
  <1>4. WorkerTypes' BY DEF WorkerTypes
  <1>5. OneOperation' BY DEF OneOperation, Stopper, StopBody
  <1>6. TaskInStep' BY DEF TaskInStep
  <1>7. StateInStep' BY DEF StateInStep, InStart
  <1>8. GoneInStep' BY DEF GoneInStep, TerminatedMeansGone
  <1> QED BY <1>1, <1>2, <1>3, <1>4, <1>5, <1>6, <1>7, <1>8

\* The file is sent, or it is over before it was.
LEMMA AfterStartIInv == ASSUME IInv, AfterStart PROVE IInv'
  <1> USE RunnerAssumption DEF IInv, TypeOK, StopCalls, AfterStart, Sends, workerVars
  <1>1. RunnerTypes' BY DEF RunnerTypes
  <1>2. TaskTypes' BY DEF TaskTypes
  <1>3. ChannelTypes' BY PostTypes DEF ChannelTypes, Requests, Responses
  <1>4. WorkerTypes' BY DEF WorkerTypes
  <1>5. OneOperation' BY DEF OneOperation, Stopper, StopBody
  <1>6. TaskInStep' BY DEF TaskInStep
  <1>7. StateInStep' BY DEF StateInStep, InStart
  <1>8. GoneInStep' BY DEF GoneInStep, TerminatedMeansGone
  <1> QED BY <1>1, <1>2, <1>3, <1>4, <1>5, <1>6, <1>7, <1>8

\* Nobody stops a runner that schedule() keeps, so a start finds no operation under way.
LEMMA ReuseIInv == ASSUME IInv, Reuse PROVE IInv'
  <1> USE RunnerAssumption DEF IInv, TypeOK, StopCalls, Reuse, Use, CallStart,
        QueueNotEmpty, Cancelling, workerVars
  <1>1. RunnerTypes' BY DEF RunnerTypes, Calls, TaskTypes, TaskInStep
  <1>2. TaskTypes'
    <2>1. given' \in 0..Files BY DEF TaskTypes, TaskInStep
    <2>2. task' \in {"starting", "running"} OBVIOUS
    <2>3. rejected' \in BOOLEAN /\ attached' \in BOOLEAN /\ uncaught' \in BOOLEAN BY DEF TaskTypes
    <2> QED BY <2>1, <2>2, <2>3 DEF TaskTypes
  <1>3. ChannelTypes' BY PostTypes DEF ChannelTypes, Requests, Responses
  <1>4. WorkerTypes' BY DEF WorkerTypes
  <1>5. OneOperation' BY DEF OneOperation, Stopper, StopBody, TaskInStep
  <1>6. TaskInStep' BY DEF TaskInStep, RunnerTypes, TaskTypes
  <1>7. StateInStep' BY DEF StateInStep, InStart
  <1>8. GoneInStep' BY DEF GoneInStep, TerminatedMeansGone
  <1> QED BY <1>1, <1>2, <1>3, <1>4, <1>5, <1>6, <1>7, <1>8

\* schedule() stops the runner once.
LEMMA EndOfTaskIInv == ASSUME IInv, EndOfTask PROVE IInv'
  <1> USE RunnerAssumption DEF IInv, TypeOK, StopCalls, EndOfTask, CallStop, StopEnters,
        LockHeld, AlreadyStopped, Left, KillWorker, RemovedListeners, ForceAtEnd,
        workerVars
  <1>1. RunnerTypes' BY DEF RunnerTypes, Calls
  <1>2. TaskTypes' BY DEF TaskTypes
  <1>3. ChannelTypes' BY PostTypes DEF ChannelTypes, Requests, Responses
  <1>4. WorkerTypes' BY DEF WorkerTypes
  <1>5. OneOperation' BY DEF OneOperation, Stopper, StopBody, TaskInStep, RunnerTypes
  <1>6. TaskInStep' BY DEF TaskInStep, RunnerTypes, TaskTypes
  <1>7. StateInStep' BY DEF StateInStep, InStart, OneOperation, TaskInStep, RunnerTypes
  <1>8. GoneInStep' BY DEF GoneInStep, TerminatedMeansGone, RunnerTypes
  <1> QED BY <1>1, <1>2, <1>3, <1>4, <1>5, <1>6, <1>7, <1>8

\* The lock is free: the call is the only one that enters.
LEMMA StopAfterLockIInv == ASSUME IInv, NEW s \in StopCalls, StopAfterLock(s) PROVE IInv'
  <1> USE RunnerAssumption DEF IInv, TypeOK, StopCalls, StopAfterLock, StopEnters,
        LockHeld, AlreadyStopped, Left, KillWorker, RemovedListeners, workerVars
  <1>1. RunnerTypes' BY DEF RunnerTypes, Calls
  <1>2. TaskTypes' BY DEF TaskTypes
  <1>3. ChannelTypes' BY PostTypes DEF ChannelTypes, Requests, Responses
  <1>4. WorkerTypes' BY DEF WorkerTypes
  <1>5. OneOperation' BY DEF OneOperation, Stopper, StopBody, RunnerTypes
  <1>6. TaskInStep' BY DEF TaskInStep, RunnerTypes, TaskTypes
  <1>7. StateInStep' BY DEF StateInStep, InStart, OneOperation, TaskInStep
  <1>8. GoneInStep' BY DEF GoneInStep, TerminatedMeansGone, RunnerTypes
  <1> QED BY <1>1, <1>2, <1>3, <1>4, <1>5, <1>6, <1>7, <1>8

\* `finally` of stop(): the call that held the lock gives it back.
LEMMA StopEndsIInv == ASSUME IInv, NEW s \in StopCalls, StopEnds(s) PROVE IInv'
  <1> USE RunnerAssumption DEF IInv, TypeOK, StopCalls, StopEnds, StopSettles, Left,
        taskVars, workerVars, channels
  <1>1. RunnerTypes' BY DEF RunnerTypes, Calls
  <1>2. TaskTypes' BY DEF TaskTypes
  <1>3. ChannelTypes' BY MessageTypes DEF ChannelTypes, Requests, Responses
  <1>4. WorkerTypes' BY DEF WorkerTypes
  <1>5. OneOperation' BY DEF OneOperation, Stopper, StopBody, RunnerTypes
  <1>6. TaskInStep' BY DEF TaskInStep
  <1>7. StateInStep' BY DEF StateInStep, InStart, OneOperation, TaskInStep
  <1>8. GoneInStep' BY DEF GoneInStep, TerminatedMeansGone
  <1> QED BY <1>1, <1>2, <1>3, <1>4, <1>5, <1>6, <1>7, <1>8

\* waitForTerminated() is over: cancelTask rejects the file, and touches nothing else.
LEMMA CancelTaskEndsIInv == ASSUME IInv, NEW s \in StopCalls, CancelTaskEnds(s) PROVE IInv'
  <1> USE RunnerAssumption DEF IInv, TypeOK, StopCalls, CancelTaskEnds, workerVars,
        channels
  <1>1. RunnerTypes' BY DEF RunnerTypes, Calls
  <1>2. TaskTypes' BY DEF TaskTypes
  <1>3. ChannelTypes' BY MessageTypes DEF ChannelTypes, Requests, Responses
  <1>4. WorkerTypes' BY DEF WorkerTypes
  <1>5. OneOperation' BY DEF OneOperation, Stopper, StopBody
  <1>6. TaskInStep' BY DEF TaskInStep
  <1>7. StateInStep' BY DEF StateInStep, InStart
  <1>8. GoneInStep' BY DEF GoneInStep, TerminatedMeansGone
  <1> QED BY <1>1, <1>2, <1>3, <1>4, <1>5, <1>6, <1>7, <1>8

\* The worker takes a request and may answer it.
LEMMA ReadsTypes ==
  ASSUME IInv, WorkerReads PROVE toWorker' \in Seq(Requests) /\ toRunner' \in Seq(Responses)
  <1>1. toWorker # <<>> /\ toWorker \in Seq(Requests) /\ toRunner \in Seq(Responses)
    BY DEF IInv, TypeOK, ChannelTypes, WorkerReads
  <1>2. toWorker' = Tail(toWorker) BY DEF WorkerReads
  <1>3. toRunner' = toRunner \/ toRunner' = Append(toRunner, "finished")
    BY DEF WorkerReads, OnStart, OnRun, OnStop, Answer
  <1>4. toWorker' \in Seq(Requests) BY <1>1, <1>2
  <1>5. "finished" \in Responses BY DEF Responses
  <1> QED BY <1>1, <1>3, <1>4, <1>5

\* The worker touches only its own state and the channels.
LEMMA WorkerIInv == ASSUME IInv, Worker PROVE IInv'
  <1>0. RunnerTypes /\ UNCHANGED runnerVars
    BY DEF IInv, TypeOK, Worker, WorkerReads, FileEnds, TeardownEnds, SetupEnds
  <1>1. RunnerTypes' BY <1>0 DEF RunnerTypes, runnerVars
  <1> USE RunnerAssumption DEF IInv, TypeOK, StopCalls, Worker, WorkerReads, OnStart,
        OnRun, OnStop, FileEnds, FileStillRuns, TeardownEnds, SetupEnds, Answer,
        runnerVars, taskVars
  <1>2. TaskTypes' BY DEF TaskTypes
  <1>3. ChannelTypes' /\ WorkerTypes'
    <2>1. CASE WorkerReads
      <3>1. toWorker' \in Seq(Requests) /\ toRunner' \in Seq(Responses)
        BY <2>1, ReadsTypes
      <3>2. setups' \in Nat BY <2>1 DEF WorkerTypes
      <3>4. running' \in BOOLEAN BY <2>1 DEF WorkerTypes
      <3>3. teardown' \in {"none", "awaitsRun", "active", "done"} BY <2>1 DEF WorkerTypes
      <3> QED BY <2>1, <3>1, <3>2, <3>3, <3>4 DEF ChannelTypes, WorkerTypes
    <2>2. CASE FileEnds
      BY <2>2, MessageTypes DEF ChannelTypes, WorkerTypes, Responses
    <2>3. CASE TeardownEnds
      BY <2>3, MessageTypes DEF ChannelTypes, WorkerTypes, Responses
    <2>4. ASSUME NEW m \in {"started", "startError"}, SetupEnds(m)
          PROVE  ChannelTypes' /\ WorkerTypes'
      BY <2>4, MessageTypes DEF ChannelTypes, WorkerTypes, Responses
    <2> QED BY <2>1, <2>2, <2>3, <2>4
  <1>5. OneOperation' BY DEF OneOperation, Stopper, StopBody
  <1>6. TaskInStep' BY DEF TaskInStep
  <1>7. StateInStep' BY DEF StateInStep, InStart
  <1>8. GoneInStep' BY DEF GoneInStep, TerminatedMeansGone
  <1> QED BY <1>1, <1>2, <1>3, <1>5, <1>6, <1>7, <1>8

\* A message of the worker moves start(), a stop() or the file on, each inside its own call.
LEMMA ReceiveIInv == ASSUME IInv, Receive PROVE IInv'
  <1> USE RunnerAssumption DEF IInv, TypeOK, StopCalls, Receive, OnStarted, OnFinished,
        OnStopped, KillWorker, Quiescent, workerVars
  <1>1. RunnerTypes' BY DEF RunnerTypes, Calls
  <1>2. TaskTypes' BY DEF TaskTypes
  <1>3. ChannelTypes' BY MessageTypes DEF ChannelTypes, Requests, Responses
  <1>4. WorkerTypes' BY DEF WorkerTypes
  <1>5. OneOperation' BY DEF OneOperation, Stopper, StopBody
  <1>6. TaskInStep' BY DEF TaskInStep
  <1>7. StateInStep' BY DEF StateInStep, InStart
  <1>8. GoneInStep' BY DEF GoneInStep, TerminatedMeansGone
  <1> QED BY <1>1, <1>2, <1>3, <1>4, <1>5, <1>6, <1>7, <1>8

\* START_TIMEOUT ends the wait of start(), which keeps the lock until its finally block.
LEMMA StartTimeoutIInv == ASSUME IInv, StartTimeout PROVE IInv'
  <1> USE RunnerAssumption DEF IInv, TypeOK, StopCalls, StartTimeout, taskVars,
        workerVars, channels
  <1>1. RunnerTypes' BY DEF RunnerTypes
  <1>2. TaskTypes' BY DEF TaskTypes
  <1>3. ChannelTypes' BY MessageTypes DEF ChannelTypes, Requests, Responses
  <1>4. WorkerTypes' BY DEF WorkerTypes
  <1>5. OneOperation' BY DEF OneOperation, Stopper, StopBody
  <1>6. TaskInStep' BY DEF TaskInStep
  <1>7. StateInStep' BY DEF StateInStep, InStart
  <1>8. GoneInStep' BY DEF GoneInStep, TerminatedMeansGone
  <1> QED BY <1>1, <1>2, <1>3, <1>4, <1>5, <1>6, <1>7, <1>8

\* A forced stop() enters a runner nobody operates on, or queues behind the lock.
LEMMA ForceCancelIInv == ASSUME IInv, NEW s \in Forced, ForceCancel(s) PROVE IInv'
  <1> USE RunnerAssumption DEF IInv, TypeOK, StopCalls, ForceCancel, CallStop, StopEnters,
        LockHeld, AlreadyStopped, Left, KillWorker, RemovedListeners, Quiescent,
        workerVars
  <1>1. RunnerTypes' BY DEF RunnerTypes, Calls
  <1>2. TaskTypes' BY DEF TaskTypes
  <1>3. ChannelTypes' BY PostTypes DEF ChannelTypes, Requests, Responses
  <1>4. WorkerTypes' BY DEF WorkerTypes
  <1>5. OneOperation' BY DEF OneOperation, Stopper, StopBody, RunnerTypes
  <1>6. TaskInStep' BY DEF TaskInStep, RunnerTypes, TaskTypes
  <1>7. StateInStep' BY DEF StateInStep, InStart, OneOperation
  <1>8. GoneInStep' BY DEF GoneInStep, TerminatedMeansGone, RunnerTypes
  <1> QED BY <1>1, <1>2, <1>3, <1>4, <1>5, <1>6, <1>7, <1>8

\* STOP_TIMEOUT settles the stop() that waits, and says so in timedOut.
LEMMA StopTimeoutIInv == ASSUME IInv, NEW s \in StopCalls, StopTimeout(s) PROVE IInv'
  <1> USE RunnerAssumption DEF IInv, TypeOK, StopCalls, StopTimeout, StopSettles, Left,
        taskVars, workerVars, channels
  <1>1. RunnerTypes' BY DEF RunnerTypes, Calls
  <1>2. TaskTypes' BY DEF TaskTypes
  <1>3. ChannelTypes' BY MessageTypes DEF ChannelTypes, Requests, Responses
  <1>4. WorkerTypes' BY DEF WorkerTypes
  <1>5. OneOperation' BY DEF OneOperation, Stopper, StopBody, RunnerTypes
  <1>6. TaskInStep' BY DEF TaskInStep
  <1>7. StateInStep' BY DEF StateInStep, InStart, OneOperation, TaskInStep
  <1>8. GoneInStep' BY DEF GoneInStep, TerminatedMeansGone
  <1> QED BY <1>1, <1>2, <1>3, <1>4, <1>5, <1>6, <1>7, <1>8

\* A runner is never found failed by an event: schedule() goes on at once.
LEMMA ExitIInv == ASSUME IInv, NEW how \in {"exited", "killed"}, Exit(how) PROVE IInv'
  <1> USE RunnerAssumption DEF IInv, TypeOK, StopCalls, Exit, Emits, EmitsError,
        Quiescent, workerVars
  <1>1. RunnerTypes' BY DEF RunnerTypes, Calls
  <1>2. TaskTypes' BY DEF TaskTypes
  <1>3. ChannelTypes' BY MessageTypes DEF ChannelTypes, Requests, Responses
  <1>4. WorkerTypes' BY DEF WorkerTypes
  <1>5. OneOperation' BY DEF OneOperation, Stopper, StopBody
  <1>6. TaskInStep' BY DEF TaskInStep
  <1>7. StateInStep' BY DEF StateInStep, InStart, OneOperation, TaskInStep
  <1>8. GoneInStep' BY DEF GoneInStep, TerminatedMeansGone
  <1> QED BY <1>1, <1>2, <1>3, <1>4, <1>5, <1>6, <1>7, <1>8

\* A broken channel loses messages; the process and the operations stay as they are.
LEMMA ChannelBreaksIInv == ASSUME IInv, ChannelBreaks PROVE IInv'
  <1> USE RunnerAssumption DEF IInv, TypeOK, StopCalls, ChannelBreaks, runnerVars,
        taskVars, workerVars
  <1>1. RunnerTypes' BY DEF RunnerTypes
  <1>2. TaskTypes' BY DEF TaskTypes
  <1>3. ChannelTypes' BY MessageTypes DEF ChannelTypes, Requests, Responses
  <1>4. WorkerTypes' BY DEF WorkerTypes
  <1>5. OneOperation' BY DEF OneOperation, Stopper, StopBody
  <1>6. TaskInStep' BY DEF TaskInStep
  <1>7. StateInStep' BY DEF StateInStep, InStart
  <1>8. GoneInStep' BY DEF GoneInStep, TerminatedMeansGone
  <1> QED BY <1>1, <1>2, <1>3, <1>4, <1>5, <1>6, <1>7, <1>8

\* The held error is reported: it may fail a start() that waits and a file that runs.
LEMMA PipeErrorTimerIInv == ASSUME IInv, PipeErrorTimer PROVE IInv'
  <1> USE RunnerAssumption DEF IInv, TypeOK, StopCalls, PipeErrorTimer, Emits, EmitsError,
        workerVars
  <1>1. RunnerTypes' BY DEF RunnerTypes
  <1>2. TaskTypes' BY DEF TaskTypes
  <1>3. ChannelTypes' BY MessageTypes DEF ChannelTypes, Requests, Responses
  <1>4. WorkerTypes' BY DEF WorkerTypes
  <1>5. OneOperation' BY DEF OneOperation, Stopper, StopBody
  <1>6. TaskInStep' BY DEF TaskInStep
  <1>7. StateInStep' BY DEF StateInStep, InStart
  <1>8. GoneInStep' BY DEF GoneInStep, TerminatedMeansGone
  <1> QED BY <1>1, <1>2, <1>3, <1>4, <1>5, <1>6, <1>7, <1>8

-----------------------------------------------------------------------------
\* A runner that was never used has no operation, no process and no listener.
LEMMA InitIInv == Init => IInv
  <1> SUFFICES ASSUME Init PROVE IInv OBVIOUS
  <1> USE RunnerAssumption DEF Init
  <1>1. RunnerTypes
    <2>1. exitListeners \in 0..Files /\ stopPc \in [StopCalls -> Calls] BY DEF Calls
    <2> QED BY <2>1, Zenon DEF RunnerTypes
  <1>2. TaskTypes
    <2>1. given \in 0..Files OBVIOUS
    <2> QED BY <2>1, Zenon DEF TaskTypes
  <1>3. ChannelTypes
    <2>1. toWorker \in Seq(Requests) /\ toRunner \in Seq(Responses) OBVIOUS
    <2> QED BY <2>1, Zenon DEF ChannelTypes
  <1>4. WorkerTypes BY DEF WorkerTypes
  <1>5. OneOperation BY DEF OneOperation, Stopper, StopBody
  <1>6. TaskInStep /\ StateInStep /\ GoneInStep
    BY DEF TaskInStep, StateInStep, InStart, GoneInStep, TerminatedMeansGone, StopCalls
  <1> QED BY <1>1, <1>2, <1>3, <1>4, <1>5, <1>6 DEF IInv, TypeOK

\* The invariant speaks of the variables only.
LEMMA StutterIInv == ASSUME IInv, UNCHANGED vars PROVE IInv'
  BY DEF IInv, vars, runnerVars, taskVars, workerVars, channels, TypeOK, RunnerTypes, TaskTypes,
         ChannelTypes, WorkerTypes, OneOperation, Stopper, StopBody, TaskInStep, StateInStep,
         InStart, GoneInStep, TerminatedMeansGone

\* Every step of the runner, of its worker and of the pool that uses it preserves the invariant.
LEMMA NextIInv == IInv /\ [Next]_vars => IInv'
  <1> SUFFICES ASSUME IInv, Next PROVE IInv' BY StutterIInv
  <1>1. CASE Resumed
    BY <1>1, StartEndsIInv, AfterStartIInv, ReuseIInv, EndOfTaskIInv, StopAfterLockIInv,
       StopEndsIInv, CancelTaskEndsIInv DEF Resumed
  <1>2. CASE FirstUse \/ Worker \/ Receive \/ StartTimeout
    BY <1>2, FirstUseIInv, WorkerIInv, ReceiveIInv, StartTimeoutIInv
  <1>3. CASE (\E s \in Forced : ForceCancel(s)) \/ (\E s \in StopCalls : StopTimeout(s))
    BY <1>3, ForceCancelIInv, StopTimeoutIInv
  <1>4. CASE (\E how \in {"exited", "killed"} : Exit(how)) \/ ChannelBreaks \/ PipeErrorTimer
    BY <1>4, ExitIInv, ChannelBreaksIInv, PipeErrorTimerIInv
  <1> QED BY <1>1, <1>2, <1>3, <1>4 DEF Next

\* The inductive invariant holds in every behaviour: what the operation lock, _state, the
\* calls of start() and stop() and the schedule() call say of each other never disagrees.
THEOREM RunnerInv == Spec => []IInv
  BY InitIInv, NextIInv, PTL DEF Spec

\* Type correctness, with the bound on the listeners that piles up over restarts.
THEOREM RunnerTypeOK == Spec => []TypeOK
  <1>1. IInv => TypeOK BY DEF IInv
  <1> QED BY <1>1, RunnerInv, PTL

\* start() and stop() exclude each other, and so do the calls of stop(), for every number
\* of files and of forced cancels and whatever fails (poolRunner.ts, _operationLock).
THEOREM RunnerOneOperation == Spec => []OneOperation
  <1>1. IInv => OneOperation BY DEF IInv
  <1> QED BY <1>1, RunnerInv, PTL

\* When _terminatePromise is resolved the process is gone, unless the worker never answered.
THEOREM RunnerTerminatedMeansGone == Spec => []TerminatedMeansGone
  <1>1. IInv => TerminatedMeansGone BY DEF IInv, GoneInStep
  <1> QED BY <1>1, RunnerInv, PTL

-----------------------------------------------------------------------------
\* The state the pool sees.
seen == IF InStart THEN "starting" ELSE state

\* A file given to the runner starts it, from idle or after a failed start, or sends only.
LEMMA UseLives == ASSUME IInv, FirstUse \/ Reuse PROVE Lifecycle!Start \/ UNCHANGED seen
  <1>1. CASE FirstUse
    BY <1>1 DEF IInv, TaskInStep, StateInStep, InStart, FirstUse, Use, CallStart, seen,
                Lifecycle!Start, Lifecycle!Idle, Lifecycle!StartFailure, Lifecycle!Starting
  <1>2. CASE Reuse
    <2>1. ~InStart /\ ~\E s \in StopCalls : Stopper(s)
      BY <1>2 DEF IInv, TaskInStep, InStart, Reuse, Cancelling, Stopper, StopBody, StopCalls
    <2>2. state \in {"failed", "started"}
      BY <1>2, <2>1 DEF IInv, TypeOK, RunnerTypes, StateInStep, OneOperation, Reuse
    <2> QED BY <1>2, <2>1, <2>2 DEF Reuse, Use, CallStart, seen, InStart,
                Lifecycle!Start, Lifecycle!Idle, Lifecycle!StartFailure, Lifecycle!Starting
  <1> QED BY <1>1, <1>2

\* The end of start() is the end of a start: started, or failed.
LEMMA StartEndsLives == ASSUME IInv, StartEnds PROVE Lifecycle!StartSettles
  BY DEF StartEnds, seen, InStart, Lifecycle!StartSettles, Lifecycle!Starting,
         Lifecycle!Started, Lifecycle!StartFailure

\* A stop() that finds the lock free begins to stop a live runner, or does nothing.
LEMMA StopLives ==
  ASSUME IInv, NEW s \in StopCalls, NEW force \in BOOLEAN, ~LockHeld, task # "none",
         StopEnters(s, force), UNCHANGED startPc
  PROVE  Lifecycle!Stop \/ UNCHANGED seen
  <1>1. seen = state /\ ~InStart /\ state \in {"started", "failed", "stopping", "stopped"}
    BY DEF IInv, TypeOK, RunnerTypes, StateInStep, InStart, OneOperation, LockHeld, seen
  <1> QED BY <1>1
        DEF StopEnters, AlreadyStopped, seen, InStart, Lifecycle!Stop, Lifecycle!Started,
            Lifecycle!StartFailure, Lifecycle!Stopping

\* A stop() that finds the lock held changes nothing that can be seen.
LEMMA CallStopLives ==
  ASSUME IInv, NEW s \in StopCalls, NEW force \in BOOLEAN, task # "none",
         CallStop(s, force), UNCHANGED startPc
  PROVE  Lifecycle!Stop \/ UNCHANGED seen
  BY StopLives DEF CallStop, seen, InStart

\* The end of stop() is the end of a stop.
LEMMA StopSettlesLives ==
  ASSUME IInv, NEW s \in StopCalls, Stopper(s), StopSettles(s), UNCHANGED startPc
  PROVE  Lifecycle!StopSettles \/ UNCHANGED seen
  <1>1. ~InStart /\ state \in {"stopping", "stopped"}
    BY DEF IInv, OneOperation, StateInStep, InStart
  <1> QED BY <1>1
        DEF StopSettles, seen, InStart, Lifecycle!StopSettles, Lifecycle!Stopping, Lifecycle!Stopped

\* An exit stops a runner that is started or stopping; during a start it is not seen.
LEMMA ExitLives ==
  ASSUME IInv, NEW how \in {"exited", "killed"}, Exit(how)
  PROVE  Lifecycle!Crash \/ Lifecycle!StopSettles \/ UNCHANGED seen
  <1>1. InStart' <=> InStart
    BY DEF Exit, Emits, EmitsError, InStart
  <1>2. CASE InStart
    BY <1>1, <1>2 DEF seen
  <1>3. CASE ~InStart
    <2>1. state \in {"started", "stopping", "stopped"}
      BY <1>3 DEF IInv, TypeOK, RunnerTypes, TaskInStep, StateInStep, Exit, Quiescent, InStart
    <2>2. state' = "stopped" \/ state' = state BY DEF Exit
    <2> QED BY <1>1, <1>3, <2>1, <2>2
          DEF seen, InStart, Lifecycle!Crash, Lifecycle!StopSettles, Lifecycle!Started,
              Lifecycle!Stopping, Lifecycle!Stopped
  <1> QED BY <1>2, <1>3

\* Every step of the runner is one step of its life, or none.
LEMMA NextLives == ASSUME IInv, Next PROVE Lifecycle!Next \/ UNCHANGED seen
  <1> USE DEF Lifecycle!Next
  <1>1. CASE FirstUse \/ Reuse BY <1>1, UseLives
  <1>2. CASE StartEnds BY <1>2, StartEndsLives
  <1>3. CASE EndOfTask
    <2>1. CASE state = "stopped" /\ UNCHANGED state
      BY <1>3, <2>1 DEF EndOfTask, seen, InStart
    <2>2. CASE CallStop("end", ForceAtEnd)
      <3>1. ForceAtEnd \in BOOLEAN BY DEF IInv, TypeOK, TaskTypes, ForceAtEnd
      <3> QED BY <1>3, <2>2, <3>1, CallStopLives DEF EndOfTask, StopCalls
    <2> QED BY <1>3, <2>1, <2>2 DEF EndOfTask
  <1>4. ASSUME NEW s \in StopCalls, StopAfterLock(s) PROVE Lifecycle!Next \/ UNCHANGED seen
    <2>1. task # "none" BY <1>4 DEF StopAfterLock, IInv, TaskInStep
    <2>2. (s \in Forced) \in BOOLEAN OBVIOUS
    <2>3. ~LockHeld /\ StopEnters(s, s \in Forced) /\ UNCHANGED startPc BY <1>4 DEF StopAfterLock
    <2> QED BY <2>1, <2>2, <2>3, StopLives
  <1>5. ASSUME NEW s \in Forced, ForceCancel(s) PROVE Lifecycle!Next \/ UNCHANGED seen
    BY <1>5, CallStopLives DEF ForceCancel, StopCalls
  <1>6. ASSUME NEW s \in StopCalls, StopEnds(s) \/ StopTimeout(s)
        PROVE  Lifecycle!Next \/ UNCHANGED seen
    BY <1>6, StopSettlesLives DEF StopEnds, StopTimeout, Stopper, StopBody
  <1>7. ASSUME NEW how \in {"exited", "killed"}, Exit(how) PROVE Lifecycle!Next \/ UNCHANGED seen
    BY <1>7, ExitLives
  <1>8. CASE AfterStart \/ StartTimeout \/ Receive \/ PipeErrorTimer
    BY <1>8 DEF AfterStart, StartTimeout, Receive, OnStarted, OnFinished, OnStopped,
                PipeErrorTimer, Emits, EmitsError, seen, InStart
  <1>9. CASE Worker \/ ChannelBreaks \/ \E s \in StopCalls : CancelTaskEnds(s)
    BY <1>9 DEF Worker, WorkerReads, FileEnds, TeardownEnds, SetupEnds, ChannelBreaks,
                CancelTaskEnds, runnerVars, seen, InStart
  <1> QED BY <1>1, <1>2, <1>3, <1>4, <1>5, <1>6, <1>7, <1>8, <1>9 DEF Next, Resumed

\* The runner implements the life the pool relies on: a stopped runner stays stopped, and
\* only a runner that failed is started again.
THEOREM RunnerKeepsLifecycle == Spec => KeepsLifecycle
  <1>1. Init => Lifecycle!Init
    BY DEF Init, Lifecycle!Init, Lifecycle!Idle
  <1>2. IInv /\ [Next]_vars
          => [Lifecycle!Next]_(IF startPc \in {"waiting", "ok", "failed"} THEN "starting" ELSE state)
    <2>1. UNCHANGED vars => UNCHANGED seen BY DEF vars, runnerVars, seen, InStart
    <2> QED BY <2>1, NextLives DEF seen, InStart
  <1> QED BY <1>1, <1>2, RunnerInv, PTL DEF Spec, KeepsLifecycle, Lifecycle!Spec

-----------------------------------------------------------------------------
\* The same runner, when one that failed to start is not given another file.

\* What is under way between the two processes: a message, or the work on one.
Busy == (IF running THEN 1 ELSE 0) + (IF teardown = "active" THEN 1 ELSE 0)
Exchanges == Len(toWorker) + Len(toRunner) + setups + Busy

\* At most one thing is, and nothing before schedule() gives the runner the next file or
\* asks it to stop.  What a dead or broken process left undone stays as it was.
OneExchange ==
  /\ Exchanges <= 1
  /\ teardown # "awaitsRun"
  /\ proc \notin {"none", "alive"} => toWorker = <<>>
  /\ task = "none" => Exchanges = 0
  /\ proc = "none" => task = "none"
  /\ startPc \in {"ok", "resolved"} /\ proc = "alive" => Exchanges = 0
  /\ startPc = "rejected" => state = "failed" \/ Cancelling
  /\ task = "starting" /\ rejected => Cancelling \/ startPc \in {"failed", "rejected"}
  /\ task = "running" => ~rejected
  /\ task = "settled" /\ ~rejected /\ proc = "alive" => Exchanges = 0
  /\ task = "settled" /\ rejected /\ proc = "alive" => Cancelling \/ state = "failed"
  /\ stopPc["end"] = "lockWait" => state \in {"stopping", "stopped"}

\* What it is about fits what schedule() has asked for so far.
ExchangeFits ==
  /\ task \in {"none", "starting"} =>
       /\ \A i \in DOMAIN toWorker : toWorker[i] = "start"
       /\ \A i \in DOMAIN toRunner : toRunner[i] \in {"started", "startError"}
       /\ ~running
  /\ task # "over" =>
       /\ \A i \in DOMAIN toWorker : toWorker[i] # "stop"
       /\ \A i \in DOMAIN toRunner : toRunner[i] # "stopped"
       /\ teardown = "none"

\* A process that may still fail has one listener, and whoever uses the runner listens too.
SomebodyListens ==
  /\ exitListeners <= 1
  /\ exitListeners > 0 /\ proc \in {"alive", "broken"} =>
       /\ state \notin {"stopping", "stopped"}
       /\ task \in {"starting", "running", "settled"}
       /\ task = "running" => attached
       /\ task = "starting" /\ ~rejected => attached
  /\ NoUncaughtError

IInvOnce == OneExchange /\ ExchangeFits /\ SomebodyListens

\* Four counts that add up to one at most.
LEMMA AtMostOne ==
  ASSUME NEW a \in Nat, NEW b \in Nat, NEW c \in Nat, NEW d \in Nat
  PROVE  /\ a + b + c + d \in Nat
         /\ a + b + c + d = 0 => a = 0 /\ b = 0 /\ c = 0 /\ d = 0
         /\ a + b + c + d <= 1 /\ a >= 1 => a = 1 /\ b = 0 /\ c = 0 /\ d = 0
         /\ a + b + c + d <= 1 /\ b >= 1 => a = 0 /\ b = 1 /\ c = 0 /\ d = 0
         /\ a + b + c + d <= 1 /\ c >= 1 => a = 0 /\ b = 0 /\ c = 1 /\ d = 0
         /\ a + b + c + d <= 1 /\ d >= 1 => a = 0 /\ b = 0 /\ c = 0 /\ d = 1
  OBVIOUS

\* What is under way is counted, and each kind of it at most once.
LEMMA ExchangesAre ==
  ASSUME TypeOK
  PROVE  /\ Len(toWorker) \in Nat /\ Len(toRunner) \in Nat /\ setups \in Nat /\ Busy \in 0..2
         /\ Exchanges \in Nat
         /\ Exchanges = 0 => toWorker = <<>> /\ toRunner = <<>> /\ setups = 0 /\ ~running /\ teardown # "active"
         /\ Exchanges <= 1 /\ toWorker # <<>> => Len(toWorker) = 1 /\ Len(toRunner) = 0 /\ setups = 0 /\ Busy = 0
         /\ Exchanges <= 1 /\ toRunner # <<>> => Len(toWorker) = 0 /\ Len(toRunner) = 1 /\ setups = 0 /\ Busy = 0
         /\ running => Busy >= 1
         /\ teardown = "active" => Busy >= 1
         /\ Busy = 0 => ~running /\ teardown # "active"
  <1>1. Len(toWorker) \in Nat /\ Len(toRunner) \in Nat /\ setups \in Nat /\ running \in BOOLEAN
    BY DEF TypeOK, ChannelTypes, WorkerTypes
  <1>2. (toWorker # <<>> => Len(toWorker) >= 1) /\ (toRunner # <<>> => Len(toRunner) >= 1)
    BY DEF TypeOK, ChannelTypes
  <1>3. Busy \in 0..2 /\ (running => Busy >= 1) /\ (teardown = "active" => Busy >= 1)
        /\ (Busy = 0 => ~running /\ teardown # "active")
    BY DEF Busy
  <1> HIDE DEF Busy
  <1>4. Exchanges \in Nat /\ Exchanges = Len(toWorker) + Len(toRunner) + setups + Busy
    BY <1>1, <1>3 DEF Exchanges
  <1>5. Busy \in Nat BY <1>3
  <1>6. Exchanges <= 1 /\ Len(toWorker) >= 1
          => Len(toWorker) = 1 /\ Len(toRunner) = 0 /\ setups = 0 /\ Busy = 0
    BY <1>1, <1>4, <1>5, AtMostOne
  <1>7. Exchanges <= 1 /\ Len(toRunner) >= 1
          => Len(toWorker) = 0 /\ Len(toRunner) = 1 /\ setups = 0 /\ Busy = 0
    BY <1>1, <1>4, <1>5, AtMostOne
  <1>8. Exchanges = 0 => Len(toWorker) = 0 /\ Len(toRunner) = 0 /\ setups = 0 /\ Busy = 0
    BY <1>1, <1>4, <1>5, AtMostOne
  <1>9. Exchanges = 0 => toWorker = <<>> /\ toRunner = <<>>
    BY <1>2, <1>8
  <1> QED BY <1>1, <1>2, <1>3, <1>4, <1>6, <1>7, <1>8, <1>9

\* The work of the worker is the one thing under way.
LEMMA OneUnderWay ==
  ASSUME TypeOK, OneExchange
  PROVE  /\ setups > 0 => setups = 1 /\ Len(toWorker) = 0 /\ Len(toRunner) = 0 /\ Busy = 0
         /\ Busy >= 1 => setups = 0 /\ Len(toWorker) = 0 /\ Len(toRunner) = 0 /\ Busy = 1
  <1>1. Len(toWorker) \in Nat /\ Len(toRunner) \in Nat /\ setups \in Nat /\ Busy \in Nat
    BY ExchangesAre
  <1> HIDE DEF Busy
  <1>2. Len(toWorker) + Len(toRunner) + setups + Busy <= 1
    BY DEF OneExchange, Exchanges
  <1>3. setups > 0 => setups >= 1 BY <1>1
  <1> QED BY <1>1, <1>2, <1>3, AtMostOne

\* A step that leaves the channels and the worker alone.
LEMMA SameExchanges ==
  ASSUME UNCHANGED <<toWorker, toRunner, workerVars>>
  PROVE  Exchanges' = Exchanges
  BY DEF Exchanges, Busy, workerVars

\* A request to a worker with nothing under way is the one thing under way, or it is lost.
LEMMA PostOnce ==
  ASSUME TypeOK, Exchanges = 0, NEW m \in Requests, Post(m), UNCHANGED <<toRunner, workerVars>>
  PROVE  /\ Exchanges' \in {0, 1}
         /\ toWorker' \in {<<>>, <<m>>}
         /\ proc \notin {"none", "alive"} => toWorker' = <<>>
         /\ toRunner' = <<>> /\ setups' = 0 /\ ~running'
  <1>1. toWorker = <<>> /\ toRunner = <<>> /\ setups = 0 /\ ~running /\ teardown # "active"
    BY ExchangesAre
  <1>2. toWorker' \in {<<>>, <<m>>} /\ (proc \notin {"none", "alive"} => toWorker' = <<>>)
    BY <1>1 DEF Post
  <1>3. Len(toWorker') \in {0, 1} BY <1>2
  <1>4. toRunner' = <<>> /\ setups' = 0 /\ ~running' /\ teardown' # "active"
    BY <1>1 DEF workerVars
  <1>5. Busy' = 0 /\ Len(toRunner') = 0 BY <1>4 DEF Busy
  <1>6. Exchanges' = Len(toWorker') BY <1>3, <1>4, <1>5 DEF Exchanges
  <1> QED BY <1>2, <1>3, <1>4, <1>6

\* The first start sends the one request there is.
LEMMA FirstUseOnce == ASSUME IInv, IInvOnce, FirstUse PROVE IInvOnce'
  <1>1. task = "none" /\ state = "idle" /\ Exchanges = 0 /\ TypeOK /\ exitListeners = 0 /\ ~uncaught
    BY DEF IInv, IInvOnce, TaskInStep, StateInStep, OneExchange, FirstUse, TypeOK, RunnerTypes, TaskTypes, SomebodyListens, NoUncaughtError
  <1>2. CallStart /\ given' = given + 1 /\ attached' = TRUE /\ rejected' = FALSE
        /\ UNCHANGED <<terminated, stopPc, timedOut, toRunner, workerVars, uncaught>>
    BY <1>1 DEF FirstUse, Use
  <1>3. Post("start") /\ "start" \in Requests /\ proc' = "alive" /\ proc = "none" /\ teardown = "none"
    BY <1>1, <1>2 DEF IInv, IInvOnce, ExchangeFits, TaskInStep, CallStart, Requests
  <1>4. Exchanges' \in {0, 1} /\ toWorker' \in {<<>>, <<"start">>} /\ toRunner' = <<>> /\ ~running'
    BY <1>1, <1>2, <1>3, PostOnce
  <1>5. task' = "starting" /\ startPc' = "waiting" /\ state' = "starting" /\ exitListeners' = 1
        /\ stopPc'["end"] = "none"
    BY <1>1, <1>2 DEF CallStart, IInv, TaskInStep
  <1>6. OneExchange'
    BY <1>2, <1>3, <1>4, <1>5 DEF OneExchange, workerVars
  <1>7. ExchangeFits'
    BY <1>2, <1>3, <1>4, <1>5 DEF ExchangeFits, workerVars
  <1>8. SomebodyListens'
    BY <1>1, <1>2, <1>5 DEF SomebodyListens, NoUncaughtError
  <1> QED BY <1>6, <1>7, <1>8 DEF IInvOnce

\* A runner that is kept has answered all it was asked: the next file is the one thing under way.
LEMMA ReuseOnce ==
  ASSUME "restart" \notin Failures, IInv, IInvOnce, Reuse PROVE IInvOnce'
  <1>1. task = "settled" /\ state = "started" /\ ~Cancelling /\ TypeOK /\ startPc = "none"
    BY DEF Reuse, IInv, TypeOK, RunnerTypes, StateInStep, OneOperation, TaskInStep, InStart,
           Cancelling, Stopper, StopBody, StopCalls
  <1>2. /\ Post("run") /\ task' = "running" /\ attached' = TRUE /\ rejected' = FALSE
        /\ UNCHANGED <<state, lock, startPc, exitListeners, proc, terminated, stopPc, timedOut,
                       toRunner, workerVars, uncaught>>
    BY <1>1 DEF Reuse, Use
  <1>3. "run" \in Requests BY DEF Requests
  <1>4. /\ exitListeners <= 1 /\ ~uncaught /\ teardown = "none"
        /\ stopPc["end"] = "none"
    BY <1>1 DEF IInv, IInvOnce, SomebodyListens, NoUncaughtError, ExchangeFits, TaskInStep
  <1>5. CASE proc = "alive"
    <2>1. Exchanges = 0 BY <1>1, <1>5 DEF IInvOnce, OneExchange
    <2>2. Exchanges' \in {0, 1} /\ toWorker' \in {<<>>, <<"run">>} /\ toRunner' = <<>> /\ ~running'
      BY <1>1, <1>2, <1>3, <2>1, PostOnce
    <2>3. OneExchange'
      BY <1>1, <1>2, <1>4, <1>5, <2>2 DEF OneExchange, workerVars
    <2>4. ExchangeFits'
      BY <1>2, <1>4, <2>2 DEF ExchangeFits, workerVars
    <2>5. SomebodyListens'
      BY <1>1, <1>2, <1>4 DEF SomebodyListens, NoUncaughtError
    <2> QED BY <2>3, <2>4, <2>5 DEF IInvOnce
  <1>6. CASE proc # "alive"
    <2>0. proc # "none" /\ toWorker = <<>>
      BY <1>1, <1>6 DEF IInvOnce, OneExchange
    <2>1. UNCHANGED toWorker BY <1>2, <1>6, <2>0 DEF Post
    <2>2. Exchanges' <= 1
      BY <1>2, <2>1, SameExchanges DEF IInvOnce, OneExchange
    <2>3. OneExchange'
      BY <1>1, <1>2, <1>4, <1>6, <2>0, <2>1, <2>2 DEF IInvOnce, OneExchange, workerVars
    <2>4. ExchangeFits'
      BY <1>1, <1>2, <1>4, <2>1 DEF IInvOnce, ExchangeFits, workerVars
    <2>5. SomebodyListens'
      BY <1>1, <1>2, <1>4 DEF SomebodyListens, NoUncaughtError
    <2> QED BY <2>3, <2>4, <2>5 DEF IInvOnce
  <1> QED BY <1>5, <1>6

\* Moves inside the main process: start() settles, or gives up.
LEMMA StartEndsOnce == ASSUME IInv, IInvOnce, StartEnds PROVE IInvOnce'
  <1>1. /\ Exchanges' = Exchanges
        /\ UNCHANGED <<terminated, stopPc, timedOut, exitListeners, task, rejected, attached, proc,
                       toWorker, toRunner, running, teardown, uncaught>>
    BY SameExchanges DEF StartEnds, taskVars, channels, workerVars
  <1>2. task = "starting" /\ (Cancelling' <=> Cancelling)
    BY <1>1 DEF IInv, TaskInStep, StartEnds, Cancelling
  <1>3. OneExchange'
    BY <1>1, <1>2 DEF IInv, TaskInStep, IInvOnce, OneExchange, StartEnds
  <1>4. ExchangeFits' BY <1>1 DEF IInvOnce, ExchangeFits
  <1>5. SomebodyListens'
    BY <1>1, <1>2 DEF IInvOnce, SomebodyListens, NoUncaughtError, StartEnds
  <1> QED BY <1>3, <1>4, <1>5 DEF IInvOnce

LEMMA StartTimeoutOnce == ASSUME IInv, IInvOnce, StartTimeout PROVE IInvOnce'
  <1>1. /\ Exchanges' = Exchanges
        /\ UNCHANGED <<state, terminated, stopPc, timedOut, exitListeners, task, rejected, attached, proc,
                       toWorker, toRunner, running, teardown, uncaught>>
    BY SameExchanges DEF StartTimeout, taskVars, channels, workerVars
  <1>2. Cancelling' <=> Cancelling BY <1>1 DEF Cancelling
  <1>3. OneExchange'
    BY <1>1, <1>2 DEF IInvOnce, OneExchange, StartTimeout
  <1>4. ExchangeFits' BY <1>1 DEF IInvOnce, ExchangeFits
  <1>5. SomebodyListens'
    BY <1>1 DEF IInvOnce, SomebodyListens, NoUncaughtError
  <1> QED BY <1>3, <1>4, <1>5 DEF IInvOnce

\* The file is sent once its worker has answered; a failed start leaves what is under way alone.
LEMMA AfterStartOnce == ASSUME IInv, IInvOnce, AfterStart PROVE IInvOnce'
  <1>1. /\ task = "starting" /\ startPc \in {"resolved", "rejected"} /\ startPc' = "none"
        /\ rejected' = (rejected \/ startPc = "rejected")
        /\ UNCHANGED <<state, stopPc, exitListeners, attached, proc, toRunner, workerVars, uncaught>>
        /\ UNCHANGED <<running, teardown>>
    BY DEF AfterStart, workerVars
  <1>2. /\ TypeOK /\ teardown = "none" /\ stopPc["end"] = "none" /\ proc # "none"
        /\ (Cancelling' <=> Cancelling)
    BY <1>1 DEF IInv, IInvOnce, OneExchange, ExchangeFits, TaskInStep, Cancelling
  <1>3. CASE Sends /\ Post("run") /\ task' = "running"
    <2>0. startPc = "resolved" /\ ~rejected /\ rejected' = FALSE /\ "run" \in Requests
      BY <1>1, <1>3 DEF Sends, Requests
    <2>1. CASE proc = "alive"
      <3>1. Exchanges = 0 BY <2>0, <2>1 DEF IInvOnce, OneExchange
      <3>2. Exchanges' \in {0, 1} /\ toWorker' \in {<<>>, <<"run">>} /\ toRunner' = <<>> /\ ~running'
        BY <1>1, <1>2, <1>3, <2>0, <3>1, PostOnce
      <3>3. OneExchange'
        BY <1>1, <1>2, <1>3, <2>0, <2>1, <3>2 DEF OneExchange
      <3>4. ExchangeFits'
        BY <1>1, <1>2, <1>3, <3>2 DEF ExchangeFits
      <3> QED BY <3>3, <3>4, <1>1, <1>3, <2>0 DEF IInvOnce, SomebodyListens, NoUncaughtError
    <2>2. CASE proc # "alive"
      <3>1. toWorker = <<>> /\ UNCHANGED toWorker
        BY <1>2, <1>3, <2>2 DEF IInvOnce, OneExchange, Post
      <3>2. Exchanges' <= 1
        BY <1>1, <3>1, SameExchanges DEF IInvOnce, OneExchange
      <3>3. OneExchange'
        BY <1>1, <1>2, <1>3, <2>0, <2>2, <3>1, <3>2 DEF IInvOnce, OneExchange
      <3>4. ExchangeFits'
        BY <1>1, <1>2, <1>3, <3>1 DEF IInvOnce, ExchangeFits
      <3> QED BY <3>3, <3>4, <1>1, <1>3, <2>0 DEF IInvOnce, SomebodyListens, NoUncaughtError
    <2> QED BY <2>1, <2>2
  <1>4. CASE ~Sends /\ task' = "settled" /\ UNCHANGED <<toWorker, pipeError>>
    <2>1. Exchanges' = Exchanges BY <1>1, <1>4, SameExchanges
    <2>2. rejected' BY <1>1, <1>4 DEF Sends
    <2>3. startPc = "resolved" => Exchanges = 0 \/ proc # "alive"
      BY DEF IInvOnce, OneExchange
    <2>4. startPc = "rejected" => state = "failed" \/ Cancelling
      BY DEF IInvOnce, OneExchange
    <2>5. startPc = "resolved" => Cancelling
      BY <1>1, <1>4 DEF Sends, IInvOnce, OneExchange
    <2>6. OneExchange'
      BY <1>1, <1>2, <1>4, <2>1, <2>2, <2>4, <2>5 DEF IInvOnce, OneExchange
    <2>7. ExchangeFits'
      BY <1>1, <1>2, <1>4 DEF IInvOnce, ExchangeFits
    <2>8. SomebodyListens'
      BY <1>1, <1>4 DEF IInvOnce, SomebodyListens, NoUncaughtError
    <2> QED BY <2>6, <2>7, <2>8 DEF IInvOnce
  <1> QED BY <1>1, <1>3, <1>4 DEF AfterStart

\* A call of stop() that waits, or finds the runner stopped, leaves it as it is.
LEMMA QuietStop ==
  ASSUME IInv, IInvOnce, NEW s \in StopCalls, NEW v \in Calls \ {"none"},
         stopPc' = [stopPc EXCEPT ![s] = v],
         s = "end" /\ v = "lockWait" => state \in {"stopping", "stopped"},
         \/ UNCHANGED task
         \/ task = "settled" /\ task' = "over" /\ state \in {"stopping", "stopped"},
         UNCHANGED <<state, startPc, exitListeners, rejected, attached, proc, toWorker, toRunner,
                     workerVars, uncaught>>
  PROVE  IInvOnce'
  <1>1. Exchanges' = Exchanges /\ UNCHANGED <<running, teardown>>
    BY SameExchanges DEF workerVars
  <1>2. Cancelling => Cancelling'
    BY DEF IInv, TypeOK, RunnerTypes, Cancelling, StopCalls
  <1>3. stopPc'["end"] = "lockWait" => state' \in {"stopping", "stopped"}
    BY DEF IInv, TypeOK, RunnerTypes, IInvOnce, OneExchange, StopCalls
  <1>4. OneExchange'
    BY <1>1, <1>2, <1>3 DEF IInvOnce, OneExchange
  <1>5. ExchangeFits' BY <1>1 DEF IInvOnce, ExchangeFits
  <1>6. SomebodyListens' BY DEF IInvOnce, SomebodyListens, NoUncaughtError
  <1> QED BY <1>4, <1>5, <1>6 DEF IInvOnce

\* A forced stop() asks the worker nothing, and takes the listeners off before it kills it.
LEMMA ForcedStop ==
  ASSUME IInv, IInvOnce, NEW s \in StopCalls,
         stopPc' = [stopPc EXCEPT ![s] = KillWorker], state' = "stopping",
         exitListeners' = RemovedListeners, attached' = FALSE, ~InStart,
         \/ s \in Forced /\ UNCHANGED task
         \/ task = "settled" /\ task' = "over",
         UNCHANGED <<startPc, rejected, proc, toWorker, toRunner, workerVars, uncaught>>
  PROVE  IInvOnce'
  <1>1. Exchanges' = Exchanges /\ UNCHANGED <<running, teardown>>
    BY SameExchanges DEF workerVars
  <1>2. (Cancelling => Cancelling') /\ (s \in Forced => Cancelling')
    BY DEF IInv, TypeOK, RunnerTypes, Cancelling, StopCalls, KillWorker
  <1>3. task' = "over" /\ task = "settled" => startPc = "none"
    BY DEF IInv, TaskInStep
  <1>4. exitListeners' = 0
    <2>1. exitListeners \in {0, 1}
      BY DEF IInv, TypeOK, RunnerTypes, IInvOnce, SomebodyListens
    <2> QED BY <2>1 DEF RemovedListeners
  <1>5. OneExchange'
    BY <1>1, <1>2, <1>3 DEF IInvOnce, OneExchange
  <1>6. ExchangeFits' BY <1>1 DEF IInvOnce, ExchangeFits
  <1>7. SomebodyListens' BY <1>4 DEF IInvOnce, SomebodyListens, NoUncaughtError
  <1> QED BY <1>5, <1>6, <1>7 DEF IInvOnce

\* The end of schedule() asks a worker to stop that has answered everything.
LEMMA EndOfTaskOnce == ASSUME IInv, IInvOnce, EndOfTask PROVE IInvOnce'
  <1>1. /\ task = "settled" /\ task' = "over" /\ startPc = "none" /\ "end" \in StopCalls /\ ~InStart
        /\ UNCHANGED <<terminated, startPc, rejected, given, proc, toRunner, workerVars, uncaught>>
        /\ UNCHANGED <<running, teardown>>
    BY DEF EndOfTask, StopCalls, IInv, TaskInStep, InStart, workerVars
  <1>2. LockHeld => state \in {"stopping", "stopped"}
    BY <1>1 DEF LockHeld, IInv, TypeOK, RunnerTypes, OneOperation, StateInStep, InStart
  <1>3. CASE state = "stopped" /\ UNCHANGED <<state, lock, stopPc, exitListeners, attached, toWorker, pipeError>>
    <2>1. Exchanges' = Exchanges BY <1>1, <1>3, SameExchanges
    <2>2. OneExchange'
      BY <1>1, <1>3, <2>1 DEF IInvOnce, OneExchange
    <2>3. ExchangeFits' BY <1>1, <1>3 DEF IInvOnce, ExchangeFits
    <2>4. SomebodyListens' BY <1>1, <1>3 DEF IInvOnce, SomebodyListens, NoUncaughtError
    <2> QED BY <2>2, <2>3, <2>4 DEF IInvOnce
  <1>4. CASE LockHeld /\ CallStop("end", ForceAtEnd)
    <2>1. stopPc' = [stopPc EXCEPT !["end"] = "lockWait"]
          /\ UNCHANGED <<state, lock, exitListeners, attached, toWorker, pipeError>>
      BY <1>4 DEF CallStop
    <2>2. "lockWait" \in Calls \ {"none"} BY DEF Calls
    <2> QED BY <1>1, <1>2, <1>4, <2>1, <2>2, QuietStop
  <1>5. CASE ~LockHeld /\ StopEnters("end", ForceAtEnd)
    <2>1. CASE AlreadyStopped /\ stopPc' = [stopPc EXCEPT !["end"] = Left("end")]
               /\ UNCHANGED <<state, lock, exitListeners, attached, toWorker, pipeError>>
      <3>1. Left("end") = "returned" /\ "returned" \in Calls \ {"none"}
        BY RunnerAssumption DEF Left, Calls
      <3> QED BY <1>1, <2>1, <3>1, QuietStop DEF AlreadyStopped
    <2>2. CASE /\ ~AlreadyStopped /\ state' = "stopping" /\ lock' = "stop" /\ exitListeners' = RemovedListeners
               /\ ForceAtEnd /\ stopPc' = [stopPc EXCEPT !["end"] = KillWorker]
               /\ attached' = FALSE /\ UNCHANGED <<toWorker, pipeError>>
      BY <1>1, <2>2, ForcedStop
    <2>3. CASE /\ ~AlreadyStopped /\ state' = "stopping" /\ lock' = "stop" /\ exitListeners' = RemovedListeners
               /\ ~ForceAtEnd /\ stopPc' = [stopPc EXCEPT !["end"] = "waitStopped"]
               /\ Post("stop") /\ UNCHANGED attached
      <3>1. TypeOK /\ "stop" \in Requests /\ ~rejected /\ teardown # "awaitsRun" /\ proc # "none"
        BY <1>1, <2>3 DEF IInv, Requests, ForceAtEnd, IInvOnce, OneExchange
      <3>2. proc = "alive" => Exchanges = 0
        BY <1>1, <3>1 DEF IInvOnce, OneExchange
      <3>3. Exchanges' <= 1 /\ (proc # "alive" => toWorker' = <<>>)
        <4>1. CASE proc = "alive"
          BY <1>1, <2>3, <3>1, <3>2, <4>1, PostOnce
        <4>2. CASE proc # "alive"
          <5>1. toWorker = <<>> /\ UNCHANGED toWorker
            BY <2>3, <3>1, <4>2 DEF IInvOnce, OneExchange, Post
          <5> QED BY <1>1, <4>2, <5>1, SameExchanges DEF IInvOnce, OneExchange
        <4> QED BY <4>1, <4>2
      <3>4. exitListeners' = 0
        <4>1. exitListeners \in {0, 1}
          BY DEF IInv, TypeOK, RunnerTypes, IInvOnce, SomebodyListens
        <4> QED BY <2>3, <4>1 DEF RemovedListeners
      <3>5. OneExchange' BY <1>1, <2>3, <3>1, <3>3 DEF OneExchange
      <3>6. ExchangeFits' BY <1>1 DEF ExchangeFits
      <3>7. SomebodyListens' BY <1>1, <3>4 DEF IInvOnce, SomebodyListens, NoUncaughtError
      <3> QED BY <3>5, <3>6, <3>7 DEF IInvOnce
    <2> QED BY <1>5, <2>1, <2>2, <2>3 DEF StopEnters
  <1> QED BY <1>3, <1>4, <1>5 DEF EndOfTask, CallStop

\* A forced stop() that finds the lock free.
LEMMA ForcedEntersOnce ==
  ASSUME IInv, IInvOnce, NEW s \in Forced, ~LockHeld, StopEnters(s, TRUE),
         UNCHANGED <<startPc, task, rejected, proc, toRunner, workerVars, uncaught>>
  PROVE  IInvOnce'
  <1>1. ~InStart /\ s \in StopCalls
    BY DEF LockHeld, IInv, OneOperation, InStart, StopCalls
  <1>2. CASE AlreadyStopped /\ stopPc' = [stopPc EXCEPT ![s] = Left(s)]
             /\ UNCHANGED <<state, lock, exitListeners, attached, toWorker, pipeError>>
    <2>1. Left(s) = "waitTerminated" /\ "waitTerminated" \in Calls \ {"none"}
      BY DEF Left, Calls
    <2> QED BY <1>1, <1>2, <2>1, QuietStop DEF AlreadyStopped
  <1>3. CASE /\ ~AlreadyStopped /\ state' = "stopping" /\ lock' = "stop" /\ exitListeners' = RemovedListeners
             /\ stopPc' = [stopPc EXCEPT ![s] = KillWorker]
             /\ attached' = FALSE /\ UNCHANGED <<toWorker, pipeError>>
    BY <1>1, <1>3, ForcedStop
  <1> QED BY <1>2, <1>3 DEF StopEnters

LEMMA ForceCancelOnce == ASSUME IInv, IInvOnce, NEW s \in Forced, ForceCancel(s) PROVE IInvOnce'
  <1>1. s \in StopCalls /\ s # "end" /\ task # "none"
        /\ UNCHANGED <<startPc, task, rejected, proc, toRunner, workerVars, uncaught>>
    BY RunnerAssumption DEF StopCalls, ForceCancel
  <1>2. CASE LockHeld
    <2>1. stopPc' = [stopPc EXCEPT ![s] = "lockWait"]
          /\ UNCHANGED <<state, lock, exitListeners, attached, toWorker, pipeError>>
      BY <1>2 DEF ForceCancel, CallStop
    <2>2. "lockWait" \in Calls \ {"none"} BY DEF Calls
    <2> QED BY <1>1, <2>1, <2>2, QuietStop
  <1>3. CASE ~LockHeld
    BY <1>1, <1>3, ForcedEntersOnce DEF ForceCancel, CallStop
  <1> QED BY <1>2, <1>3

\* The end of schedule() has waited for the forced stop() to come through.
LEMMA StopAfterLockOnce ==
  ASSUME IInv, IInvOnce, NEW s \in StopCalls, StopAfterLock(s) PROVE IInvOnce'
  <1>1. stopPc[s] = "lockWait" /\ ~LockHeld /\ StopEnters(s, s \in Forced)
        /\ UNCHANGED <<startPc, task, rejected, proc, toRunner, workerVars, uncaught>>
    BY DEF StopAfterLock
  <1>2. CASE s \in Forced BY <1>1, <1>2, ForcedEntersOnce
  <1>3. CASE s \notin Forced
    <2>1. s = "end" /\ AlreadyStopped
      BY <1>1, <1>3 DEF StopCalls, IInvOnce, OneExchange, AlreadyStopped
    <2>2. stopPc' = [stopPc EXCEPT ![s] = Left(s)]
          /\ UNCHANGED <<state, lock, exitListeners, attached, toWorker, pipeError>>
      BY <1>1, <2>1 DEF StopEnters
    <2>3. Left(s) = "returned" /\ "returned" \in Calls \ {"none"}
      BY <1>3 DEF Left, Calls
    <2> QED BY <1>1, <2>2, <2>3, QuietStop
  <1> QED BY <1>2, <1>3

\* `finally` of stop(), after an exit or STOP_TIMEOUT.
LEMMA StopSettlesOnce ==
  ASSUME IInv, IInvOnce, NEW s \in StopCalls, Stopper(s), StopSettles(s),
         UNCHANGED <<startPc, exitListeners, taskVars, proc, channels, workerVars, uncaught>>
  PROVE  IInvOnce'
  <1>1. /\ Exchanges' = Exchanges
        /\ UNCHANGED <<running, teardown, task, rejected, attached, toWorker, toRunner>>
    BY SameExchanges DEF taskVars, channels, workerVars
  <1>2. lock = "stop" /\ state \in {"stopping", "stopped"} /\ stopPc[s] # "none"
    BY DEF IInv, OneOperation, StateInStep, Stopper, StopBody
  <1>3. (Cancelling => Cancelling') /\ (task # "over" => Cancelling')
    <2>1. task # "over" => s \in Forced
      BY <1>2 DEF IInv, TaskInStep, StopCalls
    <2> QED BY <1>2, <2>1 DEF IInv, TypeOK, RunnerTypes, StopSettles, Cancelling, Left, StopCalls
  <1>4. stopPc'["end"] = "lockWait" => stopPc["end"] = "lockWait"
    BY DEF IInv, TypeOK, RunnerTypes, StopSettles, Left, StopCalls
  <1>5. startPc \notin {"none"} => task # "over"
    BY DEF IInv, TaskInStep
  <1>6. OneExchange'
    BY <1>1, <1>2, <1>3, <1>4, <1>5 DEF IInvOnce, OneExchange, StopSettles
  <1>7. ExchangeFits' BY <1>1 DEF IInvOnce, ExchangeFits
  <1>8. SomebodyListens' BY <1>1, <1>2 DEF IInvOnce, SomebodyListens, NoUncaughtError
  <1> QED BY <1>6, <1>7, <1>8 DEF IInvOnce

LEMMA StopEndsOnce ==
  ASSUME IInv, IInvOnce, NEW s \in StopCalls, StopEnds(s) \/ StopTimeout(s) PROVE IInvOnce'
  BY StopSettlesOnce DEF StopEnds, StopTimeout, Stopper, StopBody

\* Only a cancel ends a file that its worker has not finished.
LEMMA CancelTaskEndsOnce ==
  ASSUME IInv, IInvOnce, NEW s \in StopCalls, CancelTaskEnds(s) PROVE IInvOnce'
  <1>1. /\ Exchanges' = Exchanges /\ rejected' = TRUE
        /\ task' = IF task = "running" THEN "settled" ELSE task
        /\ UNCHANGED <<state, startPc, exitListeners, attached, proc, running, teardown,
                       toWorker, toRunner, uncaught>>
    BY SameExchanges DEF CancelTaskEnds, channels, workerVars
  <1>2. (Cancelling => Cancelling') /\ (task # "over" => Cancelling')
    <2>1. task # "over" => s \in Forced
      BY DEF CancelTaskEnds, IInv, TaskInStep, StopCalls
    <2> QED BY <2>1 DEF IInv, TypeOK, RunnerTypes, CancelTaskEnds, Cancelling, StopCalls
  <1>3. (stopPc'["end"] = "lockWait" => stopPc["end"] = "lockWait") /\ task # "none"
    BY DEF IInv, TypeOK, RunnerTypes, TaskInStep, CancelTaskEnds, StopCalls
  <1>4. OneExchange'
    BY <1>1, <1>2, <1>3 DEF IInvOnce, OneExchange
  <1>5. ExchangeFits' BY <1>1 DEF IInvOnce, ExchangeFits
  <1>6. SomebodyListens' BY <1>1 DEF IInvOnce, SomebodyListens, NoUncaughtError
  <1> QED BY <1>4, <1>5, <1>6 DEF IInvOnce

\* The message that is received was the one thing under way.
LEMMA ReceiveOnce == ASSUME IInv, IInvOnce, Receive PROVE IInvOnce'
  <1>1. PICK m : m = Head(toRunner) OBVIOUS
  <1>2. /\ toRunner # <<>> /\ toRunner' = Tail(toRunner)
        /\ OnStarted(m) \/ OnFinished(m) \/ OnStopped(m)
        /\ UNCHANGED <<state, exitListeners, rejected, given, proc, toWorker, workerVars, uncaught>>
        /\ UNCHANGED <<setups, running, teardown>>
    BY <1>1 DEF Receive, workerVars
  <1>3. Len(toRunner) = 1 /\ Len(toWorker) = 0 /\ setups = 0 /\ Busy = 0
    BY <1>2, ExchangesAre DEF IInv, IInvOnce, OneExchange
  <1>4. toRunner' = <<>> /\ m = toRunner[1] /\ 1 \in DOMAIN toRunner /\ toWorker = <<>>
    BY <1>1, <1>2, <1>3 DEF IInv, TypeOK, ChannelTypes
  <1>5. Exchanges' = 0
    BY <1>2, <1>3, <1>4 DEF Exchanges, Busy
  <1>6. m = "finished" => task \notin {"none", "starting"}
    BY <1>4 DEF IInvOnce, ExchangeFits
  <1>7. m = "stopped" => task = "over"
    BY <1>4 DEF IInvOnce, ExchangeFits
  <1>8. (Cancelling' <=> Cancelling) /\ (stopPc'["end"] = "lockWait" => stopPc["end"] = "lockWait")
    BY <1>2 DEF OnStarted, OnFinished, OnStopped, Cancelling, StopCalls, KillWorker
  <1>9. task # "none" BY <1>2, <1>3, ExchangesAre DEF IInv, IInvOnce, OneExchange
  <1>10. OneExchange'
    <2>1. /\ Exchanges' <= 1 /\ Exchanges' = 0
      BY <1>5
    <2>2. startPc' = "rejected" => startPc = "rejected"
      BY <1>2 DEF OnStarted, OnFinished, OnStopped
    <2>3. task' = "starting" /\ startPc \in {"failed", "rejected"} => startPc' \in {"failed", "rejected"}
      BY <1>2 DEF OnStarted, OnFinished, OnStopped
    <2>4. task' = "starting" => task = "starting"
      BY <1>2 DEF OnStarted, OnFinished, OnStopped
    <2>5. task' = task \/ (task = "running" /\ task' = "settled")
      BY <1>2 DEF OnStarted, OnFinished, OnStopped
    <2> QED BY <1>2, <1>4, <1>8, <1>9, <2>1, <2>2, <2>3, <2>5 DEF IInvOnce, OneExchange
  <1>11. ExchangeFits'
    BY <1>2, <1>4, <1>9 DEF IInvOnce, ExchangeFits, OnStarted, OnFinished, OnStopped
  <1>12. SomebodyListens'
    BY <1>2, <1>6, <1>7 DEF IInvOnce, SomebodyListens, NoUncaughtError, OnStarted, OnFinished, OnStopped
  <1> QED BY <1>10, <1>11, <1>12 DEF IInvOnce

\* What a channel still holds after the process is gone was there before.
LEMMA Prefix ==
  ASSUME NEW S, NEW q \in Seq(S), NEW n \in 0..Len(q)
  PROVE  /\ Len(SubSeq(q, 1, n)) <= Len(q) /\ Len(SubSeq(q, 1, n)) \in Nat
         /\ \A i \in DOMAIN SubSeq(q, 1, n) : i \in DOMAIN q /\ SubSeq(q, 1, n)[i] = q[i]
  OBVIOUS

LEMMA FewerExchanges ==
  ASSUME TypeOK, Exchanges <= 1, toWorker' = <<>>, NEW n \in 0..Len(toRunner),
         toRunner' = SubSeq(toRunner, 1, n), UNCHANGED workerVars
  PROVE  /\ Exchanges' <= 1
         /\ \A i \in DOMAIN toRunner' : i \in DOMAIN toRunner /\ toRunner'[i] = toRunner[i]
  <1>1. toRunner \in Seq(Responses) BY DEF TypeOK, ChannelTypes
  <1>2. Len(toRunner') <= Len(toRunner) /\ Len(toRunner') \in Nat /\ Len(toWorker') = 0
    BY <1>1, Prefix
  <1>3. Busy' = Busy /\ setups' = setups BY DEF Busy, workerVars
  <1>4. Len(toWorker) \in Nat /\ Len(toRunner) \in Nat /\ setups \in Nat /\ Busy \in Nat
    BY ExchangesAre
  <1> HIDE DEF Busy
  <1>5. Exchanges' <= 1 BY ONLY Exchanges <= 1, <1>2, <1>3, <1>4 DEF Exchanges
  <1> QED BY <1>1, <1>5, Prefix

\* An error of the worker finds whoever uses the runner.
LEMMA EmitsOnce ==
  ASSUME IInv, IInvOnce, Emits, Quiescent, proc \in {"alive", "broken"}
  PROVE  /\ uncaught' = FALSE
         /\ task' = task \/ (task = "running" /\ task' = "settled")
         /\ startPc' = startPc \/ (startPc = "waiting" /\ startPc' = "failed")
         /\ task' = "running" => rejected' = FALSE /\ exitListeners = 0
         /\ task = "starting" /\ rejected' => Cancelling \/ startPc' \in {"failed", "rejected"}
         /\ task' = "starting" => (~rejected' => attached' \/ exitListeners = 0)
  <1>1. CASE exitListeners = 0 /\ UNCHANGED <<startPc, task, rejected, attached, uncaught>>
    BY <1>1 DEF IInvOnce, OneExchange, SomebodyListens, NoUncaughtError
  <1>2. CASE exitListeners > 0 /\ EmitsError
    <2>1. exitListeners = 1
      BY <1>2 DEF IInv, TypeOK, RunnerTypes, IInvOnce, SomebodyListens
    <2>2. /\ task \in {"starting", "running"}
          /\ task = "running" => attached /\ ~rejected
          /\ task = "starting" => startPc = "waiting"
          /\ task = "starting" /\ ~rejected => attached
          /\ task = "starting" /\ rejected => Cancelling
      BY <1>2, <2>1 DEF IInv, TaskInStep, IInvOnce, SomebodyListens, OneExchange, Quiescent
    <2>3. uncaught' = FALSE
      <3>1. uncaught' = (uncaught \/ ~(attached \/ startPc = "waiting") \/ exitListeners > 1)
        BY <1>2 DEF EmitsError
      <3>2. ~uncaught /\ uncaught \in BOOLEAN
        BY DEF IInv, TypeOK, TaskTypes, IInvOnce, SomebodyListens, NoUncaughtError
      <3>3. ~(exitListeners > 1) BY <2>1
      <3>4. attached \/ startPc = "waiting" BY <2>2
      <3> QED BY <3>1, <3>2, <3>3, <3>4, Zenon
    <2> QED BY <1>2, <2>2, <2>3 DEF EmitsError
  <1> QED BY <1>1, <1>2 DEF Emits

\* The process ends.
LEMMA ExitOnce ==
  ASSUME IInv, IInvOnce, NEW how \in {"exited", "killed"}, Exit(how) PROVE IInvOnce'
  <1>1. /\ Quiescent /\ proc \in {"alive", "broken"} /\ proc' = how /\ Emits
        /\ toWorker' = <<>>
        /\ UNCHANGED <<exitListeners, workerVars>> /\ UNCHANGED <<running, teardown>>
    BY DEF Exit, workerVars
  <1>2. PICK n \in 0..Len(toRunner) : toRunner' = SubSeq(toRunner, 1, n)
    BY DEF Exit
  <1>3. Exchanges' <= 1 /\ \A i \in DOMAIN toRunner' : i \in DOMAIN toRunner /\ toRunner'[i] = toRunner[i]
    BY <1>1, <1>2, FewerExchanges DEF IInv, IInvOnce, OneExchange
  <1>4. (Cancelling' <=> Cancelling) /\ (stopPc'["end"] = "lockWait" => stopPc["end"] = "lockWait")
    BY DEF Exit, Cancelling, StopCalls
  <1>5. /\ uncaught' = FALSE
        /\ task' = task \/ (task = "running" /\ task' = "settled")
        /\ startPc' = startPc \/ (startPc = "waiting" /\ startPc' = "failed")
        /\ task' = "running" => rejected' = FALSE
        /\ task = "starting" /\ rejected' => Cancelling \/ startPc' \in {"failed", "rejected"}
    BY <1>1, EmitsOnce
  <1>6. task # "none" /\ startPc # "rejected" /\ proc' \notin {"none", "alive", "broken"}
    BY <1>1 DEF IInv, TaskInStep, Quiescent
  <1>7. stopPc'["end"] = "lockWait" => state' \in {"stopping", "stopped"}
    BY <1>4 DEF Exit, IInvOnce, OneExchange
  <1>8. OneExchange'
    BY <1>1, <1>3, <1>4, <1>5, <1>6, <1>7 DEF IInvOnce, OneExchange
  <1>9. ExchangeFits'
    <2>1. DOMAIN toWorker' = {} BY <1>1
    <2> QED BY <1>1, <1>3, <1>5, <1>6, <2>1 DEF IInvOnce, ExchangeFits
  <1>10. SomebodyListens'
    BY <1>1, <1>5, <1>6 DEF IInvOnce, SomebodyListens, NoUncaughtError
  <1> QED BY <1>8, <1>9, <1>10 DEF IInvOnce

\* The channel breaks, with what was in it.
LEMMA ChannelBreaksOnce == ASSUME IInv, IInvOnce, ChannelBreaks PROVE IInvOnce'
  <1>1. /\ proc = "alive" /\ proc' = "broken" /\ toWorker' = <<>>
        /\ UNCHANGED <<state, startPc, stopPc, exitListeners, task, rejected, attached,
                       workerVars, running, teardown, uncaught>>
    BY DEF ChannelBreaks, runnerVars, taskVars, workerVars
  <1>2. PICK n \in 0..Len(toRunner) : toRunner' = SubSeq(toRunner, 1, n)
    BY DEF ChannelBreaks
  <1>3. Exchanges' <= 1 /\ \A i \in DOMAIN toRunner' : i \in DOMAIN toRunner /\ toRunner'[i] = toRunner[i]
    BY <1>1, <1>2, FewerExchanges DEF IInv, IInvOnce, OneExchange
  <1>4. (Cancelling' <=> Cancelling) /\ task # "none"
    BY <1>1 DEF Cancelling, IInv, TaskInStep
  <1>5. OneExchange'
    BY <1>1, <1>3, <1>4 DEF IInvOnce, OneExchange
  <1>6. ExchangeFits'
    <2>1. DOMAIN toWorker' = {} BY <1>1
    <2> QED BY <1>1, <1>3, <2>1 DEF IInvOnce, ExchangeFits
  <1>7. SomebodyListens'
    BY <1>1 DEF IInvOnce, SomebodyListens, NoUncaughtError
  <1> QED BY <1>5, <1>6, <1>7 DEF IInvOnce

\* The held error is reported, or dropped.
LEMMA PipeErrorTimerOnce == ASSUME IInv, IInvOnce, PipeErrorTimer PROVE IInvOnce'
  <1>1. /\ Exchanges' = Exchanges
        /\ UNCHANGED <<state, stopPc, exitListeners, proc, toWorker, toRunner, running, teardown>>
    BY SameExchanges DEF PipeErrorTimer, workerVars
  <1>2. (Cancelling' <=> Cancelling) BY <1>1 DEF Cancelling
  <1>3. CASE proc = "broken" /\ Emits
    <2>1. Quiescent BY DEF PipeErrorTimer
    <2>2. /\ uncaught' = FALSE
          /\ task' = task \/ (task = "running" /\ task' = "settled")
          /\ startPc' = startPc \/ (startPc = "waiting" /\ startPc' = "failed")
          /\ task' = "running" => rejected' = FALSE /\ exitListeners = 0
          /\ task = "starting" /\ rejected' => Cancelling \/ startPc' \in {"failed", "rejected"}
          /\ task' = "starting" => (~rejected' => attached' \/ exitListeners = 0)
      BY <1>3, <2>1, EmitsOnce
    <2>3. OneExchange'
      BY <1>1, <1>2, <1>3, <2>2 DEF IInvOnce, OneExchange
    <2>4. ExchangeFits' BY <1>1, <2>2 DEF IInvOnce, ExchangeFits
    <2>5. SomebodyListens'
      BY <1>1, <2>2 DEF IInvOnce, SomebodyListens, NoUncaughtError
    <2> QED BY <2>3, <2>4, <2>5 DEF IInvOnce
  <1>4. CASE UNCHANGED <<startPc, task, rejected, attached, uncaught>>
    <2>1. OneExchange' BY <1>1, <1>2, <1>4 DEF IInvOnce, OneExchange
    <2>2. ExchangeFits' BY <1>1, <1>4 DEF IInvOnce, ExchangeFits
    <2>3. SomebodyListens' BY <1>1, <1>4 DEF IInvOnce, SomebodyListens, NoUncaughtError
    <2> QED BY <2>1, <2>2, <2>3 DEF IInvOnce
  <1> QED BY <1>3, <1>4 DEF PipeErrorTimer

\* The worker turns the one thing under way into the next one.
LEMMA WorkerExchanges ==
  ASSUME IInv, IInvOnce, Worker
  PROVE  /\ Exchanges >= 1 /\ Exchanges' = 1 /\ teardown' # "awaitsRun" /\ ExchangeFits'
  <1> USE DEF IInv, IInvOnce
  <1>1. CASE WorkerReads
    <2>1. PICK m : m = Head(toWorker) OBVIOUS
    <2>2. /\ toWorker # <<>> /\ toWorker' = Tail(toWorker)
          /\ (m = "start" /\ OnStart) \/ (m = "run" /\ OnRun) \/ (m = "stop" /\ OnStop)
          /\ UNCHANGED task
      BY <1>1, <2>1 DEF WorkerReads, taskVars
    <2>3. Len(toWorker) = 1 /\ Len(toRunner) = 0 /\ setups = 0 /\ Busy = 0 /\ ~running /\ teardown # "active"
      BY <2>2, ExchangesAre DEF OneExchange
    <2>4. toWorker' = <<>> /\ toRunner = <<>> /\ m = toWorker[1] /\ 1 \in DOMAIN toWorker
      BY <2>1, <2>2, <2>3 DEF TypeOK, ChannelTypes
    <2>5. UNCHANGED toRunner
      BY <2>2, <2>3 DEF OnStart, OnRun, OnStop
    <2>6. Exchanges = 1 BY <2>3 DEF Exchanges
    <2>7. CASE m = "start" /\ OnStart
      <3>1. setups' = 1 /\ UNCHANGED <<running, teardown>> BY <2>3, <2>7 DEF OnStart
      <3>2. Exchanges' = 1 BY <2>3, <2>4, <2>5, <3>1 DEF Exchanges, Busy
      <3> QED BY <2>2, <2>3, <2>4, <2>5, <2>6, <3>1, <3>2 DEF ExchangeFits, OneExchange
    <2>8. CASE m = "run" /\ OnRun
      <3>1. running' = TRUE /\ UNCHANGED <<setups, teardown>> BY <2>8 DEF OnRun
      <3>2. Busy' = 1 BY <2>3, <3>1 DEF Busy
      <3>3. Exchanges' = 1 BY <2>3, <2>4, <2>5, <3>1, <3>2 DEF Exchanges
      <3>4. task \notin {"none", "starting"} BY <2>4, <2>8 DEF ExchangeFits
      <3> QED BY <2>2, <2>4, <2>5, <2>6, <3>1, <3>3, <3>4 DEF ExchangeFits, OneExchange
    <2>9. CASE m = "stop" /\ OnStop
      <3>1. teardown' = "active" /\ UNCHANGED <<setups, running>> BY <2>3, <2>9 DEF OnStop
      <3>2. Busy' = 1 BY <2>3, <3>1 DEF Busy
      <3>3. Exchanges' = 1 BY <2>3, <2>4, <2>5, <3>1, <3>2 DEF Exchanges
      <3>4. task = "over" BY <2>4, <2>9 DEF ExchangeFits, TypeOK, TaskTypes
      <3> QED BY <2>2, <2>6, <3>1, <3>3, <3>4 DEF ExchangeFits
    <2> QED BY <2>2, <2>7, <2>8, <2>9
  <1>2. ASSUME NEW m \in {"started", "startError"}, SetupEnds(m)
        PROVE  Exchanges >= 1 /\ Exchanges' = 1 /\ teardown' # "awaitsRun" /\ ExchangeFits'
    <2>1. /\ setups > 0 /\ setups' = setups - 1 /\ toRunner' = Append(toRunner, m)
          /\ UNCHANGED <<task, toWorker, running, teardown>>
      BY <1>2 DEF SetupEnds, Answer, taskVars
    <2>2. setups = 1 /\ Len(toWorker) = 0 /\ Len(toRunner) = 0 /\ Busy = 0
      BY <2>1, ExchangesAre, OneUnderWay
    <2>3. toWorker = <<>> /\ toRunner' = <<m>>
      BY <2>1, <2>2 DEF TypeOK, ChannelTypes
    <2>4. Exchanges = 1 /\ Exchanges' = 1
      BY <2>1, <2>2, <2>3 DEF Exchanges, Busy
    <2> QED BY <2>1, <2>3, <2>4 DEF ExchangeFits, OneExchange
  <1>3. CASE FileEnds
    <2>1. /\ running /\ running' = FALSE /\ toRunner' = Append(toRunner, "finished")
          /\ UNCHANGED <<task, toWorker, setups>>
      BY <1>3 DEF FileEnds, FileStillRuns, Answer, taskVars
    <2>2. Busy = 1 /\ setups = 0 /\ Len(toWorker) = 0 /\ Len(toRunner) = 0
      BY <2>1, ExchangesAre, OneUnderWay
    <2>3. toWorker = <<>> /\ toRunner' = <<"finished">>
      BY <2>1, <2>2 DEF TypeOK, ChannelTypes
    <2>4. teardown # "active" /\ teardown # "awaitsRun" /\ UNCHANGED teardown
      BY <1>3, <2>1, <2>2 DEF Busy, OneExchange, FileEnds
    <2>5. Exchanges = 1 /\ Exchanges' = 1
      BY <2>1, <2>2, <2>3, <2>4 DEF Exchanges, Busy
    <2> QED BY <2>1, <2>3, <2>4, <2>5 DEF ExchangeFits
  <1>4. CASE TeardownEnds
    <2>1. /\ teardown = "active" /\ teardown' = "done" /\ toRunner' = Append(toRunner, "stopped")
          /\ UNCHANGED <<task, toWorker, setups, running>>
      BY <1>4 DEF TeardownEnds, Answer, taskVars
    <2>2. Busy = 1 /\ setups = 0 /\ Len(toWorker) = 0 /\ Len(toRunner) = 0
      BY <2>1, ExchangesAre, OneUnderWay
    <2>3. toWorker = <<>> /\ toRunner' = <<"stopped">>
      BY <2>1, <2>2 DEF TypeOK, ChannelTypes
    <2>4. ~running BY <2>1, <2>2 DEF Busy
    <2>5. Exchanges = 1 /\ Exchanges' = 1
      BY <2>1, <2>2, <2>3, <2>4 DEF Exchanges, Busy
    <2>6. task = "over" BY <2>1 DEF ExchangeFits
    <2> QED BY <2>1, <2>5, <2>6 DEF ExchangeFits
  <1> QED BY <1>1, <1>2, <1>3, <1>4 DEF Worker

LEMMA WorkerOnce == ASSUME IInv, IInvOnce, Worker PROVE IInvOnce'
  <1>1. /\ proc = "alive"
        /\ UNCHANGED <<state, startPc, stopPc, exitListeners, task, rejected, attached, proc, uncaught>>
    BY DEF Worker, WorkerReads, SetupEnds, FileEnds, TeardownEnds, runnerVars, taskVars
  <1>2. Exchanges >= 1 /\ Exchanges' = 1 /\ teardown' # "awaitsRun" /\ ExchangeFits'
    BY WorkerExchanges
  <1>3. Cancelling' <=> Cancelling BY <1>1 DEF Cancelling
  <1>4. OneExchange' BY <1>1, <1>2, <1>3 DEF IInvOnce, OneExchange
  <1>5. SomebodyListens' BY <1>1 DEF IInvOnce, SomebodyListens, NoUncaughtError
  <1> QED BY <1>2, <1>4, <1>5 DEF IInvOnce

\* A runner that was never used has nothing under way.
LEMMA InitOnce == Init => IInvOnce
  <1> SUFFICES ASSUME Init PROVE IInvOnce OBVIOUS
  <1>1. Exchanges = 0 BY DEF Init, Exchanges, Busy
  <1>2. OneExchange BY <1>1, RunnerAssumption DEF Init, OneExchange, StopCalls
  <1>3. ExchangeFits BY DEF Init, ExchangeFits
  <1>4. SomebodyListens BY DEF Init, SomebodyListens, NoUncaughtError
  <1> QED BY <1>2, <1>3, <1>4 DEF IInvOnce

LEMMA StutterOnce == ASSUME IInvOnce, UNCHANGED vars PROVE IInvOnce'
  <1> USE DEF vars, runnerVars, taskVars, workerVars, channels
  <1>1. Exchanges' = Exchanges BY SameExchanges
  <1>2. Cancelling' <=> Cancelling BY DEF Cancelling
  <1> QED BY <1>1, <1>2 DEF IInvOnce, OneExchange, ExchangeFits, SomebodyListens, NoUncaughtError

\* Every step preserves it.
LEMMA NextOnce ==
  ASSUME "restart" \notin Failures PROVE IInv /\ IInvOnce /\ [Next]_vars => IInvOnce'
  <1> SUFFICES ASSUME IInv, IInvOnce, Next PROVE IInvOnce' BY StutterOnce
  <1>1. CASE Resumed
    BY <1>1, StartEndsOnce, AfterStartOnce, ReuseOnce, EndOfTaskOnce, StopAfterLockOnce,
       StopEndsOnce, CancelTaskEndsOnce DEF Resumed
  <1>2. CASE FirstUse \/ Worker \/ Receive \/ StartTimeout
    BY <1>2, FirstUseOnce, WorkerOnce, ReceiveOnce, StartTimeoutOnce
  <1>3. CASE (\E s \in Forced : ForceCancel(s)) \/ (\E s \in StopCalls : StopTimeout(s))
    BY <1>3, ForceCancelOnce, StopEndsOnce
  <1>4. CASE (\E how \in {"exited", "killed"} : Exit(how)) \/ ChannelBreaks \/ PipeErrorTimer
    BY <1>4, ExitOnce, ChannelBreaksOnce, PipeErrorTimerOnce
  <1> QED BY <1>1, <1>2, <1>3, <1>4 DEF Next

\* The stronger invariant, of a runner that is not started again after a failed start.
THEOREM RunnerOnceInv == ASSUME "restart" \notin Failures PROVE Spec => []IInvOnce
  BY InitOnce, NextOnce, RunnerInv, PTL DEF Spec

\* "Remove exit and error listeners early": no error of a worker is emitted to nobody,
\* whatever fails and however often it is cancelled, as long as a runner that failed to
\* start is not given another file (RunnerRestart.cfg shows what happens if it is).
THEOREM RunnerHearsErrors == ASSUME "restart" \notin Failures PROVE Spec => []NoUncaughtError
  <1>1. IInvOnce => NoUncaughtError BY DEF IInvOnce, SomebodyListens
  <1> QED BY <1>1, RunnerOnceInv, PTL

\* The handlers of the worker overlap, what they do does not: no environment is set up or
\* torn down under a file, and no file is sent while another runs ("Worker is already
\* running tests"), in every order of messages, failures, timeouts and cancels.
THEOREM RunnerWorkerDoesOneThing ==
  ASSUME "restart" \notin Failures PROVE Spec => []WorkerDoesOneThing
  <1>1. IInv /\ IInvOnce => WorkerDoesOneThing
    <2> SUFFICES ASSUME IInv, IInvOnce PROVE WorkerDoesOneThing OBVIOUS
    <2>1. CASE running
      <3>1. setups = 0 /\ Len(toWorker) = 0 /\ Busy = 1
        BY <2>1, ExchangesAre, OneUnderWay DEF IInv, IInvOnce
      <3>2. toWorker = <<>> BY <3>1 DEF IInv, TypeOK, ChannelTypes
      <3>3. teardown # "active" BY <2>1, <3>1 DEF Busy
      <3> QED BY <3>1, <3>2, <3>3 DEF WorkerDoesOneThing
    <2>2. CASE ~running
      BY <2>2, ExchangesAre, OneUnderWay DEF IInv, IInvOnce, WorkerDoesOneThing
    <2> QED BY <2>1, <2>2
  <1> QED BY <1>1, RunnerInv, RunnerOnceInv, PTL

(***************************************************************************)
(* Part 2.  Sequences and sets.                                            *)
(***************************************************************************)
(***************************************************************************)
(* Sequences without repetition                                            *)
(***************************************************************************)
\* A set of numbers that is not empty has a least one.
LEMMA Least ==
  ASSUME NEW B \in SUBSET Nat, B # {}
  PROVE  \E n \in B : \A m \in B : n <= m
  <1> DEFINE R == OpToRel(<, Nat)
  <1>1. PICK n \in B : \A m \in B : ~(<<m, n>> \in R)
    BY NatLessThanWellFounded, WFMin
  <1>2. \A m \in B : ~(m < n) BY <1>1 DEF OpToRel
  <1> QED BY <1>2

\* The empty sequence.
LEMMA NothingInEmpty == ToSet(<<>>) = {} /\ IsInjective(<<>>) /\ Len(<<>>) = 0
  BY DEF ToSet, IsInjective

\* A sequence and the set of what is in it.
LEMMA ToSetIn ==
  ASSUME NEW S, NEW q \in Seq(S)
  PROVE  /\ ToSet(q) \subseteq S
         /\ \A i \in 1..Len(q) : q[i] \in ToSet(q)
         /\ \A x \in ToSet(q) : \E i \in 1..Len(q) : q[i] = x
         /\ q # <<>> <=> ToSet(q) # {}
  <1>1. PICK n \in Nat : n = Len(q) OBVIOUS
  <1>2. q = <<>> <=> n = 0 BY <1>1
  <1>3. DOMAIN q = 1..n BY <1>1
  <1>4. n # 0 => 1 \in 1..n OBVIOUS
  <1>5. q # <<>> <=> ToSet(q) # {} BY <1>2, <1>3, <1>4 DEF ToSet
  <1>6. \A i \in 1..n : q[i] \in S BY <1>1
  <1> QED BY <1>1, <1>3, <1>5, <1>6 DEF ToSet

\* A sequence with one more element at its end.
LEMMA AppendIs ==
  ASSUME NEW S, NEW q \in Seq(S), NEW x \in S
  PROVE  /\ Append(q, x) \in Seq(S) /\ ToSet(Append(q, x)) = ToSet(q) \cup {x}
         /\ Len(Append(q, x)) = Len(q) + 1
         /\ IsInjective(q) /\ x \notin ToSet(q) => IsInjective(Append(q, x))
  <1> DEFINE r == Append(q, x)
  <1>1. PICK n \in Nat : n = Len(q) OBVIOUS
  <1>2. r \in Seq(S) /\ Len(r) = n + 1 /\ r[n + 1] = x /\ \A i \in 1..n : r[i] = q[i]
    BY <1>1, AppendProperties
  <1>3. DOMAIN r = 1..(n + 1) /\ DOMAIN q = 1..n BY <1>1, <1>2
  <1> HIDE DEF r
  <1>4. ToSet(r) = ToSet(q) \cup {x}
    <2>1. ASSUME NEW y \in ToSet(r) PROVE y \in ToSet(q) \cup {x}
      BY <2>1, <1>2, <1>3 DEF ToSet
    <2>2. \A i \in 1..n : i \in 1..(n + 1) BY <1>1
    <2>3. n + 1 \in 1..(n + 1) OBVIOUS
    <2>4. ASSUME NEW y \in ToSet(q) \cup {x} PROVE y \in ToSet(r)
      BY <2>2, <2>3, <1>2, <1>3 DEF ToSet
    <2> QED BY <2>1, <2>4
  <1>5. IsInjective(q) /\ x \notin ToSet(q) => IsInjective(r)
    BY <1>2, <1>3 DEF ToSet, IsInjective
  <1> QED BY <1>1, <1>2, <1>4, <1>5 DEF r

\* Two sequences one after the other.
LEMMA ConcatIs ==
  ASSUME NEW S, NEW a \in Seq(S), NEW b \in Seq(S)
  PROVE  /\ a \o b \in Seq(S) /\ ToSet(a \o b) = ToSet(a) \cup ToSet(b)
         /\ IsInjective(a) /\ IsInjective(b) /\ ToSet(a) \cap ToSet(b) = {} => IsInjective(a \o b)
  <1> DEFINE r == a \o b
  <1>1. PICK n \in Nat, m \in Nat : n = Len(a) /\ m = Len(b) OBVIOUS
  <1>2. /\ r \in Seq(S) /\ Len(r) = n + m
        /\ \A i \in 1..(n + m) : r[i] = IF i <= n THEN a[i] ELSE b[i - n]
    BY <1>1, ConcatProperties
  <1>3. DOMAIN r = 1..(n + m) /\ DOMAIN a = 1..n /\ DOMAIN b = 1..m BY <1>1, <1>2
  <1> HIDE DEF r
  <1>4. ASSUME NEW i \in 1..(n + m) PROVE IF i <= n THEN i \in 1..n /\ r[i] = a[i] ELSE i - n \in 1..m /\ r[i] = b[i - n]
    BY <1>2
  <1>5. ToSet(r) \subseteq ToSet(a) \cup ToSet(b) BY <1>3, <1>4 DEF ToSet
  <1>6. ASSUME NEW i \in 1..n PROVE i \in 1..(n + m) /\ r[i] = a[i] BY <1>2
  <1>7. ASSUME NEW i \in 1..m PROVE n + i \in 1..(n + m) /\ r[n + i] = b[i]
    <2>1. n + i \in 1..(n + m) /\ ~(n + i <= n) /\ (n + i) - n = i OBVIOUS
    <2> QED BY <2>1, <1>2
  <1>8. ToSet(a) \subseteq ToSet(r) BY <1>3, <1>6 DEF ToSet
  <1>9. ToSet(b) \subseteq ToSet(r) BY <1>3, <1>7 DEF ToSet
  <1>10. ASSUME IsInjective(a), IsInjective(b), ToSet(a) \cap ToSet(b) = {}
         PROVE  IsInjective(r)
    <2> SUFFICES ASSUME NEW i \in 1..(n + m), NEW j \in 1..(n + m), r[i] = r[j] PROVE i = j
      BY <1>3 DEF IsInjective
    <2>1. CASE i <= n /\ j <= n
      <3>1. i \in 1..n /\ j \in 1..n /\ a[i] = a[j] BY <2>1, <1>4
      <3> QED BY <3>1, <1>3, <1>10 DEF IsInjective
    <2>2. CASE ~(i <= n) /\ ~(j <= n)
      <3>1. i - n \in 1..m /\ j - n \in 1..m /\ b[i - n] = b[j - n] BY <2>2, <1>4
      <3>2. i - n = j - n BY <3>1, <1>3, <1>10 DEF IsInjective
      <3> QED BY <3>2
    <2>3. CASE i <= n /\ ~(j <= n)
      <3>1. i \in 1..n /\ j - n \in 1..m /\ a[i] = b[j - n] BY <2>3, <1>4
      <3> QED BY <3>1, <1>3, <1>10 DEF ToSet
    <2>4. CASE ~(i <= n) /\ j <= n
      <3>1. j \in 1..n /\ i - n \in 1..m /\ a[j] = b[i - n] BY <2>4, <1>4
      <3> QED BY <3>1, <1>3, <1>10 DEF ToSet
    <2> QED BY <2>1, <2>2, <2>3, <2>4
  <1> QED BY <1>2, <1>5, <1>8, <1>9, <1>10 DEF r

\* What is left after the first n.
LEMMA RestIs ==
  ASSUME NEW S, NEW q \in Seq(S), NEW n \in Nat, n <= Len(q)
  PROVE  LET r == SubSeq(q, n + 1, Len(q))
         IN  /\ r \in Seq(S)
             /\ Len(r) = Len(q) - n
             /\ ToSet(r) \subseteq ToSet(q)
             /\ \A i \in 1..Len(q) : i <= n \/ q[i] \in ToSet(r)
             /\ \A x \in ToSet(r) : \E i \in 1..Len(q) : i > n /\ q[i] = x
             /\ IsInjective(q) => IsInjective(r)
  <1> DEFINE r == SubSeq(q, n + 1, Len(q))
  <1>1. PICK k \in Nat : k = Len(q) OBVIOUS
  <1>2. /\ r \in Seq(S) /\ Len(r) = k - n
        /\ \A i \in 1..(k - n) : r[i] = q[n + i]
    <2>1. r \in Seq(S) /\ Len(r) = k - n BY <1>1, SubSeqProperties
    <2>2. \A i \in 1..(k - n) : r[i] = q[n + i] BY <1>1, SubSeqProperties
    <2> QED BY <2>1, <2>2
  <1>3. DOMAIN r = 1..(k - n) /\ DOMAIN q = 1..k BY <1>1, <1>2
  <1> HIDE DEF r
  <1>4. \A i \in 1..(k - n) : n + i \in 1..k BY <1>1
  <1>5. \A x \in ToSet(r) : \E i \in 1..k : i > n /\ q[i] = x
    <2> TAKE x \in ToSet(r)
    <2>1. PICK i \in 1..(k - n) : x = r[i] BY <1>3 DEF ToSet
    <2> QED BY <2>1, <1>2, <1>4
  <1>6. ToSet(r) \subseteq ToSet(q) BY <1>3, <1>5 DEF ToSet
  <1>7. ASSUME NEW i \in 1..k PROVE i <= n \/ q[i] \in ToSet(r)
    <2> SUFFICES ASSUME ~(i <= n) PROVE q[i] \in ToSet(r) OBVIOUS
    <2>1. i - n \in 1..(k - n) /\ n + (i - n) = i BY <1>1
    <2>2. r[i - n] = q[i] BY <2>1, <1>2
    <2> QED BY <2>1, <2>2, <1>3 DEF ToSet
  <1>8. ASSUME IsInjective(q) PROVE IsInjective(r)
    <2> SUFFICES ASSUME NEW i \in 1..(k - n), NEW j \in 1..(k - n), r[i] = r[j] PROVE i = j
      BY <1>3 DEF IsInjective
    <2>1. n + i \in 1..k /\ n + j \in 1..k /\ q[n + i] = q[n + j] BY <1>2, <1>4
    <2>2. n + i = n + j BY <2>1, <1>3, <1>8 DEF IsInjective
    <2> QED BY <2>2
  <1> QED BY <1>1, <1>2, <1>5, <1>6, <1>7, <1>8 DEF r

\* The first element of a sequence, and the others.
LEMMA TailIs ==
  ASSUME NEW S, NEW q \in Seq(S), q # <<>>
  PROVE  /\ Tail(q) \in Seq(S) /\ Head(q) \in S /\ Head(q) \in ToSet(q)
         /\ ToSet(q) = {Head(q)} \cup ToSet(Tail(q))
         /\ IsInjective(q) => IsInjective(Tail(q)) /\ Head(q) \notin ToSet(Tail(q))
  <1> DEFINE r == Tail(q)
  <1>1. PICK k \in Nat : k = Len(q) /\ k # 0 OBVIOUS
  <1>2. /\ r \in Seq(S) /\ Len(r) = k - 1
        /\ \A i \in 1..(k - 1) : r[i] = q[i + 1]
        /\ Head(q) = q[1]
    BY <1>1, HeadTailProperties
  <1>3. DOMAIN r = 1..(k - 1) /\ DOMAIN q = 1..k BY <1>1, <1>2
  <1> HIDE DEF r
  <1>4. \A i \in 1..(k - 1) : i + 1 \in 1..k /\ i + 1 # 1 BY <1>1
  <1>5. 1 \in 1..k BY <1>1
  <1>6. ToSet(r) \subseteq ToSet(q) BY <1>2, <1>3, <1>4 DEF ToSet
  <1>7. ASSUME NEW x \in ToSet(q) PROVE x = Head(q) \/ x \in ToSet(r)
    <2>1. PICK i \in 1..k : x = q[i] BY <1>3 DEF ToSet
    <2>2. CASE i # 1
      <3>1. i - 1 \in 1..(k - 1) /\ (i - 1) + 1 = i BY <2>2
      <3>2. r[i - 1] = x BY <2>1, <3>1, <1>2
      <3> QED BY <3>1, <3>2, <1>3 DEF ToSet
    <2> QED BY <2>1, <2>2, <1>2
  <1>8. ASSUME IsInjective(q) PROVE IsInjective(r) /\ Head(q) \notin ToSet(r)
    <2>1. ASSUME NEW i \in 1..(k - 1), NEW j \in 1..(k - 1), r[i] = r[j] PROVE i = j
      <3>1. i + 1 \in 1..k /\ j + 1 \in 1..k /\ q[i + 1] = q[j + 1] BY <2>1, <1>2, <1>4
      <3>2. i + 1 = j + 1 BY <3>1, <1>3, <1>8 DEF IsInjective
      <3> QED BY <3>2
    <2>2. ASSUME NEW i \in 1..(k - 1), r[i] = q[1] PROVE FALSE
      <3>1. i + 1 \in 1..k /\ q[i + 1] = q[1] BY <2>2, <1>2, <1>4
      <3> QED BY <3>1, <1>3, <1>4, <1>5, <1>8 DEF IsInjective
    <2>3. IsInjective(r) BY <2>1, <1>3 DEF IsInjective
    <2>4. Head(q) \notin ToSet(r) BY <2>2, <1>2, <1>3 DEF ToSet
    <2> QED BY <2>3, <2>4
  <1>9. Head(q) \in ToSet(q) /\ Head(q) \in S BY <1>1, <1>2, <1>3, <1>5 DEF ToSet
  <1> QED BY <1>2, <1>6, <1>7, <1>8, <1>9 DEF r

\* Without its element i.
LEMMA RemoveIs ==
  ASSUME NEW S, NEW q \in Seq(S), NEW i \in 1..Len(q)
  PROVE  LET r == RemoveAt(q, i)
         IN  /\ r \in Seq(S) /\ Len(r) = Len(q) - 1
             /\ ToSet(r) \subseteq ToSet(q)
             /\ IsInjective(q) => IsInjective(r) /\ ToSet(r) = ToSet(q) \ {q[i]}
  <1> DEFINE r == RemoveAt(q, i)
  <1>1. PICK k \in Nat : k = Len(q) /\ i \in 1..k OBVIOUS
  <1>2. PICK a \in Seq(S) : a = SubSeq(q, 1, i - 1) /\ Len(a) = i - 1 /\ \A j \in 1..(i - 1) : a[j] = q[j]
    <2>1. SubSeq(q, 1, i - 1) \in Seq(S) /\ Len(SubSeq(q, 1, i - 1)) = i - 1 BY <1>1, SubSeqProperties
    <2>2. \A j \in 1..(i - 1) : SubSeq(q, 1, i - 1)[j] = q[j] BY <1>1, SubSeqProperties
    <2> QED BY <2>1, <2>2
  <1>3. PICK b \in Seq(S) : b = SubSeq(q, i + 1, k) /\ Len(b) = k - i /\ \A j \in 1..(k - i) : b[j] = q[i + j]
    <2>1. SubSeq(q, i + 1, k) \in Seq(S) /\ Len(SubSeq(q, i + 1, k)) = k - i BY <1>1, SubSeqProperties
    <2>2. \A j \in 1..(k - i) : SubSeq(q, i + 1, k)[j] = q[i + j] BY <1>1, SubSeqProperties
    <2> QED BY <2>1, <2>2
  <1>4. r = a \o b BY <1>1, <1>2, <1>3 DEF RemoveAt
  <1> HIDE DEF r
  <1>5. r \in Seq(S) /\ ToSet(r) = ToSet(a) \cup ToSet(b) BY <1>4, ConcatIs
  <1>6. Len(r) = k - 1
    <2>1. Len(r) = (i - 1) + (k - i) BY <1>2, <1>3, <1>4, ConcatProperties
    <2> QED BY <2>1
  <1>7. DOMAIN a = 1..(i - 1) /\ DOMAIN b = 1..(k - i) /\ DOMAIN q = 1..k BY <1>1, <1>2, <1>3
  <1>8. \A j \in 1..(i - 1) : j \in 1..k /\ j < i BY <1>1
  <1>9. \A j \in 1..(k - i) : i + j \in 1..k /\ i + j > i BY <1>1
  <1>10. ToSet(a) \subseteq ToSet(q) BY <1>2, <1>7, <1>8 DEF ToSet
  <1>11. ToSet(b) \subseteq ToSet(q) BY <1>3, <1>7, <1>9 DEF ToSet
  <1>12. ASSUME NEW x \in ToSet(q), x # q[i] PROVE x \in ToSet(r)
    <2>1. PICK j \in 1..k : x = q[j] /\ j # i BY <1>7, <1>12 DEF ToSet
    <2>2. CASE j < i
      <3>1. j \in 1..(i - 1) BY <2>2
      <3> QED BY <2>1, <3>1, <1>2, <1>5, <1>7 DEF ToSet
    <2>3. CASE j > i
      <3>1. j - i \in 1..(k - i) /\ i + (j - i) = j BY <2>3, <1>1
      <3>2. b[j - i] = x BY <2>1, <3>1, <1>3
      <3> QED BY <3>1, <3>2, <1>5, <1>7 DEF ToSet
    <2> QED BY <2>1, <2>2, <2>3
  <1>13. ASSUME IsInjective(q) PROVE IsInjective(r) /\ q[i] \notin ToSet(r)
    <2>1. \A j \in 1..k, l \in 1..k : q[j] = q[l] => j = l BY <1>7, <1>13 DEF IsInjective
    <2>2. IsInjective(a) BY <2>1, <1>2, <1>7, <1>8 DEF IsInjective
    <2>3. ASSUME NEW j \in 1..(k - i), NEW l \in 1..(k - i), b[j] = b[l] PROVE j = l
      <3>1. i + j = i + l BY <2>1, <2>3, <1>3, <1>9
      <3> QED BY <3>1
    <2>4. IsInjective(b) BY <2>3, <1>7 DEF IsInjective
    <2>5. ASSUME NEW j \in 1..(i - 1), NEW l \in 1..(k - i) PROVE a[j] # b[l]
      BY <2>1, <1>2, <1>3, <1>8, <1>9
    <2>6. ToSet(a) \cap ToSet(b) = {} BY <2>5, <1>7 DEF ToSet
    <2>7. q[i] \notin ToSet(a) BY <2>1, <1>1, <1>2, <1>7, <1>8 DEF ToSet
    <2>8. q[i] \notin ToSet(b) BY <2>1, <1>1, <1>3, <1>7, <1>9 DEF ToSet
    <2>9. IsInjective(r) BY <2>2, <2>4, <2>6, <1>4, ConcatIs
    <2> QED BY <2>7, <2>8, <2>9, <1>5
  <1> QED BY <1>1, <1>5, <1>6, <1>10, <1>11, <1>12, <1>13 DEF r

\* A set in some order.
LEMMA SetToSeqIs ==
  ASSUME NEW S, IsFiniteSet(S)
  PROVE  SetToSeq(S) \in Seq(S) /\ ToSet(SetToSeq(S)) = S /\ IsInjective(SetToSeq(S))
  <1> DEFINE n == Cardinality(S) f == SetToSeq(S)
  <1>1. n \in Nat /\ ExistsBijection(1..n, S) BY FS_CardinalityType
  <1>2. PICK g \in [1..n -> S] : IsInjective(g)
    BY <1>1 DEF ExistsBijection, Bijection, Injection, IsInjective
  <1>3. f \in [1..n -> S] /\ IsInjective(f) BY <1>2 DEF SetToSeq
  <1> HIDE DEF f
  <1>4. f \in Injection(1..n, S) BY <1>3 DEF Injection, IsInjective
  <1>5. Cardinality(1..n) = n
    <2>1. PICK m \in Nat : m = n BY <1>1
    <2>2. Cardinality(1..m) = IF 1 > m THEN 0 ELSE m - 1 + 1 BY FS_Interval
    <2> QED BY <2>1, <2>2
  <1>6. f \in Surjection(1..n, S) BY <1>4, <1>5, FS_Injection
  <1>7. \A x \in S : \E i \in 1..n : f[i] = x BY <1>6 DEF Surjection
  <1>8. ToSet(f) = S BY <1>3, <1>7 DEF ToSet
  <1>9. f \in Seq(S) BY <1>1, <1>3, SeqDef
  <1> QED BY <1>3, <1>8, <1>9 DEF f

\* A sequence has no more elements than places.
LEMMA ToSetBound ==
  ASSUME NEW S, NEW q \in Seq(S)
  PROVE  IsFiniteSet(ToSet(q)) /\ Cardinality(ToSet(q)) \in Nat /\ Cardinality(ToSet(q)) <= Len(q)
  <1>1. PICK n \in Nat : n = Len(q) OBVIOUS
  <1>2. q \in [1..n -> ToSet(q)] BY <1>1 DEF ToSet
  <1>3. q \in Surjection(1..n, ToSet(q)) BY <1>1, <1>2 DEF Surjection, ToSet
  <1>4. ExistsSurjection(1..n, ToSet(q)) BY <1>3 DEF ExistsSurjection
  <1>5. Cardinality(ToSet(q)) <= n BY <1>4, FS_SurjCardinalityBound
  <1>6. IsFiniteSet(ToSet(q)) BY <1>4, FS_NatSurjection
  <1> QED BY <1>1, <1>5, <1>6, FS_CardinalityType

(***************************************************************************)
(* A worker                                                                *)
(***************************************************************************)
BrowserWorker ==
    [isolate : BOOLEAN, queue : Seq(AllFiles), promise : BOOLEAN,
     outcome : {"pending", "ok", "error"}, error : BOOLEAN, started : BOOLEAN,
     call : {"none", "init", "running"},
     own : SUBSET Pages, grown : SUBSET (SUBSET Pages),
     sessions : SUBSET Pages, busy : SUBSET Pages, opening : SUBSET Pages,
     ready : SUBSET Pages, cleaning : SUBSET Pages,
     file : [Pages -> AllFiles \cup {None}]]

\* Files of p in the runs up to r.
FilesUpTo(r, p) == UNION {FilesOf(i, p) : i \in 1 .. r}
\* Those of run r, if there is one.
Mine(r, p) == FilesOf(r, p) \cap AllFiles

\* A worker is active while a call of it is under way.  Its promise is set as
\* long as the outcome of that call is open, and pages are busy for a promise
\* only.  Nothing runs before the provider is up.
InCall(w, active) ==
    /\ active <=> w.call # "none"
    /\ w.promise <=> active /\ w.outcome = "pending"
    /\ w.busy # {} => w.promise
    /\ w.call = "init" => w.busy = {} /\ w.promise /\ ~w.error
    /\ ~w.started => /\ w.sessions = {} /\ w.busy = {} /\ w.opening = {}
                     /\ w.ready = {} /\ w.cleaning = {}
                     /\ \A s \in Pages : w.file[s] = None

KnownFiles(w, p, r) ==
    /\ ToSet(w.queue) \subseteq FilesUpTo(r, p)
    /\ \A s \in Pages : w.file[s] \in FilesUpTo(r, p) \cup {None}

\* What the queue and the pages hold of `mine`, the files of this run, when `d`
\* are the files that ended: each of the others is in one place, and in none as
\* long as the project waits for its slot.
InOnePlace(w, mine, waits, d) ==
    /\ w.cleaning = {} /\ w.opening \cap (w.busy \cup w.ready) = {}
    /\ w.queue # <<>> => w.promise
    /\ IsInjective(w.queue) /\ ToSet(w.queue) \subseteq mine \ d
    /\ \A s \in w.busy : w.file[s] # None => w.file[s] \in mine \ d
    /\ \A s \in Pages : w.file[s] \notin ToSet(w.queue)
    /\ \A s, t \in Pages : w.file[s] # None /\ w.file[s] = w.file[t] => s = t
    /\ waits => /\ mine \cap d = {}
                /\ \A s \in Pages : w.file[s] \notin mine

\* No file is lost as long as nothing failed and nobody cancelled (c).
Covers(w, mine, active, d, c) ==
    /\ active /\ ~c /\ w.outcome = "pending" /\ ~w.error =>
           mine \subseteq d \cup ToSet(w.queue) \cup {w.file[s] : s \in w.busy}
    /\ active /\ ~c /\ w.outcome = "ok" => mine \subseteq d

\* What holds of a worker even while an operation is under way.  The context K
\* is the project p, whether it has a slot (active) or waits for one, the run r,
\* the files d that ended and whether the run was cancelled (c).
Base(w, K) ==
    /\ w \in BrowserWorker /\ InCall(w, K.active) /\ KnownFiles(w, K.p, K.r)
    /\ K.waits => ~K.active
    /\ w.isolate <=> K.p \in Isolated
    /\ K.p \in Isolated => InOnePlace(w, Mine(K.r, K.p), K.waits, K.d)

CoversIf(w, K) == K.p \in Isolated => Covers(w, Mine(K.r, K.p), K.active, K.d, K.c)

\* And what holds after it.
Fine(w, K) == Base(w, K) /\ CoversIf(w, K) /\ (w.error => w.promise)

\* The files of a run that exists are files.
LEMMA MineIs ==
  ASSUME NEW r \in 1 .. Len(Runs), NEW p \in Projects
  PROVE  Mine(r, p) = FilesOf(r, p) /\ FilesOf(r, p) \subseteq AllFiles
  BY DEF Mine, AllFiles

\* None is no file.
LEMMA NoneIsNoFile ==
  ASSUME NEW r, NEW p PROVE None \notin Mine(r, p) /\ Mine(r, p) \subseteq AllFiles
  BY BrowserAssumption DEF Mine

\* A file belongs to one run and to one project.
LEMMA FilesApart ==
  ASSUME NEW r, NEW p, NEW i, NEW q, NEW f, f \in FilesOf(r, p), f \in FilesOf(i, q)
  PROVE  r = i /\ p = q
  BY DEF FilesOf

\* No file of the runs so far is one of the next run.
LEMMA KnownIsNotNext ==
  ASSUME NEW r \in Nat, NEW p, NEW f \in FilesUpTo(r, p)
  PROVE  f \notin Mine(r + 1, p)
  <1>1. PICK i \in 1..r : f \in FilesOf(i, p) BY DEF FilesUpTo
  <1>2. i # r + 1 OBVIOUS
  <1> QED BY <1>1, <1>2, FilesApart DEF Mine

\* What was known stays known in the next run.
LEMMA KnownGrows ==
  ASSUME NEW r \in Nat, NEW p PROVE FilesUpTo(r, p) \subseteq FilesUpTo(r + 1, p)
  BY DEF FilesUpTo

\* The files of a run are known in it.
LEMMA MineIsKnown ==
  ASSUME NEW r \in Nat, r > 0, NEW p PROVE FilesOf(r, p) \subseteq FilesUpTo(r, p)
  BY DEF FilesUpTo

\* What is known are files.
LEMMA KnownAreFiles ==
  ASSUME NEW r \in 0 .. Len(Runs), NEW p \in Projects
  PROVE  FilesUpTo(r, p) \subseteq AllFiles /\ None \notin FilesUpTo(r, p)
  <1>1. Len(Runs) \in Nat BY BrowserAssumption
  <1>2. \A i \in 1..r : i \in 1..Len(Runs) BY <1>1
  <1>3. FilesUpTo(r, p) \subseteq AllFiles BY <1>2, MineIs DEF FilesUpTo
  <1> QED BY <1>3, BrowserAssumption

\* Settling a worker.
LEMMA SettleIs ==
  ASSUME NEW w \in BrowserWorker
  PROVE  LET v == Settle(w)
         IN  /\ v \in BrowserWorker
             /\ ~v.promise /\ ~v.error
             /\ v.outcome = IF ~w.promise \/ w.outcome # "pending" THEN w.outcome
                            ELSE IF w.error THEN "error" ELSE "ok"
             /\ v.isolate = w.isolate /\ v.queue = w.queue /\ v.started = w.started
             /\ v.call = w.call /\ v.sessions = w.sessions /\ v.busy = w.busy
             /\ v.opening = w.opening /\ v.ready = w.ready /\ v.cleaning = w.cleaning
             /\ v.file = w.file /\ v.own = w.own /\ v.grown = w.grown
  BY DEF Settle, BrowserWorker

\* settle() keeps a worker in order when its call has begun and no file is left in its queue.
LEMMA SettleKeeps ==
  ASSUME NEW w, NEW K,
         Base(w, K), CoversIf(w, K),
         w.call # "init", K.p \in Isolated => w.queue = <<>>
  PROVE  Fine(SettleUnlessBusy(w), K)
  <1>1. CASE w.busy # {}
    <2>1. SettleUnlessBusy(w) = w BY <1>1 DEF SettleUnlessBusy
    <2>2. w.promise BY <1>1 DEF Base, InCall
    <2> QED BY <2>1, <2>2 DEF Fine
  <1>2. CASE w.busy = {}
    <2>0. w \in BrowserWorker BY DEF Base
    <2>1. PICK v : v = Settle(w) OBVIOUS
    <2>2. /\ v \in BrowserWorker
          /\ ~v.promise /\ ~v.error
          /\ v.outcome = IF ~w.promise \/ w.outcome # "pending" THEN w.outcome
                         ELSE IF w.error THEN "error" ELSE "ok"
          /\ v.isolate = w.isolate /\ v.queue = w.queue /\ v.started = w.started
          /\ v.call = w.call /\ v.sessions = w.sessions /\ v.busy = w.busy
          /\ v.opening = w.opening /\ v.ready = w.ready /\ v.cleaning = w.cleaning
          /\ v.file = w.file
      BY <2>0, <2>1, SettleIs
    <2>3. InCall(w, K.active) BY DEF Base
    <2>4. K.active => v.outcome # "pending" BY <2>2, <2>3 DEF InCall
    <2>5. InCall(v, K.active)
      <3>1. K.active <=> v.call # "none" BY <2>2, <2>3 DEF InCall
      <3>2. v.promise <=> K.active /\ v.outcome = "pending" BY <2>2, <2>4
      <3>3. ~v.started => /\ v.sessions = {} /\ v.busy = {} /\ v.opening = {}
                          /\ v.ready = {} /\ v.cleaning = {}
                          /\ \A s \in Pages : v.file[s] = None
        BY <2>2, <2>3 DEF InCall
      <3> QED BY <3>1, <3>2, <3>3, <2>2, <1>2 DEF InCall
    <2>6. KnownFiles(v, K.p, K.r) BY <2>2 DEF Base, KnownFiles
    <2>7. ASSUME K.p \in Isolated PROVE InOnePlace(v, Mine(K.r, K.p), K.waits, K.d)
      <3>1. InOnePlace(w, Mine(K.r, K.p), K.waits, K.d) BY <2>7 DEF Base
      <3>2. v.queue = <<>> BY <2>2, <2>7
      <3> QED BY <3>1, <3>2, <2>2 DEF InOnePlace
    <2>8. ASSUME K.p \in Isolated PROVE Covers(v, Mine(K.r, K.p), K.active, K.d, K.c)
      <3>1. Covers(w, Mine(K.r, K.p), K.active, K.d, K.c) BY <2>8 DEF CoversIf
      <3>2. SUFFICES ASSUME K.active, ~K.c, v.outcome = "ok" PROVE Mine(K.r, K.p) \subseteq K.d
        BY <2>4 DEF Covers
      <3>3. CASE w.outcome # "pending"
        <4>1. w.outcome = "ok" BY <3>2, <3>3, <2>2
        <4> QED BY <4>1, <3>1, <3>2 DEF Covers
      <3>4. CASE w.outcome = "pending"
        <4>1. w.promise BY <3>2, <3>4, <2>3 DEF InCall
        <4>2. ~w.error BY <4>1, <3>2, <3>4, <2>2
        <4>3. w.queue = <<>> BY <2>8
        <4>4. Mine(K.r, K.p) \subseteq K.d \cup ToSet(w.queue) \cup {w.file[s] : s \in w.busy}
          BY <3>1, <3>2, <3>4, <4>2 DEF Covers
        <4> QED BY <4>3, <4>4, <1>2, NothingInEmpty
      <3> QED BY <3>3, <3>4
    <2>9. v.isolate <=> K.p \in Isolated BY <2>2 DEF Base
    <2>10. Base(v, K) BY <2>2, <2>5, <2>6, <2>7, <2>9 DEF Base
    <2>11. SettleUnlessBusy(w) = v BY <1>2, <2>1 DEF SettleUnlessBusy
    <2> QED BY <2>2, <2>8, <2>10, <2>11 DEF Fine, CoversIf
  <1> QED BY <1>1, <1>2

\* The pages that a call awaits play no part in it.
Awaits(w, o, g) == [w EXCEPT !.own = o, !.grown = g]

\* Neither does what a call awaits change a worker otherwise.
LEMMA OwnKeeps ==
  ASSUME NEW w, NEW K,
         NEW o \in SUBSET Pages, NEW g \in SUBSET (SUBSET Pages),
         Base(w, K), CoversIf(w, K)
  PROVE  /\ Base(Awaits(w, o, g), K)
         /\ CoversIf(Awaits(w, o, g), K)
         /\ Awaits(w, o, g).call = w.call /\ Awaits(w, o, g).error = w.error
         /\ Awaits(w, o, g).promise = w.promise
  <1>0. PICK v : v = Awaits(w, o, g) OBVIOUS
  <1>1. w \in BrowserWorker BY DEF Base
  <1>2. /\ v \in BrowserWorker
        /\ v.isolate = w.isolate /\ v.queue = w.queue /\ v.promise = w.promise
        /\ v.outcome = w.outcome /\ v.error = w.error /\ v.started = w.started
        /\ v.call = w.call /\ v.sessions = w.sessions /\ v.busy = w.busy
        /\ v.opening = w.opening /\ v.ready = w.ready /\ v.cleaning = w.cleaning
        /\ v.file = w.file
    BY <1>0, <1>1 DEF BrowserWorker, Awaits
  <1>3. InCall(v, K.active) BY <1>2 DEF Base, InCall
  <1>4. KnownFiles(v, K.p, K.r) BY <1>2 DEF Base, KnownFiles
  <1>5. ASSUME K.p \in Isolated PROVE InOnePlace(v, Mine(K.r, K.p), K.waits, K.d)
    <2>1. InOnePlace(w, Mine(K.r, K.p), K.waits, K.d) BY <1>5 DEF Base
    <2> QED BY <2>1, <1>2 DEF InOnePlace
  <1>6. Base(v, K) BY <1>2, <1>3, <1>4, <1>5 DEF Base
  <1>7. CoversIf(v, K) BY <1>2 DEF CoversIf, Covers
  <1> QED BY <1>0, <1>2, <1>6, <1>7

\* reject() of a call that has begun, with an error or after a cancel.
LEMMA RejectKeeps ==
  ASSUME NEW w, NEW K,
         NEW isError \in BOOLEAN, NEW gone,
         Base(w, K), w.call # "init", isError \/ K.c,
         K.p \in Isolated /\ K.active /\ ~K.c /\ w.outcome = "ok" => Mine(K.r, K.p) \subseteq K.d
  PROVE  /\ Fine(Reject(w, isError, gone), K)
         /\ Reject(w, isError, gone).call = w.call
         /\ Reject(w, isError, gone).started = w.started
         /\ Reject(w, isError, gone).queue = <<>>
  <1>0. w \in BrowserWorker BY DEF Base
  <1>01. PICK e \in BOOLEAN : e = (w.error \/ isError) OBVIOUS
  <1>02. PICK b \in SUBSET Pages : b = w.busy \ gone BY <1>0 DEF BrowserWorker
  <1>03. PICK u : u = [w EXCEPT !.error = e, !.busy = b, !.queue = <<>>] OBVIOUS
  <1>1. u = [w EXCEPT !.error = @ \/ isError, !.busy = @ \ gone, !.queue = <<>>] BY <1>01, <1>02, <1>03
  <1>04. <<>> \in Seq(AllFiles) OBVIOUS
  <1>2. /\ u \in BrowserWorker
        /\ u.error = e /\ u.busy = b /\ u.queue = <<>>
        /\ u.isolate = w.isolate /\ u.promise = w.promise
        /\ u.outcome = w.outcome /\ u.started = w.started
        /\ u.call = w.call /\ u.sessions = w.sessions
        /\ u.opening = w.opening /\ u.ready = w.ready /\ u.cleaning = w.cleaning
        /\ u.file = w.file
    BY <1>0, <1>03, <1>04 DEF BrowserWorker
  <1>3. InCall(u, K.active)
    <2>1. InCall(w, K.active) BY DEF Base
    <2> QED BY <1>02, <1>2, <2>1 DEF InCall
  <1>4. KnownFiles(u, K.p, K.r) BY <1>2, NothingInEmpty DEF Base, KnownFiles
  <1>5. ASSUME K.p \in Isolated PROVE InOnePlace(u, Mine(K.r, K.p), K.waits, K.d)
    <2>1. InOnePlace(w, Mine(K.r, K.p), K.waits, K.d) BY <1>5 DEF Base
    <2>2. ToSet(u.queue) = {} /\ IsInjective(u.queue) BY <1>2, NothingInEmpty
    <2>3. u.cleaning = {} /\ u.opening \cap (u.busy \cup u.ready) = {}
      BY <1>02, <1>2, <2>1 DEF InOnePlace
    <2>4. \A s \in u.busy : u.file[s] # None => u.file[s] \in Mine(K.r, K.p) \ K.d
      BY <1>02, <1>2, <2>1 DEF InOnePlace
    <2>5. \A s, t \in Pages : u.file[s] # None /\ u.file[s] = u.file[t] => s = t
      BY <1>2, <2>1 DEF InOnePlace
    <2>6. K.waits => /\ Mine(K.r, K.p) \cap K.d = {}
                   /\ \A s \in Pages : u.file[s] \notin Mine(K.r, K.p)
      BY <1>2, <2>1 DEF InOnePlace
    <2> QED BY <1>2, <2>2, <2>3, <2>4, <2>5, <2>6 DEF InOnePlace
  <1>6. Base(u, K) BY <1>2, <1>3, <1>4, <1>5 DEF Base
  <1>7. CoversIf(u, K) BY <1>01, <1>2 DEF CoversIf, Covers
  <1>80. u.call # "init" BY <1>2
  <1>81. K.p \in Isolated => u.queue = <<>> BY <1>2
  <1>8. Fine(SettleUnlessBusy(u), K)
    BY <1>80, <1>81, <1>6, <1>7, SettleKeeps
  <1>9. SettleUnlessBusy(u) = u \/ SettleUnlessBusy(u) = Settle(u) BY DEF SettleUnlessBusy
  <1>10. LET v == SettleUnlessBusy(u)
         IN  v.call = u.call /\ v.started = u.started /\ v.queue = u.queue
    BY <1>2, <1>9, SettleIs
  <1>11. Reject(w, isError, gone) = SettleUnlessBusy(u) BY <1>1 DEF Reject
  <1> QED BY <1>2, <1>8, <1>10, <1>11

\* finishSession of a page that has no file.
LEMMA FinishKeeps ==
  ASSUME NEW w, NEW K,
         NEW s \in Pages,
         Base(w, K), CoversIf(w, K),
         w.call # "init", w.started,
         K.p \in Isolated => w.queue = <<>> /\ s \notin w.opening /\ (s \in w.busy => w.file[s] = None)
  PROVE  Fine(FinishSession(w, s), K)
  <1>0. w \in BrowserWorker BY DEF Base
  <1>1. PICK u : u = [w EXCEPT !.busy = @ \ {s}, !.ready = @ \cup {s}, !.cleaning = @ \ {s}] OBVIOUS
  <1>2. /\ u \in BrowserWorker
        /\ u.busy = w.busy \ {s} /\ u.ready = w.ready \cup {s} /\ u.cleaning = w.cleaning \ {s}
        /\ u.error = w.error /\ u.queue = w.queue
        /\ u.isolate = w.isolate /\ u.promise = w.promise
        /\ u.outcome = w.outcome /\ u.started = w.started
        /\ u.call = w.call /\ u.sessions = w.sessions
        /\ u.opening = w.opening /\ u.file = w.file
    BY <1>0, <1>1 DEF BrowserWorker
  <1>3. InCall(u, K.active)
    <2>1. InCall(w, K.active) BY DEF Base
    <2> QED BY <1>2, <2>1 DEF InCall
  <1>4. KnownFiles(u, K.p, K.r) BY <1>2 DEF Base, KnownFiles
  <1>5. ASSUME K.p \in Isolated PROVE InOnePlace(u, Mine(K.r, K.p), K.waits, K.d)
    <2>1. InOnePlace(w, Mine(K.r, K.p), K.waits, K.d) BY <1>5 DEF Base
    <2>2. u.cleaning = {} BY <1>2, <2>1 DEF InOnePlace
    <2>3. u.opening \cap (u.busy \cup u.ready) = {} BY <1>2, <1>5, <2>1 DEF InOnePlace
    <2>4. \A t \in u.busy : u.file[t] # None => u.file[t] \in Mine(K.r, K.p) \ K.d
      BY <1>2, <2>1 DEF InOnePlace
    <2> QED BY <1>2, <2>1, <2>2, <2>3, <2>4 DEF InOnePlace
  <1>6. Base(u, K) BY <1>2, <1>3, <1>4, <1>5 DEF Base
  <1>7. CoversIf(u, K)
    <2> SUFFICES ASSUME K.p \in Isolated PROVE Covers(u, Mine(K.r, K.p), K.active, K.d, K.c) BY DEF CoversIf
    <2>1. Covers(w, Mine(K.r, K.p), K.active, K.d, K.c) BY DEF CoversIf
    <2>2. None \notin Mine(K.r, K.p) BY NoneIsNoFile
    <2>3. \A f \in Mine(K.r, K.p) : f \in {w.file[t] : t \in w.busy} => f \in {u.file[t] : t \in u.busy}
      BY <1>2, <2>2
    <2> QED BY <1>2, <2>1, <2>3 DEF Covers
  <1>8. Fine(SettleUnlessBusy(u), K)
    BY <1>2, <1>6, <1>7, SettleKeeps
  <1> QED BY <1>1, <1>8 DEF FinishSession

\* A page that takes the next file.
Takes(w, s) ==
    [w EXCEPT !.queue = Tail(@), !.busy = @ \cup {s}, !.ready = @ \ {s}, !.file[s] = Head(w.queue)]

\* The file that a page takes was in the queue, and is in that page only.
LEMMA TakeKeeps ==
  ASSUME NEW w, NEW K,
         NEW s \in Pages,
         Base(w, K), CoversIf(w, K),
         w.call # "init", w.started, w.error => w.promise,
         K.p \in Isolated => s \notin w.opening /\ (s \in w.busy => w.file[s] = None),
         w.queue # <<>>, w.promise
  PROVE  Fine(Takes(w, s), K)
  <1>0. w \in BrowserWorker BY DEF Base
  <1>1. w.queue \in Seq(AllFiles) BY <1>0 DEF BrowserWorker
  <1>2. PICK q \in Seq(AllFiles), f \in AllFiles : q = Tail(w.queue) /\ f = Head(w.queue)
    BY <1>1, TailIs
  <1>3. /\ ToSet(w.queue) = {f} \cup ToSet(q)
        /\ IsInjective(w.queue) => IsInjective(q) /\ f \notin ToSet(q)
    BY <1>1, <1>2, TailIs
  <1>4. PICK u : u = Takes(w, s) OBVIOUS
  <1>5. PICK g \in [Pages -> AllFiles \cup {None}] : g = [w.file EXCEPT ![s] = f]
    BY <1>0 DEF BrowserWorker
  <1>6. g[s] = f /\ \A t \in Pages : t # s => g[t] = w.file[t] BY <1>0, <1>5 DEF BrowserWorker
  <1>70. PICK b \in SUBSET Pages, y \in SUBSET Pages : b = w.busy \cup {s} /\ y = w.ready \ {s}
    BY <1>0, ZenonT(60) DEF BrowserWorker
  <1>7. u = [w EXCEPT !.queue = q, !.busy = b, !.ready = y, !.file = g]
    BY <1>2, <1>4, <1>5, <1>70 DEF Takes
  <1>8. /\ u \in BrowserWorker
        /\ u.busy = b /\ u.ready = y /\ u.queue = q /\ u.file = g
        /\ u.cleaning = w.cleaning /\ u.error = w.error
        /\ u.isolate = w.isolate /\ u.promise = w.promise
        /\ u.outcome = w.outcome /\ u.started = w.started
        /\ u.call = w.call /\ u.sessions = w.sessions /\ u.opening = w.opening
    BY <1>0, <1>7 DEF BrowserWorker
  <1>9. InCall(u, K.active)
    <2>1. InCall(w, K.active) BY DEF Base
    <2> QED BY <1>70, <1>8, <2>1 DEF InCall
  <1>10. KnownFiles(u, K.p, K.r)
    <2>1. KnownFiles(w, K.p, K.r) BY DEF Base
    <2> QED BY <2>1, <1>3, <1>6, <1>8 DEF KnownFiles
  <1>11. ~K.waits
    <2>1. K.active BY DEF Base, InCall
    <2> QED BY <2>1 DEF Base
  <1>12. ASSUME K.p \in Isolated PROVE InOnePlace(u, Mine(K.r, K.p), K.waits, K.d)
    <2>1. InOnePlace(w, Mine(K.r, K.p), K.waits, K.d) BY <1>12 DEF Base
    <2>2. IsInjective(q) /\ f \notin ToSet(q) /\ f \in Mine(K.r, K.p) \ K.d /\ ToSet(q) \subseteq Mine(K.r, K.p) \ K.d
      BY <2>1, <1>3 DEF InOnePlace
    <2>3. u.cleaning = {} /\ u.opening \cap (u.busy \cup u.ready) = {}
      BY <2>1, <1>12, <1>70, <1>8 DEF InOnePlace
    <2>4. \A t \in u.busy : u.file[t] # None => u.file[t] \in Mine(K.r, K.p) \ K.d
      <3> TAKE t \in u.busy
      <3>1. CASE t = s BY <3>1, <2>2, <1>6, <1>8
      <3>2. CASE t # s
        <4>1. t \in w.busy /\ t \in Pages /\ u.file[t] = w.file[t] BY <3>2, <1>0, <1>6, <1>70, <1>8 DEF BrowserWorker
        <4> QED BY <4>1, <2>1 DEF InOnePlace
      <3> QED BY <3>1, <3>2
    <2>5. \A t \in Pages : w.file[t] # f /\ w.file[t] \notin ToSet(q) BY <2>1, <1>3 DEF InOnePlace
    <2>6. \A t \in Pages : u.file[t] \notin ToSet(u.queue) BY <2>2, <2>5, <1>6, <1>8
    <2>7. \A t, x \in Pages : u.file[t] # None /\ u.file[t] = u.file[x] => t = x
      <3>1. \A t, x \in Pages : w.file[t] # None /\ w.file[t] = w.file[x] => t = x BY <2>1 DEF InOnePlace
      <3> QED BY <3>1, <2>5, <1>6, <1>8
    <2> QED BY <2>2, <2>3, <2>4, <2>6, <2>7, <1>8, <1>11 DEF InOnePlace
  <1>13. ASSUME K.p \in Isolated PROVE Covers(u, Mine(K.r, K.p), K.active, K.d, K.c)
    <2>1. Covers(w, Mine(K.r, K.p), K.active, K.d, K.c) BY <1>13 DEF CoversIf
    <2>2. None \notin Mine(K.r, K.p) BY NoneIsNoFile
    <2>3. w.outcome = "pending" BY DEF Base, InCall
    <2>4. ASSUME NEW x \in Mine(K.r, K.p), x \in {w.file[t] : t \in w.busy}
          PROVE  x \in {u.file[t] : t \in u.busy}
      <3>1. PICK t \in w.busy : x = w.file[t] BY <2>4
      <3>2. t # s BY <3>1, <2>2, <1>13
      <3>3. t \in u.busy /\ u.file[t] = x BY <3>1, <3>2, <1>0, <1>6, <1>70, <1>8 DEF BrowserWorker
      <3> QED BY <3>3
    <2>5. f \in {u.file[t] : t \in u.busy} BY <1>6, <1>70, <1>8
    <2>6. K.active /\ ~K.c /\ w.outcome = "pending" /\ ~w.error =>
            Mine(K.r, K.p) \subseteq K.d \cup ToSet(q) \cup {u.file[t] : t \in u.busy}
      BY <2>1, <2>4, <2>5, <1>3 DEF Covers
    <2> QED BY <2>3, <2>6, <1>8 DEF Covers
  <1>14. Base(u, K) BY <1>8, <1>9, <1>10, <1>11, <1>12 DEF Base
  <1> QED BY <1>4, <1>8, <1>13, <1>14 DEF Fine, CoversIf

\* The last file is given up: neither of the others is.
GivesUp(w) == [w EXCEPT !.queue = IF @ = <<>> THEN @ ELSE Tail(@)]

\* A file that is given up is in no place; the others stay where they are.
LEMMA ThrowKeeps ==
  ASSUME NEW w, NEW K,
         Base(w, K)
  PROVE  LET u == GivesUp(w)
         IN  /\ Base(u, K)
             /\ u.call = w.call /\ u.error = w.error /\ u.promise = w.promise
             /\ u.outcome = w.outcome
  <1>0. w \in BrowserWorker BY DEF Base
  <1>00. PICK u : u = GivesUp(w) OBVIOUS
  <1>1. CASE w.queue = <<>>
    <2>1. u = w BY <1>0, <1>00, <1>1 DEF BrowserWorker, GivesUp
    <2> QED BY <1>00, <2>1
  <1>2. CASE w.queue # <<>>
    <2>1. w.queue \in Seq(AllFiles) BY <1>0 DEF BrowserWorker
    <2>2. PICK q \in Seq(AllFiles) : q = Tail(w.queue) BY <1>2, <2>1, TailIs
    <2>3. ToSet(q) \subseteq ToSet(w.queue) /\ (IsInjective(w.queue) => IsInjective(q))
      BY <1>2, <2>1, <2>2, TailIs
    <2>4. u = [w EXCEPT !.queue = q] BY <1>00, <1>2, <2>2 DEF GivesUp
    <2>5. /\ u \in BrowserWorker /\ u.queue = q
          /\ u.own = w.own /\ u.grown = w.grown
          /\ u.isolate = w.isolate /\ u.promise = w.promise
          /\ u.outcome = w.outcome /\ u.error = w.error /\ u.started = w.started
          /\ u.call = w.call /\ u.sessions = w.sessions /\ u.busy = w.busy
          /\ u.opening = w.opening /\ u.ready = w.ready /\ u.cleaning = w.cleaning
          /\ u.file = w.file
      BY <1>0, <2>4 DEF BrowserWorker
    <2>6. InCall(u, K.active) BY <2>5 DEF Base, InCall
    <2>7. KnownFiles(u, K.p, K.r)
      <3>1. KnownFiles(w, K.p, K.r) BY DEF Base
      <3> QED BY <3>1, <2>3, <2>5 DEF KnownFiles
    <2>8. ASSUME K.p \in Isolated PROVE InOnePlace(u, Mine(K.r, K.p), K.waits, K.d)
      <3>1. InOnePlace(w, Mine(K.r, K.p), K.waits, K.d) BY <2>8 DEF Base
      <3>2. u.queue # <<>> => u.promise BY <3>1, <1>2, <2>5 DEF InOnePlace
      <3>3. IsInjective(u.queue) /\ ToSet(u.queue) \subseteq Mine(K.r, K.p) \ K.d
        BY <3>1, <2>3, <2>5 DEF InOnePlace
      <3>4. \A s \in Pages : u.file[s] \notin ToSet(u.queue) BY <3>1, <2>3, <2>5 DEF InOnePlace
      <3> QED BY <3>1, <3>2, <3>3, <3>4, <2>5 DEF InOnePlace
    <2>9. Base(u, K) BY <2>5, <2>6, <2>7, <2>8 DEF Base
    <2> QED BY <1>00, <2>5, <2>9
  <1> QED BY <1>1, <1>2

\* A page without isolation that is cleaned up.
Cleans(w, s) == [w EXCEPT !.cleaning = @ \cup {s}]

\* A page that is cleaned belongs to a project without isolation.
LEMMA CleanKeeps ==
  ASSUME NEW w, NEW K,
         NEW s \in Pages,
         Base(w, K), w.started, w.error => w.promise, ~w.isolate
  PROVE  Fine(Cleans(w, s), K)
  <1>0. w \in BrowserWorker BY DEF Base
  <1>00. PICK u : u = Cleans(w, s) OBVIOUS
  <1>1. /\ u \in BrowserWorker
        /\ u.busy = w.busy /\ u.ready = w.ready /\ u.queue = w.queue /\ u.file = w.file
        /\ u.error = w.error
        /\ u.isolate = w.isolate /\ u.promise = w.promise
        /\ u.outcome = w.outcome /\ u.started = w.started
        /\ u.call = w.call /\ u.sessions = w.sessions /\ u.opening = w.opening
    BY <1>0, <1>00 DEF BrowserWorker, Cleans
  <1>2. K.p \notin Isolated BY DEF Base
  <1>3. InCall(u, K.active) BY <1>1 DEF Base, InCall
  <1>4. KnownFiles(u, K.p, K.r) BY <1>1 DEF Base, KnownFiles
  <1>5. Base(u, K) BY <1>1, <1>2, <1>3, <1>4 DEF Base
  <1> QED BY <1>00, <1>1, <1>2, <1>5 DEF Fine, CoversIf

\* runNextTest keeps a worker in order, unless it throws; then its caller rejects the run.
LEMMA NextKeeps ==
  ASSUME NEW w, NEW K,
         NEW s \in Pages, NEW pages,
         Base(w, K), CoversIf(w, K),
         w.call # "init", w.started, w.error => w.promise,
         K.p \in Isolated => s \notin w.opening /\ (s \in w.busy => w.file[s] = None)
  PROVE  LET v == RunNextTest(w, s, pages)
         IN  /\ ~NextThrows(w, s, pages) => Fine(v, K)
             /\ NextThrows(w, s, pages) =>
                    /\ Base(v, K)
                    /\ v.call # "init" /\ (v.error => v.promise)
                    /\ K.p \in Isolated /\ K.active /\ ~K.c /\ v.outcome = "ok" => Mine(K.r, K.p) \subseteq K.d
  <1>0. w \in BrowserWorker BY DEF Base
  <1>1. CASE NextThrows(w, s, pages)
    <2>1. PICK u : u = GivesUp(w) OBVIOUS
    <2>2. RunNextTest(w, s, pages) = u BY <1>1, <2>1 DEF RunNextTest, NextThrows, GivesUp
    <2>3. /\ Base(u, K)
          /\ u.call = w.call /\ u.error = w.error /\ u.promise = w.promise
          /\ u.outcome = w.outcome
      BY <2>1, ThrowKeeps
    <2>4. K.p \in Isolated /\ K.active /\ ~K.c /\ w.outcome = "ok" => Mine(K.r, K.p) \subseteq K.d
      BY DEF CoversIf, Covers
    <2> QED BY <1>1, <2>2, <2>3, <2>4
  <1>2. CASE ~NextThrows(w, s, pages) /\ w.queue # <<>>
    <2>1. PICK u : u = Takes(w, s) OBVIOUS
    <2>2. RunNextTest(w, s, pages) = u BY <1>2, <2>1 DEF RunNextTest, Takes
    <2>3. w.promise BY <1>2 DEF NextThrows
    <2>4. Fine(u, K) BY <1>2, <2>1, <2>3, TakeKeeps
    <2> QED BY <1>2, <2>2, <2>4
  <1>3. CASE ~NextThrows(w, s, pages) /\ w.queue = <<>> /\ w.isolate
    <2>1. RunNextTest(w, s, pages) = FinishSession(w, s) BY <1>3 DEF RunNextTest
    <2>2. Fine(FinishSession(w, s), K) BY <1>3, FinishKeeps
    <2> QED BY <1>3, <2>1, <2>2
  <1>4. CASE ~NextThrows(w, s, pages) /\ w.queue = <<>> /\ ~w.isolate
    <2>1. PICK u : u = Cleans(w, s) OBVIOUS
    <2>2. RunNextTest(w, s, pages) = u BY <1>4, <2>1 DEF RunNextTest, Cleans
    <2>3. Fine(u, K) BY <1>4, <2>1, CleanKeeps
    <2> QED BY <1>4, <2>2, <2>3
  <1>5. w.isolate \in BOOLEAN BY <1>0 DEF BrowserWorker
  <1> QED BY <1>1, <1>2, <1>3, <1>4, <1>5

\* A page that cannot be opened.
LEMMA PageFailsKeeps ==
  ASSUME NEW w, NEW K,
         NEW s \in Pages,
         Base(w, K), CoversIf(w, K),
         w.call # "init", w.error => w.promise
  PROVE  Fine(PageFails(w, s), K)
  <1>0. w \in BrowserWorker BY DEF Base
  <1> DEFINE mine == {g \in w.grown : s \in g}
  <1>1. PICK o \in SUBSET Pages : o = IF s \in w.own THEN {} ELSE w.own BY <1>0 DEF BrowserWorker
  <1>2. PICK g \in SUBSET (SUBSET Pages) : g = w.grown \ mine BY <1>0 DEF BrowserWorker
  <1>3. PICK u : u = Awaits(w, o, g) OBVIOUS
  <1>4. u = [w EXCEPT !.own = IF s \in @ THEN {} ELSE @, !.grown = @ \ mine] BY <1>1, <1>2, <1>3 DEF Awaits
  <1>5. /\ Base(u, K) /\ CoversIf(u, K)
        /\ u.call = w.call /\ u.error = w.error /\ u.promise = w.promise
    <2> HIDE DEF mine
    <2>1. Base(w, K) /\ CoversIf(w, K) OBVIOUS
    <2> QED BY ONLY <2>1, <1>3, o \in SUBSET Pages, g \in SUBSET (SUBSET Pages), OwnKeeps
  <1>6. PageFails(w, s) = u \/ PageFails(w, s) = Reject(u, TRUE, {}) BY <1>4 DEF PageFails
  <1>7. Fine(u, K) BY <1>5 DEF Fine
  <1>8. K.p \in Isolated /\ K.active /\ ~K.c /\ u.outcome = "ok" => Mine(K.r, K.p) \subseteq K.d
    BY <1>5 DEF CoversIf, Covers
  <1>9. Fine(Reject(u, TRUE, {}), K)
    BY <1>5, <1>8, RejectKeeps
  <1> QED BY <1>6, <1>7, <1>9

\* A page that opened and found its file.
LEMMA PageIsOpenKeeps ==
  ASSUME NEW w, NEW K,
         NEW s \in Pages, Fine(w, K)
  PROVE  Fine(PageIsOpen(w, s), K)
  <1>0. w \in BrowserWorker /\ Base(w, K) /\ CoversIf(w, K)
    BY DEF Fine, Base
  <1>1. PICK o \in SUBSET Pages : o = w.own \ {s} BY <1>0 DEF BrowserWorker
  <1>20. w.grown \in SUBSET (SUBSET Pages) BY <1>0 DEF BrowserWorker
  <1>21. \A x \in w.grown : x \ {s} \in SUBSET Pages BY <1>20
  <1>22. {x \ {s} : x \in w.grown} \ {{}} \in SUBSET (SUBSET Pages) BY <1>21
  <1>2. PICK g \in SUBSET (SUBSET Pages) : g = {x \ {s} : x \in w.grown} \ {{}} BY <1>22
  <1>3. PICK u : u = Awaits(w, o, g) OBVIOUS
  <1>4. PageIsOpen(w, s) = u BY <1>1, <1>2, <1>3 DEF PageIsOpen, Awaits
  <1>5. /\ Base(u, K) /\ CoversIf(u, K)
        /\ u.call = w.call /\ u.error = w.error /\ u.promise = w.promise
    BY <1>0, <1>1, <1>2, <1>3, OwnKeeps
  <1> QED BY <1>4, <1>5 DEF Fine

\* Workers that differ in the pages they opened and await.
Alike(w, v) ==
    /\ v \in BrowserWorker
    /\ v.isolate = w.isolate /\ v.queue = w.queue /\ v.promise = w.promise
    /\ v.outcome = w.outcome /\ v.error = w.error /\ v.started = w.started
    /\ v.call = w.call /\ v.busy = w.busy /\ v.cleaning = w.cleaning /\ v.file = w.file

\* Such workers are in order together.
LEMMA AlikeKeeps ==
  ASSUME NEW w, NEW v, NEW K, Fine(w, K), Alike(w, v), w.started,
         K.p \in Isolated => v.opening \cap (v.busy \cup v.ready) = {}
  PROVE  Fine(v, K)
  <1>1. Base(w, K) /\ CoversIf(w, K) /\ (w.error => w.promise) BY DEF Fine
  <1>2. InCall(v, K.active) BY <1>1 DEF Base, InCall, Alike
  <1>3. KnownFiles(v, K.p, K.r) BY <1>1 DEF Base, KnownFiles, Alike
  <1>4. ASSUME K.p \in Isolated PROVE InOnePlace(v, Mine(K.r, K.p), K.waits, K.d)
    <2>1. InOnePlace(w, Mine(K.r, K.p), K.waits, K.d) BY <1>1, <1>4 DEF Base
    <2> QED BY <2>1, <1>4 DEF InOnePlace, Alike
  <1>5. Base(v, K) BY <1>1, <1>2, <1>3, <1>4 DEF Base, Alike
  <1>6. CoversIf(v, K) BY <1>1 DEF CoversIf, Covers, Alike
  <1>7. v.error => v.promise BY <1>1 DEF Alike
  <1> QED BY <1>5, <1>6, <1>7 DEF Fine

\* New pages are free ones.
LEMMA NewPagesIn ==
  ASSUME NEW n, NEW free PROVE NewPages(n, free) \subseteq free
  <1>1. CASE \E S \in SUBSET free : Cardinality(S) = n
    <2>1. (CHOOSE S \in SUBSET free : Cardinality(S) = n) \in SUBSET free BY <1>1
    <2> QED BY <1>1, <2>1 DEF NewPages
  <1>2. CASE ~\E S \in SUBSET free : Cardinality(S) = n
    BY <1>2 DEF NewPages
  <1> QED BY <1>1, <1>2

\* xs is ws with another worker of p, which is fine too.
Replaces(xs, ws, p, K) == \E v \in BrowserWorker : xs = [ws EXCEPT ![p] = v] /\ Fine(v, K)

\* openPages replaces the worker of p by one that is in order.
LEMMA OpenKeeps ==
  ASSUME NEW ws \in [Projects -> BrowserWorker], NEW p \in Projects, NEW active, NEW pages,
         NEW grow, NEW K, Fine(ws[p], K), ws[p].started
  PROVE  Replaces(OpenPages(p, ws, active, pages, grow), ws, p, K)
  <1> DEFINE w0 == ws[p]
             gone == {s \in w0.sessions \ (w0.opening \cup w0.busy) : s \notin w0.ready \cap pages}
             w == Pruned(w0, pages)
             count == Min({Allowance(p, [ws EXCEPT ![p] = w], active) - Cardinality(w.sessions),
                           Len(w.queue) - Cardinality(w.opening)})
             new == IF count <= 0 THEN {} ELSE NewPages(count, Free(ws, pages))
  <1>1. w0 \in BrowserWorker OBVIOUS
  <1>2. PICK e \in SUBSET Pages, y \in SUBSET Pages : e = w0.sessions \ gone /\ y = w0.ready \ gone
    BY <1>1 DEF BrowserWorker
  <1>3. w = [w0 EXCEPT !.sessions = e, !.ready = y] BY <1>2 DEF Pruned
  <1>4. PICK u : u = w OBVIOUS
  <1>5. Alike(w0, u) /\ u.sessions = e /\ u.ready = y /\ u.opening = w0.opening
        /\ u.own = w0.own /\ u.grown = w0.grown
    <2>1. PICK x \in BrowserWorker : x = w0 BY <1>1
    <2>2. u = [x EXCEPT !.sessions = e, !.ready = y] BY <1>3, <1>4, <2>1
    <2>3. Alike(x, u) /\ u.sessions = e /\ u.ready = y /\ u.opening = x.opening
          /\ u.own = x.own /\ u.grown = x.grown
      BY ONLY <2>2, x \in BrowserWorker, e \in SUBSET Pages, y \in SUBSET Pages DEF Alike, BrowserWorker
    <2> QED BY <2>1, <2>3
  <1>6. new \subseteq Free(ws, pages) BY NewPagesIn
  <1>7. Free(ws, pages) \in SUBSET Pages BY DEF Free
  <1>8. \A s \in Free(ws, pages) : s \notin w0.busy /\ s \notin w0.ready BY DEF Free
  <1>9. OpenPages(p, ws, active, pages, grow) = [ws EXCEPT ![p] =
            [w EXCEPT !.sessions = @ \cup new, !.opening = @ \cup new,
                      !.own = IF grow THEN @ ELSE new,
                      !.grown = IF grow /\ new # {} THEN @ \cup {new} ELSE @]]
    BY DEF OpenPages
  <1>10. PICK n : n = new OBVIOUS
  <1> HIDE DEF new, w, count, gone
  <1>11. n \in SUBSET Pages /\ \A s \in n : s \notin w0.busy /\ s \notin w0.ready
    BY <1>6, <1>7, <1>8, <1>10
  <1>12. PICK e1 \in SUBSET Pages, o1 \in SUBSET Pages : e1 = u.sessions \cup n /\ o1 = u.opening \cup n
    BY <1>1, <1>5, <1>11 DEF BrowserWorker
  <1>13. PICK o2 \in SUBSET Pages : o2 = IF grow THEN u.own ELSE n
    BY <1>1, <1>5, <1>11 DEF BrowserWorker
  <1>14. PICK g2 \in SUBSET (SUBSET Pages) : g2 = IF grow /\ n # {} THEN u.grown \cup {n} ELSE u.grown
    BY <1>1, <1>5, <1>11, ZenonT(60) DEF BrowserWorker
  <1>15. PICK v : v = [u EXCEPT !.sessions = e1, !.opening = o1, !.own = o2, !.grown = g2] OBVIOUS
  <1>16. OpenPages(p, ws, active, pages, grow) = [ws EXCEPT ![p] = v]
    BY <1>4, <1>9, <1>10, <1>12, <1>13, <1>14, <1>15
  <1>17. u \in BrowserWorker BY <1>5 DEF Alike
  <1>18. Alike(u, v) /\ v.opening = o1 /\ v.ready = u.ready BY <1>15, <1>17 DEF Alike, BrowserWorker
  <1>19. Alike(w0, v) BY <1>5, <1>18 DEF Alike
  <1>20. ASSUME K.p \in Isolated PROVE v.opening \cap (v.busy \cup v.ready) = {}
    <2>1. w0.opening \cap (w0.busy \cup w0.ready) = {} BY <1>20 DEF Fine, Base, InOnePlace
    <2>2. v.ready \subseteq w0.ready /\ v.busy = w0.busy BY <1>2, <1>5, <1>18, <1>19 DEF Alike
    <2>3. v.opening = w0.opening \cup n BY <1>5, <1>12, <1>18
    <2> QED BY <2>1, <2>2, <2>3, <1>11
  <1>21. Fine(v, K) BY <1>19, <1>20, AlikeKeeps
  <1>22. v \in BrowserWorker BY <1>18 DEF Alike
  <1> QED BY <1>16, <1>21, <1>22 DEF Replaces

\* Growing changes one worker or none.
LEMMA GrowKeeps ==
  ASSUME NEW ws \in [Projects -> BrowserWorker], NEW p \in Projects, NEW active, NEW pages,
         NEW K, Fine(ws[p], K)
  PROVE  Replaces(Grow(p, ws, active, pages), ws, p, K)
  <1>1. CASE ws[p].started /\ ws[p].promise /\ ws[p].queue # <<>>
    <2>1. Grow(p, ws, active, pages) = OpenPages(p, ws, active, pages, TRUE) BY <1>1 DEF Grow
    <2>2. ws[p].started BY <1>1
    <2>3. Replaces(OpenPages(p, ws, active, pages, TRUE), ws, p, K) BY <2>2, OpenKeeps
    <2> QED BY <2>1, <2>3
  <1>2. CASE ~(ws[p].started /\ ws[p].promise /\ ws[p].queue # <<>>)
    <2>1. Grow(p, ws, active, pages) = ws BY <1>2 DEF Grow
    <2>2. ws = [ws EXCEPT ![p] = ws[p]] OBVIOUS
    <2>3. ws[p] \in BrowserWorker OBVIOUS
    <2> QED BY <2>1, <2>2, <2>3 DEF Replaces
  <1> QED BY <1>1, <1>2

(***************************************************************************)
(* Calls of a worker                                                       *)
(***************************************************************************)
\* The provider is up: the pages that wait take a file each.
Starts(w, pages) == [TakenByReady(w, pages) EXCEPT !.started = TRUE, !.call = "running"]

\* runTests gives a file to each of the pages that are ready, and none twice.
LEMMA StartsKeeps ==
  ASSUME NEW w, NEW K, NEW pages, Fine(w, K), w.call = "init"
  PROVE  Fine(Starts(w, pages), K) /\ Starts(w, pages).started
  <1>0. Base(w, K) /\ CoversIf(w, K) BY DEF Fine
  <1>1. w \in BrowserWorker BY <1>0 DEF Base
  <1>2. InCall(w, K.active) BY <1>0 DEF Base
  <1>3. w.busy = {} /\ w.promise /\ ~w.error /\ K.active /\ w.outcome = "pending"
    BY <1>1, <1>2 DEF InCall
  <1>4. PICK q \in Seq(AllFiles) : q = w.queue BY <1>1 DEF BrowserWorker
  <1>5. PICK order : order = SetToSeq(w.ready \cap pages) OBVIOUS
  <1>6. IsFiniteSet(w.ready \cap pages)
    <2>1. w.ready \cap pages \in SUBSET Pages BY <1>1 DEF BrowserWorker
    <2> QED BY <2>1, FS_Subset, BrowserAssumption
  <1>7. order \in Seq(w.ready \cap pages) /\ IsInjective(order) BY <1>5, <1>6, SetToSeqIs
  <1>8. PICK m \in Nat, k \in Nat : m = Len(order) /\ k = Len(q) BY <1>7
  <1>9. PICK n \in Nat : n = Min({m, k}) /\ n <= m /\ n <= k BY SMTT(30) DEF Min
  <1>10. PICK taking : taking = {order[i] : i \in 1 .. n} OBVIOUS
  <1>11. \A i \in 1..n : i \in 1..m /\ i \in 1..k BY <1>9
  <1>12. \A i, j \in 1..m : order[i] = order[j] => i = j BY <1>7, <1>8 DEF IsInjective
  <1>13. \A i \in 1..m : order[i] \in w.ready /\ order[i] \in Pages BY <1>1, <1>7, <1>8 DEF BrowserWorker
  <1>14. taking \subseteq w.ready /\ taking \in SUBSET Pages BY <1>10, <1>11, <1>13
  <1>15. PICK rest : rest = SubSeq(q, n + 1, Len(q)) OBVIOUS
  <1>16. /\ rest \in Seq(AllFiles) /\ ToSet(rest) \subseteq ToSet(q)
         /\ \A i \in 1..Len(q) : i <= n \/ q[i] \in ToSet(rest)
         /\ \A x \in ToSet(rest) : \E i \in 1..Len(q) : i > n /\ q[i] = x
         /\ IsInjective(q) => IsInjective(rest)
    <2>1. n <= Len(q) BY <1>8, <1>9
    <2> QED BY <2>1, <1>15, RestIs
  <1>17. PICK g : g = [s \in Pages |-> IF s \in taking
                          THEN q[CHOOSE i \in 1 .. n : order[i] = s] ELSE w.file[s]]
    OBVIOUS
  <1>18. \A i \in 1..n : order[i] \in taking /\ order[i] \in Pages /\ g[order[i]] = q[i]
    <2> TAKE i \in 1..n
    <2>1. order[i] \in taking /\ order[i] \in Pages BY <1>10, <1>14
    <2>2. PICK j : j = CHOOSE h \in 1..n : order[h] = order[i] OBVIOUS
    <2>3. j \in 1..n /\ order[j] = order[i] BY <2>2
    <2>4. j = i BY <2>3, <1>11, <1>12
    <2>5. g[order[i]] = q[j] BY <2>1, <2>2, <1>17
    <2> QED BY <2>1, <2>4, <2>5
  <1>19. \A s \in taking : \E i \in 1..n : s = order[i] /\ g[s] = q[i] BY <1>10, <1>18
  <1>20. \A s \in Pages : s \notin taking => g[s] = w.file[s] BY <1>17
  <1>21. \A i \in 1..n : q[i] \in AllFiles /\ q[i] \in ToSet(q) BY <1>8, <1>11, ToSetIn
  <1>22. g \in [Pages -> AllFiles \cup {None}]
    <2>1. ASSUME NEW s \in Pages PROVE g[s] \in AllFiles \cup {None}
      <3>1. w.file[s] \in AllFiles \cup {None} BY <1>1 DEF BrowserWorker
      <3> QED BY <3>1, <1>19, <1>20, <1>21
    <2> QED BY <2>1, <1>17
  <1>23. PICK y \in SUBSET Pages, e \in SUBSET Pages :
           y = (w.ready \cap pages) \ taking /\ e = (w.sessions \ (w.ready \ pages)) \cup taking
    BY <1>1, <1>14 DEF BrowserWorker
  <1>24. PICK u : u = Starts(w, pages) OBVIOUS
  <1>25. TakenByReady(w, pages) = [w EXCEPT !.ready = y, !.busy = taking,
                  !.sessions = e, !.queue = rest, !.file = g]
    <2>1. TakenByReady(w, pages) = [w EXCEPT !.ready = (@ \cap pages) \ taking, !.busy = @ \cup taking,
                  !.sessions = (@ \ (w.ready \ pages)) \cup taking,
                  !.queue = SubSeq(@, n + 1, Len(@)),
                  !.file = [s \in Pages |-> IF s \in taking
                               THEN w.queue[CHOOSE i \in 1 .. n : order[i] = s] ELSE @[s]]]
      BY <1>4, <1>5, <1>8, <1>9, <1>10 DEF TakenByReady
    <2> QED BY <2>1, <1>3, <1>4, <1>15, <1>17, <1>23
  <1>26. u = [w EXCEPT !.ready = y, !.busy = taking, !.sessions = e, !.queue = rest, !.file = g,
                       !.started = TRUE, !.call = "running"]
    BY <1>24, <1>25 DEF Starts
  <1>27. /\ u \in BrowserWorker /\ u.ready = y /\ u.busy = taking /\ u.queue = rest /\ u.file = g
         /\ u.started /\ u.call = "running" /\ u.sessions = e
         /\ u.isolate = w.isolate /\ u.promise = w.promise /\ u.outcome = w.outcome
         /\ u.error = w.error /\ u.opening = w.opening /\ u.cleaning = w.cleaning
    BY ONLY <1>26, <1>1, <1>14, <1>16, <1>22, y \in SUBSET Pages, e \in SUBSET Pages DEF BrowserWorker
  <1>28. InCall(u, K.active) BY <1>2, <1>3, <1>27 DEF InCall
  <1>29. KnownFiles(u, K.p, K.r)
    <2>1. KnownFiles(w, K.p, K.r) BY <1>0 DEF Base
    <2>2. ToSet(u.queue) \subseteq FilesUpTo(K.r, K.p) BY <2>1, <1>4, <1>16, <1>27 DEF KnownFiles
    <2>3. ASSUME NEW s \in Pages PROVE u.file[s] \in FilesUpTo(K.r, K.p) \cup {None}
      BY <2>1, <1>4, <1>19, <1>20, <1>21, <1>27 DEF KnownFiles
    <2> QED BY <2>2, <2>3 DEF KnownFiles
  <1>30. ~K.waits BY <1>0, <1>3 DEF Base
  <1>31. ASSUME K.p \in Isolated PROVE InOnePlace(u, Mine(K.r, K.p), K.waits, K.d)
    <2>1. InOnePlace(w, Mine(K.r, K.p), K.waits, K.d) BY <1>0, <1>31 DEF Base
    <2>2. IsInjective(q) /\ ToSet(q) \subseteq Mine(K.r, K.p) \ K.d BY <2>1, <1>4 DEF InOnePlace
    <2>3. u.cleaning = {} BY <2>1, <1>27 DEF InOnePlace
    <2>4. u.opening \cap (u.busy \cup u.ready) = {} BY <2>1, <1>14, <1>23, <1>27 DEF InOnePlace
    <2>5. IsInjective(u.queue) /\ ToSet(u.queue) \subseteq Mine(K.r, K.p) \ K.d
      BY <2>2, <1>16, <1>27
    <2>6. \A s \in u.busy : u.file[s] # None => u.file[s] \in Mine(K.r, K.p) \ K.d
      BY <2>2, <1>19, <1>21, <1>27
    <2>7. \A i \in 1..k, j \in 1..k : q[i] = q[j] => i = j BY <2>2, <1>8 DEF IsInjective
    <2>8. \A i \in 1..n : q[i] \notin ToSet(rest)
      <3> SUFFICES ASSUME NEW i \in 1..n, q[i] \in ToSet(rest) PROVE FALSE OBVIOUS
      <3>1. PICK j \in 1..k : j > n /\ q[j] = q[i] BY <1>8, <1>16
      <3>2. i = j BY <3>1, <2>7, <1>11
      <3> QED BY <3>1, <3>2
    <2>9. \A s \in Pages : w.file[s] \notin ToSet(q) BY <2>1, <1>4 DEF InOnePlace
    <2>10. \A s \in Pages : u.file[s] \notin ToSet(u.queue)
      <3> TAKE s \in Pages
      <3>1. CASE s \in taking BY <3>1, <2>8, <1>19, <1>27
      <3>2. CASE s \notin taking BY <3>2, <2>9, <1>16, <1>20, <1>27
      <3> QED BY <3>1, <3>2
    <2>11. \A s, t \in Pages : u.file[s] # None /\ u.file[s] = u.file[t] => s = t
      <3> SUFFICES ASSUME NEW s \in Pages, NEW t \in Pages, g[s] # None, g[s] = g[t] PROVE s = t
        BY <1>27
      <3>1. CASE s \in taking /\ t \in taking
        <4>1. PICK i \in 1..n : s = order[i] /\ g[s] = q[i] BY <3>1, <1>19
        <4>2. PICK j \in 1..n : t = order[j] /\ g[t] = q[j] BY <3>1, <1>19
        <4>3. i = j BY <4>1, <4>2, <2>7, <1>11
        <4> QED BY <4>1, <4>2, <4>3
      <3>2. CASE s \in taking /\ t \notin taking
        BY <3>2, <2>9, <1>19, <1>20, <1>21
      <3>3. CASE s \notin taking /\ t \in taking
        BY <3>3, <2>9, <1>19, <1>20, <1>21
      <3>4. CASE s \notin taking /\ t \notin taking
        BY <3>4, <2>1, <1>20 DEF InOnePlace
      <3> QED BY <3>1, <3>2, <3>3, <3>4
    <2> QED BY <2>3, <2>4, <2>5, <2>6, <2>10, <2>11, <1>3, <1>27, <1>30 DEF InOnePlace
  <1>32. ASSUME K.p \in Isolated PROVE Covers(u, Mine(K.r, K.p), K.active, K.d, K.c)
    <2>1. Covers(w, Mine(K.r, K.p), K.active, K.d, K.c) BY <1>0, <1>32 DEF CoversIf
    <2>2. ASSUME ~K.c, NEW f \in Mine(K.r, K.p)
          PROVE  f \in K.d \cup ToSet(rest) \cup {g[s] : s \in taking}
      <3>1. f \in K.d \/ f \in ToSet(q) BY <2>1, <2>2, <1>3, <1>4 DEF Covers
      <3>2. CASE f \in ToSet(q)
        <4>1. PICK i \in 1..k : q[i] = f BY <3>2, <1>8, ToSetIn
        <4>2. CASE i <= n
          <5>1. i \in 1..n BY <4>2
          <5>2. order[i] \in taking /\ g[order[i]] = f BY <4>1, <5>1, <1>18
          <5> QED BY <5>2
        <4>3. CASE ~(i <= n) BY <4>1, <4>3, <1>8, <1>16
        <4> QED BY <4>2, <4>3
      <3> QED BY <3>1, <3>2
    <2> QED BY <2>2, <1>3, <1>27 DEF Covers
  <1>33. Base(u, K) BY <1>0, <1>27, <1>28, <1>29, <1>31 DEF Base
  <1> QED BY <1>3, <1>24, <1>27, <1>32, <1>33 DEF Fine, CoversIf

\* The call of runTests: its files are the only ones in the queue.
LEMMA CallKeeps ==
  ASSUME NEW w, NEW K, NEW L, NEW p \in Projects, run \in 1 .. Len(Runs), Fine(w, K), ~K.active, K.waits,
         K.p = p, K.r = run,
         L.p = p, L.r = run, L.active, ~L.waits, L.d = K.d, L.c = K.c
  PROVE  Fine(CallRunTests(w, p), L)
  <1>0. Base(w, K) /\ CoversIf(w, K) /\ (w.error => w.promise) BY DEF Fine
  <1>1. w \in BrowserWorker /\ InCall(w, K.active) BY <1>0 DEF Base
  <1>2. ~w.promise /\ ~w.error /\ w.busy = {} BY <1>0, <1>1 DEF InCall
  <1>3. PICK n \in Nat : n = Runs[run].files[p] BY BrowserAssumption
  <1>4. PICK files : files = [i \in 1 .. n |-> <<p, run, i>>] OBVIOUS
  <1>5. FilesOf(run, p) = {<<p, run, i>> : i \in 1 .. n} BY <1>3 DEF FilesOf
  <1>6. Mine(run, p) = FilesOf(run, p) /\ FilesOf(run, p) \subseteq AllFiles BY MineIs
  <1>7. \A i \in 1..n : files[i] = <<p, run, i>> /\ files[i] \in FilesOf(run, p) BY <1>4, <1>5
  <1>8. files \in Seq(AllFiles) /\ DOMAIN files = 1..n
    <2>1. files \in [1..n -> AllFiles] BY <1>4, <1>6, <1>7
    <2> QED BY <2>1, <1>4, SeqDef
  <1>9. ToSet(files) = FilesOf(run, p)
    <2>1. ToSet(files) = {files[i] : i \in 1..n} BY <1>8 DEF ToSet
    <2>2. {files[i] : i \in 1..n} = {<<p, run, i>> : i \in 1 .. n} BY <1>7, ZenonT(60)
    <2> QED BY <2>1, <2>2, <1>5
  <1>10. IsInjective(files) BY <1>7, <1>8 DEF IsInjective
  <1>11. w.queue \in Seq(AllFiles) BY <1>1 DEF BrowserWorker
  <1>12. PICK q \in Seq(AllFiles) : q = w.queue \o files BY <1>8, <1>11, ConcatIs
  <1>13. ToSet(q) = ToSet(w.queue) \cup FilesOf(run, p) BY <1>8, <1>9, <1>11, <1>12, ConcatIs
  <1>14. PICK u : u = CallRunTests(w, p) OBVIOUS
  <1>15. u = [w EXCEPT !.promise = TRUE, !.outcome = "pending", !.call = "init", !.queue = q]
    BY <1>3, <1>4, <1>12, <1>14 DEF CallRunTests
  <1>16. /\ u \in BrowserWorker /\ u.promise /\ u.outcome = "pending" /\ u.call = "init" /\ u.queue = q
         /\ u.isolate = w.isolate /\ u.started = w.started /\ u.error = w.error
         /\ u.sessions = w.sessions /\ u.busy = w.busy
         /\ u.opening = w.opening /\ u.ready = w.ready /\ u.cleaning = w.cleaning
         /\ u.file = w.file
    BY <1>1, <1>15 DEF BrowserWorker
  <1>17. InCall(u, L.active) BY <1>1, <1>2, <1>16 DEF InCall
  <1>18. KnownFiles(u, L.p, L.r)
    <2>1. KnownFiles(w, p, run) BY <1>0 DEF Base
    <2>2. FilesOf(run, p) \subseteq FilesUpTo(run, p) BY DEF FilesUpTo
    <2> QED BY <2>1, <2>2, <1>13, <1>16 DEF KnownFiles
  <1>19. ASSUME p \in Isolated PROVE InOnePlace(u, Mine(L.r, L.p), L.waits, L.d)
    <2>1. InOnePlace(w, Mine(run, p), K.waits, K.d) BY <1>0, <1>19 DEF Base
    <2>2. w.queue = <<>> BY <2>1, <1>2 DEF InOnePlace
    <2>3. q = files BY <2>2, <1>8, <1>12, ConcatEmptySeq
    <2>4. Mine(run, p) \cap K.d = {} /\ \A s \in Pages : w.file[s] \notin Mine(run, p)
      BY <2>1 DEF InOnePlace
    <2>5. ToSet(u.queue) = Mine(run, p) /\ IsInjective(u.queue) BY <2>3, <1>6, <1>9, <1>10, <1>16
    <2>6. u.cleaning = {} /\ u.opening \cap (u.busy \cup u.ready) = {} BY <2>1, <1>16 DEF InOnePlace
    <2>7. \A s, t \in Pages : u.file[s] # None /\ u.file[s] = u.file[t] => s = t
      BY <2>1, <1>16 DEF InOnePlace
    <2> QED BY <2>4, <2>5, <2>6, <2>7, <1>2, <1>16 DEF InOnePlace
  <1>20. ASSUME p \in Isolated PROVE Covers(u, Mine(L.r, L.p), L.active, L.d, L.c)
    BY <1>6, <1>13, <1>16 DEF Covers
  <1>21. Base(u, L) BY <1>0, <1>16, <1>17, <1>18, <1>19 DEF Base
  <1> QED BY <1>2, <1>14, <1>16, <1>20, <1>21 DEF Fine, CoversIf

\* A browser that was closed to make room.
LEMMA NewIsFine ==
  ASSUME NEW K, NEW p, K.p = p, ~K.active, K.waits => Mine(K.r, p) \cap K.d = {} \/ p \notin Isolated
  PROVE  Fine(NewWorker(p), K)
  <1>1. PICK u : u = NewWorker(p) OBVIOUS
  <1>2. u = [isolate |-> p \in Isolated,
             queue |-> <<>>, promise |-> FALSE, outcome |-> "pending", error |-> FALSE,
             started |-> FALSE, call |-> "none", own |-> {}, grown |-> {},
             sessions |-> {}, busy |-> {}, opening |-> {}, ready |-> {},
             cleaning |-> {}, file |-> [s \in Pages |-> None]]
    BY <1>1 DEF NewWorker
  <1>3. u \in BrowserWorker
    <2>1. <<>> \in Seq(AllFiles) OBVIOUS
    <2> QED BY <1>2, <2>1 DEF BrowserWorker
  <1>4. /\ u.isolate <=> p \in Isolated
        /\ u.queue = <<>> /\ ~u.promise /\ u.outcome = "pending" /\ ~u.error /\ u.call = "none"
        /\ u.sessions = {} /\ u.busy = {} /\ u.opening = {} /\ u.ready = {} /\ u.cleaning = {}
        /\ \A s \in Pages : u.file[s] = None
    BY <1>2
  <1>5. InCall(u, K.active) BY <1>4 DEF InCall
  <1>6. KnownFiles(u, K.p, K.r) BY <1>4, NothingInEmpty DEF KnownFiles
  <1>7. ASSUME p \in Isolated PROVE InOnePlace(u, Mine(K.r, p), K.waits, K.d)
    <2>2. K.waits => Mine(K.r, p) \cap K.d = {} BY <1>7
    <2>3. None \notin Mine(K.r, p) BY NoneIsNoFile
    <2> QED BY <2>2, <2>3, <1>4, NothingInEmpty DEF InOnePlace
  <1>8. Base(u, K) BY <1>3, <1>4, <1>5, <1>6, <1>7 DEF Base
  <1>9. CoversIf(u, K) BY DEF CoversIf, Covers
  <1> QED BY <1>1, <1>4, <1>8, <1>9 DEF Fine

\* Closing the browser of a project that has no slot makes a new worker of it.
LEMMA NewKeeps ==
  ASSUME NEW w, NEW K, NEW p, K.p = p, Fine(w, K), ~K.active
  PROVE  Fine(NewWorker(p), K)
  <1>1. ASSUME p \in Isolated, K.waits PROVE Mine(K.r, p) \cap K.d = {}
    <2>1. InOnePlace(w, Mine(K.r, p), K.waits, K.d) BY <1>1 DEF Fine, Base
    <2> QED BY <1>1, <2>1 DEF InOnePlace
  <1> QED BY <1>1, NewIsFine

\* The same worker when a file of another project ended, or it no longer waits.
LEMMA SameKeeps ==
  ASSUME NEW w, NEW K, NEW L, Fine(w, K),
         L.p = K.p, L.r = K.r, L.active = K.active, L.waits => K.waits, L.c = K.c,
         K.d \subseteq L.d, Mine(K.r, K.p) \cap L.d \subseteq K.d
  PROVE  Fine(w, L)
  <1>0. Base(w, K) /\ CoversIf(w, K) /\ (w.error => w.promise) BY DEF Fine
  <1>1. ASSUME K.p \in Isolated PROVE InOnePlace(w, Mine(L.r, L.p), L.waits, L.d)
    <2>1. InOnePlace(w, Mine(K.r, K.p), K.waits, K.d) BY <1>0, <1>1 DEF Base
    <2>2. Mine(K.r, K.p) \ K.d = Mine(K.r, K.p) \ L.d BY SMT
    <2>3. K.waits => Mine(K.r, K.p) \cap L.d = {} BY <2>1 DEF InOnePlace
    <2> QED BY <2>1, <2>2, <2>3 DEF InOnePlace
  <1>2. Base(w, L) BY <1>0, <1>1 DEF Base
  <1>3. CoversIf(w, L)
    <2> SUFFICES ASSUME K.p \in Isolated PROVE Covers(w, Mine(K.r, K.p), K.active, L.d, K.c)
      BY DEF CoversIf
    <2>1. Covers(w, Mine(K.r, K.p), K.active, K.d, K.c) BY <1>0 DEF CoversIf
    <2> QED BY <2>1 DEF Covers
  <1> QED BY <1>0, <1>2, <1>3 DEF Fine

\* The next run: what there is comes from earlier ones.
LEMMA NextRunKeeps ==
  ASSUME NEW w, NEW K, NEW L, Fine(w, K), ~K.active, K.r \in Nat,
         L.p = K.p, L.r = K.r + 1, ~L.active, L.d = {}, ~L.c
  PROVE  Fine(w, L)
  <1>0. Base(w, K) /\ CoversIf(w, K) /\ (w.error => w.promise) BY DEF Fine
  <1>1. KnownFiles(w, L.p, L.r)
    <2>1. FilesUpTo(K.r, K.p) \subseteq FilesUpTo(K.r + 1, K.p) BY KnownGrows
    <2>2. KnownFiles(w, K.p, K.r) BY <1>0 DEF Base
    <2> QED BY <2>1, <2>2 DEF KnownFiles
  <1>2. InCall(w, L.active) BY <1>0 DEF Base, InCall
  <1>3. w.busy = {} /\ ~w.promise BY <1>0 DEF Base, InCall
  <1>4. ASSUME K.p \in Isolated PROVE InOnePlace(w, Mine(L.r, L.p), L.waits, L.d)
    <2>1. InOnePlace(w, Mine(K.r, K.p), K.waits, K.d) BY <1>0, <1>4 DEF Base
    <2>2. w.queue = <<>> BY <2>1, <1>3 DEF InOnePlace
    <2>3. None \notin Mine(K.r + 1, K.p) BY NoneIsNoFile
    <2>4. \A s \in Pages : w.file[s] \notin Mine(K.r + 1, K.p)
      <3> TAKE s \in Pages
      <3>1. w.file[s] \in FilesUpTo(K.r, K.p) \cup {None} BY <1>0 DEF Base, KnownFiles
      <3> QED BY <3>1, <2>3, KnownIsNotNext
    <2>5. w.cleaning = {} /\ w.opening \cap (w.busy \cup w.ready) = {}
          /\ IsInjective(w.queue) /\ (\A s \in Pages : w.file[s] \notin ToSet(w.queue))
          /\ (\A s, t \in Pages : w.file[s] # None /\ w.file[s] = w.file[t] => s = t)
      BY <2>1 DEF InOnePlace
    <2>6. ToSet(w.queue) = {} BY <2>2, NothingInEmpty
    <2> QED BY <2>2, <2>4, <2>5, <2>6, <1>3 DEF InOnePlace
  <1>5. Base(w, L) BY <1>0, <1>1, <1>2, <1>4 DEF Base
  <1>6. CoversIf(w, L) BY DEF CoversIf, Covers
  <1> QED BY <1>0, <1>5, <1>6 DEF Fine

\* A cancel, with what is in the queue or without it.
LEMMA CancelKeeps ==
  ASSUME NEW w, NEW K, NEW L, Fine(w, K),
         L.p = K.p, L.r = K.r, L.active = K.active, L.waits => K.waits, L.d = K.d, L.c
  PROVE  Fine(w, L) /\ Fine([w EXCEPT !.queue = <<>>], L)
  <1>0. Base(w, K) /\ CoversIf(w, K) /\ (w.error => w.promise) BY DEF Fine
  <1>1. Fine(w, L)
    <2>1. ASSUME K.p \in Isolated PROVE InOnePlace(w, Mine(L.r, L.p), L.waits, L.d)
      <3>1. InOnePlace(w, Mine(K.r, K.p), K.waits, K.d) BY <1>0, <2>1 DEF Base
      <3> QED BY <3>1 DEF InOnePlace
    <2>2. Base(w, L) BY <1>0, <2>1 DEF Base
    <2>3. CoversIf(w, L) BY DEF CoversIf, Covers
    <2> QED BY <1>0, <2>2, <2>3 DEF Fine
  <1>2. PICK u : u = [w EXCEPT !.queue = <<>>] OBVIOUS
  <1>3. w \in BrowserWorker /\ <<>> \in Seq(AllFiles) BY <1>0 DEF Base
  <1>4. /\ u \in BrowserWorker /\ u.queue = <<>>
        /\ u.isolate = w.isolate /\ u.promise = w.promise
        /\ u.outcome = w.outcome /\ u.error = w.error /\ u.started = w.started
        /\ u.call = w.call /\ u.sessions = w.sessions /\ u.busy = w.busy
        /\ u.opening = w.opening /\ u.ready = w.ready /\ u.cleaning = w.cleaning
        /\ u.file = w.file
    BY <1>2, <1>3 DEF BrowserWorker
  <1>5. Base(w, L) BY <1>1 DEF Fine
  <1>6. InCall(u, L.active) BY <1>4, <1>5 DEF Base, InCall
  <1>7. KnownFiles(u, L.p, L.r) BY <1>4, <1>5, NothingInEmpty DEF Base, KnownFiles
  <1>8. ASSUME L.p \in Isolated PROVE InOnePlace(u, Mine(L.r, L.p), L.waits, L.d)
    <2>1. InOnePlace(w, Mine(L.r, L.p), L.waits, L.d) BY <1>5, <1>8 DEF Base
    <2>2. ToSet(u.queue) = {} /\ IsInjective(u.queue) BY <1>4, NothingInEmpty
    <2> QED BY <2>1, <2>2, <1>4 DEF InOnePlace
  <1>9. Base(u, L) BY <1>4, <1>5, <1>6, <1>7, <1>8 DEF Base
  <1>10. CoversIf(u, L) BY DEF CoversIf, Covers
  <1>11. Fine(u, L) BY <1>0, <1>4, <1>9, <1>10 DEF Fine
  <1> QED BY <1>1, <1>2, <1>11

\* The call is over, or was for nothing.
LEMMA OverKeeps ==
  ASSUME NEW w, NEW K, NEW L, Fine(w, K), w.outcome # "pending",
         L.p = K.p, L.r = K.r, ~L.active, K.active, ~L.waits, L.d = K.d, L.c = K.c
  PROVE  /\ Fine([w EXCEPT !.call = "none"], L)
         /\ K.p \in Isolated /\ ~K.c /\ w.outcome = "ok" => Mine(K.r, K.p) \subseteq K.d
  <1>0. Base(w, K) /\ CoversIf(w, K) /\ (w.error => w.promise) BY DEF Fine
  <1>1. PICK u : u = [w EXCEPT !.call = "none"] OBVIOUS
  <1>2. w \in BrowserWorker /\ InCall(w, K.active) BY <1>0 DEF Base
  <1>3. /\ u \in BrowserWorker /\ u.queue = w.queue /\ u.call = "none"
        /\ u.isolate = w.isolate /\ u.promise = w.promise
        /\ u.outcome = w.outcome /\ u.error = w.error /\ u.started = w.started
        /\ u.sessions = w.sessions /\ u.busy = w.busy
        /\ u.opening = w.opening /\ u.ready = w.ready /\ u.cleaning = w.cleaning
        /\ u.file = w.file
    BY <1>1, <1>2 DEF BrowserWorker
  <1>4. ~w.promise BY <1>2 DEF InCall
  <1>5. InCall(u, L.active) BY <1>2, <1>3, <1>4 DEF InCall
  <1>6. KnownFiles(u, L.p, L.r) BY <1>0, <1>3 DEF Base, KnownFiles
  <1>7. ASSUME L.p \in Isolated PROVE InOnePlace(u, Mine(L.r, L.p), L.waits, L.d)
    <2>1. InOnePlace(w, Mine(K.r, K.p), K.waits, K.d) BY <1>0, <1>7 DEF Base
    <2> QED BY <2>1, <1>3 DEF InOnePlace
  <1>8. Base(u, L) BY <1>0, <1>3, <1>5, <1>6, <1>7 DEF Base
  <1>9. CoversIf(u, L) BY DEF CoversIf, Covers
  <1>10. Fine(u, L) BY <1>0, <1>3, <1>8, <1>9 DEF Fine
  <1>11. K.p \in Isolated /\ ~K.c /\ w.outcome = "ok" => Mine(K.r, K.p) \subseteq K.d
    BY <1>0 DEF CoversIf, Covers
  <1> QED BY <1>1, <1>10, <1>11

Ends(w) == [w EXCEPT !.promise = FALSE, !.call = "running", !.outcome = IF @ = "pending" THEN "ok" ELSE @]

\* A call that finds its queue empty, after a cancel, ends well.
LEMMA EndsKeeps ==
  ASSUME NEW w, NEW K, Fine(w, K), w.call = "init", w.queue = <<>>
  PROVE  Fine(Ends(w), K)
  <1>0. Base(w, K) /\ CoversIf(w, K) BY DEF Fine
  <1>1. w \in BrowserWorker /\ InCall(w, K.active) BY <1>0 DEF Base
  <1>2. w.busy = {} /\ w.promise /\ ~w.error /\ K.active /\ w.outcome = "pending" BY <1>1 DEF InCall
  <1>3. PICK u : u = Ends(w) OBVIOUS
  <1>4. u = [w EXCEPT !.promise = FALSE, !.call = "running", !.outcome = "ok"] BY <1>2, <1>3 DEF Ends
  <1>5. /\ u \in BrowserWorker /\ u.queue = w.queue /\ u.call = "running" /\ ~u.promise /\ u.outcome = "ok"
        /\ u.isolate = w.isolate /\ u.error = w.error /\ u.started = w.started
        /\ u.sessions = w.sessions /\ u.busy = w.busy
        /\ u.opening = w.opening /\ u.ready = w.ready /\ u.cleaning = w.cleaning
        /\ u.file = w.file
    BY <1>1, <1>4 DEF BrowserWorker
  <1>6. InCall(u, K.active) BY <1>1, <1>2, <1>5 DEF InCall
  <1>7. KnownFiles(u, K.p, K.r) BY <1>0, <1>5 DEF Base, KnownFiles
  <1>8. ASSUME K.p \in Isolated
        PROVE  InOnePlace(u, Mine(K.r, K.p), K.waits, K.d) /\ Covers(u, Mine(K.r, K.p), K.active, K.d, K.c)
    <2>1. InOnePlace(w, Mine(K.r, K.p), K.waits, K.d) BY <1>0, <1>8 DEF Base
    <2>2. Covers(w, Mine(K.r, K.p), K.active, K.d, K.c) BY <1>0, <1>8 DEF CoversIf
    <2>3. ~K.c => Mine(K.r, K.p) \subseteq K.d BY <2>2, <1>2, NothingInEmpty DEF Covers
    <2>4. Covers(u, Mine(K.r, K.p), K.active, K.d, K.c) BY <2>3, <1>5 DEF Covers
    <2>5. InOnePlace(u, Mine(K.r, K.p), K.waits, K.d) BY <2>1, <1>5 DEF InOnePlace
    <2> QED BY <2>4, <2>5
  <1>9. Base(u, K) BY <1>0, <1>5, <1>6, <1>7, <1>8 DEF Base
  <1> QED BY <1>2, <1>3, <1>5, <1>8, <1>9 DEF Fine, CoversIf

(***************************************************************************)
(* Room for one more browser                                               *)
(***************************************************************************)
\* Nobody is to be evicted for p, or nobody can be.
Room(ws, active, p) ==
    ~MustEvict(ws, p) \/ ToSet(ws) \cap Headless \subseteq {p} \cup ToSet(active)

\* ks are the workers ws without some that are idle.
Keeps(ks, ws, active, p) ==
    /\ ks \in Seq(Projects) /\ IsInjective(ks) /\ ToSet(ks) \subseteq ToSet(ws)
    /\ \A q \in ToSet(ws) \ ToSet(ks) : q # p /\ q \notin ToSet(active)

\* evictIdleWorker takes an idle worker out of the map, or there is room, or nobody to evict.
LEMMA EvictIs ==
  ASSUME NEW ws \in Seq(Projects), IsInjective(ws), NEW active, NEW p
  PROVE  LET e == Evict(ws, active, p)
         IN  Keeps(e, ws, active, p) /\ (Len(e) < Len(ws) \/ (e = ws /\ Room(ws, active, p)))
  <1> DEFINE idle == {i \in DOMAIN ws : ws[i] \in Headless \ ({p} \cup ToSet(active))}
  <1>1. DOMAIN ws = 1..Len(ws) /\ Len(ws) \in Nat OBVIOUS
  <1>2. CASE MustEvict(ws, p) /\ idle # {}
    <2>1. idle \in SUBSET Nat BY <1>1
    <2>2. PICK i \in idle : \A j \in idle : i <= j BY <1>2, <2>1, Least
    <2>3. PICK k : k = Min(idle) OBVIOUS
    <2>4. k \in idle BY <2>2, <2>3 DEF Min
    <2> HIDE DEF idle
    <2>5. Evict(ws, active, p) = RemoveAt(ws, k) BY <1>2, <2>3 DEF Evict, idle
    <2>6. k \in 1..Len(ws) /\ ws[k] # p /\ ws[k] \notin ToSet(active) BY <2>4, <1>1 DEF idle
    <2>7. PICK r : r = RemoveAt(ws, k) OBVIOUS
    <2>8. /\ r \in Seq(Projects) /\ Len(r) = Len(ws) - 1 /\ IsInjective(r)
          /\ ToSet(r) = ToSet(ws) \ {ws[k]}
      BY <2>6, <2>7, RemoveIs
    <2>9. Len(r) < Len(ws) BY <1>1, <2>8
    <2> QED BY <2>5, <2>6, <2>7, <2>8, <2>9 DEF Keeps
  <1>3. CASE ~(MustEvict(ws, p) /\ idle # {})
    <2>1. Evict(ws, active, p) = ws BY <1>3 DEF Evict
    <2>2. Room(ws, active, p)
      <3>1. CASE ~MustEvict(ws, p) BY <3>1 DEF Room
      <3>2. CASE idle = {}
        <4>1. \A x \in ToSet(ws) \cap Headless : x \in {p} \cup ToSet(active) BY <3>2 DEF ToSet
        <4> QED BY <4>1 DEF Room
      <3> QED BY <1>3, <3>1, <3>2
    <2> QED BY <2>1, <2>2 DEF Keeps
  <1> QED BY <1>2, <1>3

Evicts(g, ws, active, p, n) ==
    g = [i \in 0 .. n |-> IF i = 0 THEN ws
                          ELSE CHOOSE r \in {Evict(x, active, p) : x \in {g[i - 1]}} : TRUE]

\* The steps of that loop.
LEMMA EvictsAt ==
  ASSUME NEW g, NEW ws, NEW active, NEW p, NEW n \in Nat, Evicts(g, ws, active, p, n), NEW i \in 0 .. n
  PROVE  g[i] = IF i = 0 THEN ws ELSE Evict(g[i - 1], active, p)
  <1> DEFINE e(j) == IF j = 0 THEN ws ELSE CHOOSE r \in {Evict(x, active, p) : x \in {g[j - 1]}} : TRUE
  <1>1. g = [j \in 0 .. n |-> e(j)] BY DEF Evicts
  <1> HIDE DEF e
  <1>2. g[i] = e(i) BY <1>1
  <1>3. PICK y : y = g[i - 1] OBVIOUS
  <1>4. {Evict(x, active, p) : x \in {y}} = {Evict(y, active, p)} OBVIOUS
  <1>5. (CHOOSE r \in {Evict(x, active, p) : x \in {y}} : TRUE) = Evict(y, active, p) BY <1>4
  <1>6. e(i) = IF i = 0 THEN ws ELSE Evict(y, active, p) BY <1>3, <1>5 DEF e
  <1> QED BY <1>2, <1>3, <1>6

\* Such a function exists: the loop that makes room is one.
LEMMA EvictsExists ==
  ASSUME NEW ws, NEW active, NEW p, NEW n \in Nat
  PROVE  \E g : Evicts(g, ws, active, p, n)
  <1> DEFINE step(y) == CHOOSE r \in {Evict(x, active, p) : x \in {y}} : TRUE
             B == {k \in Nat : ~\E g : Evicts(g, ws, active, p, k)}
  <1> SUFFICES ASSUME B # {} PROVE FALSE OBVIOUS
  <1>1. PICK k \in B : \A m \in B : k <= m BY Least
  <1>2. CASE k = 0
    <2> DEFINE g == [i \in 0 .. 0 |-> ws]
    <2>1. g = [i \in 0 .. 0 |-> IF i = 0 THEN ws ELSE step(g[i - 1])] OBVIOUS
    <2>2. Evicts(g, ws, active, p, 0) BY <2>1 DEF Evicts
    <2> QED BY <1>2, <2>2
  <1>3. CASE k # 0
    <2>1. k - 1 \in Nat /\ k - 1 \notin B BY <1>1, <1>3
    <2>2. PICK f : Evicts(f, ws, active, p, k - 1) BY <2>1
    <2>3. f = [i \in 0 .. (k - 1) |-> IF i = 0 THEN ws ELSE step(f[i - 1])] BY <2>2 DEF Evicts
    <2> HIDE DEF step
    <2>4. \A i \in 0 .. (k - 1) : f[i] = IF i = 0 THEN ws ELSE step(f[i - 1]) BY <2>3
    <2> DEFINE g == [i \in 0 .. k |-> IF i < k THEN f[i] ELSE step(f[i - 1])]
    <2>5. \A i \in 0 .. k : g[i] = IF i = 0 THEN ws ELSE step(g[i - 1])
      <3> TAKE i \in 0 .. k
      <3>1. CASE i < k
        <4>1. i \in 0 .. (k - 1) /\ g[i] = f[i] BY <3>1
        <4>2. i # 0 => i - 1 \in 0 .. k /\ i - 1 < k BY <3>1
        <4>3. i # 0 => g[i - 1] = f[i - 1] BY <4>2
        <4> QED BY <4>1, <4>3, <2>4
      <3>2. CASE i = k
        <4>1. i # 0 /\ i - 1 \in 0 .. k /\ i - 1 < k BY <3>2, <1>3
        <4>2. g[i - 1] = f[i - 1] BY <4>1
        <4>3. g[i] = step(f[i - 1]) BY <3>2
        <4> QED BY <4>1, <4>2, <4>3
      <3> QED BY <3>1, <3>2
    <2>6. g = [i \in 0 .. k |-> g[i]] OBVIOUS
    <2> HIDE DEF g
    <2>7. g = [i \in 0 .. k |-> IF i = 0 THEN ws ELSE step(g[i - 1])] BY <2>5, <2>6
    <2>8. Evicts(g, ws, active, p, k) BY <2>7 DEF Evicts, step
    <2> QED BY <2>8
  <1> QED BY <1>2, <1>3

\* After the loop there is room for p, or no idle worker is left.
LEMMA RoomForIs ==
  ASSUME NEW S, NEW p, S.workers \in Seq(Projects), IsInjective(S.workers)
  PROVE  LET ks == RoomFor(p, S)
         IN  Keeps(ks, S.workers, S.active, p) /\ Room(ks, S.active, p)
  <1>1. PICK ws, active : ws = S.workers /\ active = S.active OBVIOUS
  <1>2. ws \in Seq(Projects) /\ IsInjective(ws) BY <1>1
  <1>3. PICK n \in Nat : n = Len(ws) BY <1>2
  <1> DEFINE kept == CHOOSE g : Evicts(g, ws, active, p, n)
  <1>4. RoomFor(p, S) = kept[n] BY <1>1, <1>3 DEF RoomFor, Of, Evicts
  <1>5. Evicts(kept, ws, active, p, n) BY EvictsExists
  <1> HIDE DEF kept
  <1> DEFINE OK(i) == /\ Keeps(kept[i], ws, active, p)
                      /\ Len(kept[i]) + i <= n \/ Room(kept[i], active, p)
             B == {i \in 0 .. n : ~OK(i)}
  <1>6. ASSUME B # {} PROVE FALSE
    <2>0. B \in SUBSET Nat OBVIOUS
    <2>1. PICK i \in B : \A j \in B : i <= j BY <1>6, <2>0, Least
    <2>2. kept[i] = IF i = 0 THEN ws ELSE Evict(kept[i - 1], active, p) BY <1>5, EvictsAt
    <2>3. CASE i = 0
      <3>1. kept[i] = ws BY <2>2, <2>3
      <3>2. Keeps(kept[i], ws, active, p) BY <1>2, <3>1 DEF Keeps
      <3>3. Len(kept[i]) + i <= n BY <1>3, <2>3, <3>1
      <3> QED BY <3>2, <3>3
    <2>4. CASE i # 0
      <3>1. PICK j : j = i - 1 OBVIOUS
      <3>2. j \in 0 .. n /\ j + 1 = i /\ j \notin B BY <2>1, <2>4, <3>1
      <3>3. OK(j) BY <3>2
      <3>4. PICK ks : ks = kept[j] OBVIOUS
      <3>5. PICK e : e = Evict(ks, active, p) OBVIOUS
      <3>6. kept[i] = e BY <2>2, <2>4, <3>1, <3>4, <3>5
      <3>7. ks \in Seq(Projects) /\ IsInjective(ks) /\ Keeps(ks, ws, active, p) BY <3>3, <3>4 DEF Keeps
      <3>8. Keeps(e, ks, active, p) /\ (Len(e) < Len(ks) \/ (e = ks /\ Room(ks, active, p)))
        BY <3>5, <3>7, EvictIs
      <3>9. Keeps(e, ws, active, p) BY <3>7, <3>8 DEF Keeps
      <3>10. Len(e) + i <= n \/ Room(e, active, p)
        <4>1. CASE e = ks /\ Room(ks, active, p) BY <4>1
        <4>2. CASE Len(e) < Len(ks) /\ Len(ks) + j <= n
          <5>1. Len(e) \in Nat /\ Len(ks) \in Nat BY <3>7, <3>8 DEF Keeps
          <5>2. Len(e) + i <= n BY <4>2, <5>1, <3>2
          <5> QED BY <5>2
        <4>3. CASE Len(e) < Len(ks) /\ Room(ks, active, p)
          <5>1. ~MustEvict(ks, p) => e = ks BY <3>5 DEF Evict
          <5>2. MustEvict(ks, p) BY <4>3, <5>1, <3>7
          <5>3. ToSet(ks) \cap Headless \subseteq {p} \cup ToSet(active) BY <4>3, <5>2 DEF Room
          <5>4. ToSet(e) \subseteq ToSet(ks) BY <3>8 DEF Keeps
          <5> QED BY <5>3, <5>4 DEF Room
        <4> QED BY <4>1, <4>2, <4>3, <3>3, <3>4, <3>8
      <3> QED BY <3>6, <3>9, <3>10
    <2> QED BY <2>3, <2>4
  <1>7. n \in 0 .. n OBVIOUS
  <1>8. OK(n) BY <1>6, <1>7
  <1>9. ASSUME Len(kept[n]) + n <= n PROVE Room(kept[n], active, p)
    <2>1. PICK ks \in Seq(Projects) : ks = kept[n] BY <1>8 DEF Keeps
    <2>2. Len(ks) \in Nat /\ Len(ks) = 0 BY <1>9, <2>1
    <2>3. ks = <<>> BY <2>2
    <2>4. ToSet(ks) = {} BY <2>3, NothingInEmpty
    <2>5. Room(ks, active, p) BY <2>4 DEF Room
    <2> QED BY <2>1, <2>5
  <1> QED BY <1>1, <1>4, <1>8, <1>9

(***************************************************************************)
(* The pool                                                                *)
(***************************************************************************)
PoolType ==
    [queue : Seq(Projects), workers : Seq(Projects), active : Seq(Projects),
     exclusive : BOOLEAN, worker : [Projects -> BrowserWorker], pages : SUBSET Pages]

\* An exclusive project has its slot alone, and there are no more slots and
\* headless browsers than m, once there is any.
Slots(S, m) ==
    /\ S.exclusive <=> \E p \in Exclusive : p \in ToSet(S.active)
    /\ \A p \in Exclusive : p \in ToSet(S.active) => ToSet(S.active) = {p}
    /\ S.active # <<>> => /\ Len(S.active) <= m
                          /\ Cardinality(ToSet(S.workers) \cap Headless) <= m

InOrder(S) ==
    /\ IsInjective(S.queue) /\ IsInjective(S.workers) /\ IsInjective(S.active)
    /\ ToSet(S.active) \subseteq ToSet(S.workers)
    /\ ToSet(S.queue) \cap ToSet(S.active) = {}

\* The context of p in the pool S.
ContextOf(S, p, r, d, c) ==
    [p |-> p, active |-> p \in ToSet(S.active), waits |-> p \in ToSet(S.queue),
     r |-> r, d |-> d, c |-> c]

AllFine(S, r, d, c) == \A p \in Projects : Fine(S.worker[p], ContextOf(S, p, r, d, c))

PoolOK(S, m, r, d, c) ==
    S \in PoolType /\ InOrder(S) /\ Slots(S, m) /\ AllFine(S, r, d, c)

\* nextTaskIndex finds a task of the queue.
LEMMA NextTaskIs ==
  ASSUME NEW S, S.queue \in Seq(Projects), S.queue # <<>>
  PROVE  NextTask(S) \in 1 .. Len(S.queue)
  <1> DEFINE idle == {i \in 1 .. Len(S.queue) :
                    /\ S.queue[i] \in Exclusive <=> Head(S.queue) \in Exclusive
                    /\ S.queue[i] \in ToSet(S.workers) \ ToSet(S.active)}
  <1>1. Len(S.queue) \in Nat /\ 1 \in 1 .. Len(S.queue) OBVIOUS
  <1>2. CASE idle = {}
    <2>1. NextTask(S) = 1 BY <1>2 DEF NextTask
    <2> QED BY <1>1, <2>1
  <1>3. CASE idle # {}
    <2>1. NextTask(S) = Min(idle) BY <1>3 DEF NextTask
    <2>2. idle \in SUBSET Nat /\ idle \subseteq 1 .. Len(S.queue) OBVIOUS
    <2>3. PICK i \in idle : \A j \in idle : i <= j BY <1>3, <2>2, Least
    <2> HIDE DEF idle
    <2>4. Min(idle) \in idle BY <2>3 DEF Min
    <2> QED BY <2>1, <2>2, <2>4
  <1> QED BY <1>2, <1>3

\* A slot for the task i of the queue.
LEMMA GivenSlotKeeps ==
  ASSUME NEW S, NEW d, NEW c, run \in 1 .. Len(Runs), PoolOK(S, maxWorkers, run, d, c),
         NEW i \in 1 .. Len(S.queue), MayGoOn(S, S.queue[i])
  PROVE  /\ PoolOK(GivenSlot(S, i), maxWorkers, run, d, c)
         /\ ToSet(GivenSlot(S, i).queue) \cup ToSet(GivenSlot(S, i).active)
              = ToSet(S.queue) \cup ToSet(S.active)
  <1>0. /\ S.queue \in Seq(Projects) /\ S.workers \in Seq(Projects) /\ S.active \in Seq(Projects)
        /\ S.worker \in [Projects -> BrowserWorker] /\ S.pages \in SUBSET Pages
    BY DEF PoolOK, PoolType
  <1>1. InOrder(S) /\ Slots(S, maxWorkers) /\ AllFine(S, run, d, c) BY DEF PoolOK
  <1>2. PICK p \in Projects : p = S.queue[i] BY <1>0
  <1>3. p \in ToSet(S.queue) /\ p \notin ToSet(S.active) BY <1>0, <1>1, <1>2, ToSetIn DEF InOrder
  <1>4. PICK kept : kept = RoomFor(p, S) OBVIOUS
  <1>5. Keeps(kept, S.workers, S.active, p) /\ Room(kept, S.active, p)
    BY <1>0, <1>1, <1>4, RoomForIs DEF InOrder
  <1>6. PICK evicted : evicted = ToSet(S.workers) \ ToSet(kept) OBVIOUS
  <1>7. \A q \in evicted : q # p /\ q \notin ToSet(S.active) BY <1>5, <1>6 DEF Keeps
  <1>8. PICK qs : qs = RemoveAt(S.queue, i) OBVIOUS
  <1>9. qs \in Seq(Projects) /\ IsInjective(qs) /\ ToSet(qs) = ToSet(S.queue) \ {p}
    BY <1>0, <1>1, <1>2, <1>8, RemoveIs DEF InOrder
  <1>10. kept \in Seq(Projects) /\ IsInjective(kept) /\ ToSet(kept) \subseteq ToSet(S.workers)
    BY <1>5 DEF Keeps
  <1>11. PICK ws : ws = IF p \in ToSet(kept) THEN kept ELSE Append(kept, p) OBVIOUS
  <1>12. ws \in Seq(Projects) /\ IsInjective(ws) /\ ToSet(ws) = ToSet(kept) \cup {p}
    <2>1. CASE p \in ToSet(kept) BY <2>1, <1>10, <1>11
    <2>2. CASE p \notin ToSet(kept)
      <3>1. ws = Append(kept, p) BY <2>2, <1>11
      <3>2. /\ Append(kept, p) \in Seq(Projects) /\ ToSet(Append(kept, p)) = ToSet(kept) \cup {p}
            /\ IsInjective(kept) /\ p \notin ToSet(kept) => IsInjective(Append(kept, p))
        BY <1>10, AppendIs
      <3> QED BY <3>1, <3>2, <2>2, <1>10
    <2> QED BY <2>1, <2>2
  <1>13. PICK as : as = Append(S.active, p) OBVIOUS
  <1>14. as \in Seq(Projects) /\ IsInjective(as) /\ ToSet(as) = ToSet(S.active) \cup {p}
         /\ Len(as) = Len(S.active) + 1
    <2>1. /\ Append(S.active, p) \in Seq(Projects) /\ ToSet(Append(S.active, p)) = ToSet(S.active) \cup {p}
          /\ Len(Append(S.active, p)) = Len(S.active) + 1
          /\ IsInjective(S.active) /\ p \notin ToSet(S.active) => IsInjective(Append(S.active, p))
      BY <1>0, AppendIs
    <2> QED BY <2>1, <1>1, <1>3, <1>13 DEF InOrder
  <1>15. PICK pages : pages = S.pages \ UNION {S.worker[q].sessions : q \in evicted} OBVIOUS
  <1>16. PICK w : w = [q \in Projects |-> CASE q \in evicted -> NewWorker(q)
                                            [] q = p -> CallRunTests(S.worker[q], q)
                                            [] OTHER -> S.worker[q]] OBVIOUS
  <1>17. PICK T : T = GivenSlot(S, i) OBVIOUS
  <1>18. T = [queue |-> qs, workers |-> ws, active |-> as, exclusive |-> p \in Exclusive,
              pages |-> pages, worker |-> w]
    BY <1>2, <1>4, <1>6, <1>8, <1>11, <1>13, <1>15, <1>16, <1>17 DEF GivenSlot
  <1>19. /\ T.queue = qs /\ T.workers = ws /\ T.active = as /\ (T.exclusive <=> p \in Exclusive)
         /\ T.pages = pages /\ T.worker = w
    BY <1>18
  <1>20. /\ \A q \in evicted \cap Projects : w[q] = NewWorker(q)
         /\ w[p] = CallRunTests(S.worker[p], p)
         /\ \A q \in Projects : q \notin evicted /\ q # p => w[q] = S.worker[q]
    BY <1>7, <1>16
  <1>21. \A q \in Projects : Fine(w[q], ContextOf(T, q, run, d, c))
    <2> TAKE q \in Projects
    <2>1. PICK K : K = ContextOf(S, q, run, d, c) OBVIOUS
    <2>2. PICK L : L = ContextOf(T, q, run, d, c) OBVIOUS
    <2>3. Fine(S.worker[q], K) BY <1>1, <2>1 DEF AllFine
    <2>4. /\ K.p = q /\ K.r = run /\ K.d = d /\ K.c = c
          /\ K.active <=> q \in ToSet(S.active)
          /\ K.waits <=> q \in ToSet(S.queue)
      BY <2>1 DEF ContextOf
    <2>5. /\ L.p = q /\ L.r = run /\ L.d = d /\ L.c = c
          /\ L.active <=> q \in ToSet(as)
          /\ L.waits <=> q \in ToSet(qs)
      BY <2>2, <1>19 DEF ContextOf
    <2>6. CASE q = p
      <3>1. ~K.active /\ K.waits /\ L.active /\ ~L.waits BY <2>4, <2>5, <2>6, <1>3, <1>9, <1>14
      <3>2. Fine(CallRunTests(S.worker[p], p), L) BY <3>1, <2>3, <2>4, <2>5, <2>6, CallKeeps
      <3> QED BY <3>2, <2>2, <2>6, <1>20
    <2>7. CASE q # p /\ q \in evicted
      <3>1. ~K.active BY <2>4, <2>7, <1>7
      <3>2. Fine(NewWorker(q), K) BY <3>1, <2>3, <2>4, NewKeeps
      <3>3. L = K
        <4>1. (q \in ToSet(as)) = (q \in ToSet(S.active)) BY <2>7, <1>14
        <4>2. (q \in ToSet(qs)) = (q \in ToSet(S.queue)) BY <2>7, <1>9
        <4> QED BY <4>1, <4>2, <2>1, <2>2, <1>19 DEF ContextOf
      <3> QED BY <3>2, <3>3, <2>2, <2>7, <1>20
    <2>8. CASE q # p /\ q \notin evicted
      <3>1. L = K
        <4>1. (q \in ToSet(as)) = (q \in ToSet(S.active)) BY <2>8, <1>14
        <4>2. (q \in ToSet(qs)) = (q \in ToSet(S.queue)) BY <2>8, <1>9
        <4> QED BY <4>1, <4>2, <2>1, <2>2, <1>19 DEF ContextOf
      <3> QED BY <3>1, <2>2, <2>3, <2>8, <1>20
    <2> QED BY <2>6, <2>7, <2>8
  <1>22. w \in [Projects -> BrowserWorker]
    <2>1. \A q \in Projects : w[q] \in BrowserWorker BY <1>21 DEF Fine, Base
    <2> QED BY <2>1, <1>16
  <1>23. T \in PoolType
    <2>1. pages \in SUBSET Pages BY <1>0, <1>15
    <2>2. PICK e \in BOOLEAN : e = (p \in Exclusive)
      <3>1. CASE p \in Exclusive BY ONLY <3>1, TRUE \in BOOLEAN
      <3>2. CASE p \notin Exclusive
        <4>1. (p \in Exclusive) = FALSE BY <3>2
        <4>2. \E e \in BOOLEAN : e = FALSE OBVIOUS
        <4> QED BY ONLY <4>1, <4>2
      <3> QED BY <3>1, <3>2
    <2>3. T = [queue |-> qs, workers |-> ws, active |-> as, exclusive |-> e,
               pages |-> pages, worker |-> w]
      BY <2>2, <1>18
    <2>4. qs \in Seq(Projects) /\ ws \in Seq(Projects) /\ as \in Seq(Projects)
      BY <1>9, <1>12, <1>14
    <2> QED BY ONLY <2>1, <2>2, <2>3, <2>4, <1>22 DEF PoolType
  <1>24. InOrder(T)
    <2>1. ToSet(S.active) \subseteq ToSet(kept)
      BY <1>1, <1>6, <1>7 DEF InOrder
    <2>2. ToSet(as) \subseteq ToSet(ws) BY <2>1, <1>12, <1>14
    <2>3. ToSet(qs) \cap ToSet(as) = {} BY <1>1, <1>9, <1>14 DEF InOrder
    <2> QED BY <2>2, <2>3, <1>9, <1>12, <1>14, <1>19 DEF InOrder
  <1>25. PICK m \in Nat : m = maxWorkers BY BrowserAssumption DEF maxWorkers
  <1>26. PICK a \in Nat : a = Len(S.active) BY <1>0
  <1>27. a < m /\ (p \in Exclusive => S.active = <<>>) /\ ~S.exclusive
    BY <1>2, <1>25, <1>26 DEF MayGoOn
  <1>28. Cardinality(ToSet(ws) \cap Headless) <= m
    <2>1. IsFiniteSet(ToSet(kept)) BY <1>10, ToSetBound
    <2>2. PICK H : H = ToSet(kept) \cap Headless OBVIOUS
    <2>3. IsFiniteSet(H) /\ Cardinality(H) \in Nat
      <3>1. H \in SUBSET ToSet(kept) BY <2>2
      <3> QED BY <2>1, <3>1, FS_Subset, FS_CardinalityType
    <2>4. PICK h \in Nat : h = Cardinality(H) BY <2>3
    <2>5. CASE ~MustEvict(kept, p)
      <3>1. CASE p \in ToSet(kept) \/ p \notin Headless
        <4>1. ToSet(ws) \cap Headless = H BY <3>1, <2>2, <1>12
        <4>2. ~(h + 0 > m) BY ONLY <2>5, <3>1, <2>2, <2>4, <1>25 DEF MustEvict
        <4>3. h <= m BY ONLY <4>2, m \in Nat, h \in Nat
        <4> QED BY <4>1, <4>3, <2>4
      <3>2. CASE ~(p \in ToSet(kept) \/ p \notin Headless)
        <4>1. ToSet(ws) \cap Headless = H \cup {p} /\ p \notin H BY <3>2, <2>2, <1>12
        <4>2. ~(h + 1 > m) BY ONLY <2>5, <3>2, <2>2, <2>4, <1>25 DEF MustEvict
        <4>3. Cardinality(H \cup {p}) = h + 1 BY <4>1, <2>3, <2>4, FS_AddElement
        <4>4. h + 1 <= m BY ONLY <4>2, m \in Nat, h \in Nat
        <4> QED BY <4>1, <4>3, <4>4
      <3> QED BY <3>1, <3>2
    <2>6. CASE ToSet(kept) \cap Headless \subseteq {p} \cup ToSet(S.active)
      <3>1. PICK G : G = ToSet(ws) \cap Headless OBVIOUS
      <3>2. G \in SUBSET ToSet(as) BY <2>6, <3>1, <1>12, <1>14
      <3>3. IsFiniteSet(ToSet(as)) /\ Cardinality(ToSet(as)) \in Nat /\ Cardinality(ToSet(as)) <= Len(as)
        BY <1>14, ToSetBound
      <3>4. Cardinality(G) <= Cardinality(ToSet(as)) /\ IsFiniteSet(G)
        BY <3>2, <3>3, FS_Subset
      <3>5. PICK g \in Nat : g = Cardinality(G) BY <3>4, FS_CardinalityType
      <3>6. PICK k \in Nat : k = Cardinality(ToSet(as)) BY <3>3
      <3>7. g <= k /\ k <= a + 1 /\ a < m BY <3>3, <3>4, <3>5, <3>6, <1>14, <1>26, <1>27
      <3>8. g <= m BY ONLY <3>7, g \in Nat, k \in Nat, a \in Nat, m \in Nat
      <3> QED BY <3>1, <3>5, <3>8
    <2> QED BY <2>5, <2>6, <1>5 DEF Room
  <1>29. Slots(T, maxWorkers)
    <2>1. \A q \in Exclusive : q \notin ToSet(S.active) BY <1>1, <1>27 DEF Slots
    <2>2. T.exclusive <=> \E q \in Exclusive : q \in ToSet(T.active) BY <2>1, <1>14, <1>19
    <2>3. \A q \in Exclusive : q \in ToSet(T.active) => ToSet(T.active) = {q}
      <3> TAKE q \in Exclusive
      <3> HAVE q \in ToSet(T.active)
      <3>1. q = p BY <2>1, <1>14, <1>19
      <3>2. ToSet(S.active) = {} BY <3>1, <1>27, NothingInEmpty
      <3> QED BY <3>1, <3>2, <1>14, <1>19
    <2>4. Len(T.active) <= maxWorkers
      <3>1. Len(T.active) = a + 1 /\ a < m BY <1>14, <1>19, <1>26, <1>27
      <3>2. a + 1 <= m BY ONLY <3>1, a \in Nat, m \in Nat
      <3> QED BY <3>1, <3>2, <1>25
    <2>5. Cardinality(ToSet(T.workers) \cap Headless) <= maxWorkers BY <1>19, <1>25, <1>28
    <2> QED BY <2>2, <2>3, <2>4, <2>5 DEF Slots
  <1>30. AllFine(T, run, d, c) BY <1>19, <1>21 DEF AllFine
  <1>31. ToSet(T.queue) \cup ToSet(T.active) = ToSet(S.queue) \cup ToSet(S.active)
    BY <1>3, <1>9, <1>14, <1>19
  <1> QED BY <1>17, <1>23, <1>24, <1>29, <1>30, <1>31 DEF PoolOK

(***************************************************************************)
(* schedule                                                                *)
(***************************************************************************)
\* The pool T is in order, and holds the tasks of S.
Follows(T, S, d, c) ==
    /\ PoolOK(T, maxWorkers, run, d, c)
    /\ ToSet(T.queue) \cup ToSet(T.active) = ToSet(S.queue) \cup ToSet(S.active)

\* A round of schedule() keeps the pool in order, and its tasks.
LEMMA RoundKeeps ==
  ASSUME NEW S, NEW T, NEW d, NEW c, run \in 1 .. Len(Runs), Follows(T, S, d, c)
  PROVE  Follows(Round(T), S, d, c)
  <1>1. PoolOK(T, maxWorkers, run, d, c) BY DEF Follows
  <1>2. CASE T.queue = <<>> \/ ~MayGoOn(T, T.queue[NextTask(T)])
    <2>1. Round(T) = T BY <1>2 DEF Round
    <2> QED BY <2>1
  <1>3. CASE ~(T.queue = <<>> \/ ~MayGoOn(T, T.queue[NextTask(T)]))
    <2>1. PICK i : i = NextTask(T) OBVIOUS
    <2>2. T.queue \in Seq(Projects) BY <1>1 DEF PoolOK, PoolType
    <2>3. i \in 1 .. Len(T.queue) BY <1>3, <2>1, <2>2, NextTaskIs
    <2>4. MayGoOn(T, T.queue[i]) BY <1>3, <2>1
    <2>5. Round(T) = GivenSlot(T, i) BY <1>3, <2>1 DEF Round
    <2>6. /\ PoolOK(GivenSlot(T, i), maxWorkers, run, d, c)
          /\ ToSet(GivenSlot(T, i).queue) \cup ToSet(GivenSlot(T, i).active)
               = ToSet(T.queue) \cup ToSet(T.active)
      BY <1>1, <2>3, <2>4, GivenSlotKeeps
    <2> QED BY <2>5, <2>6 DEF Follows
  <1> QED BY <1>2, <1>3

Rounds(g, S, n) ==
    g = [i \in 0 .. n |-> IF i = 0 THEN S
                          ELSE CHOOSE r \in {Round(x) : x \in {g[i - 1]}} : TRUE]

\* The rounds of schedule(), one after the other.
LEMMA RoundsAt ==
  ASSUME NEW g, NEW S, NEW n \in Nat, Rounds(g, S, n), NEW i \in 0 .. n
  PROVE  g[i] = IF i = 0 THEN S ELSE Round(g[i - 1])
  <1> DEFINE e(j) == IF j = 0 THEN S ELSE CHOOSE r \in {Round(x) : x \in {g[j - 1]}} : TRUE
  <1>1. g = [j \in 0 .. n |-> e(j)] BY DEF Rounds
  <1> HIDE DEF e
  <1>2. g[i] = e(i) BY <1>1
  <1>3. PICK y : y = g[i - 1] OBVIOUS
  <1>4. {Round(x) : x \in {y}} = {Round(y)} OBVIOUS
  <1>5. (CHOOSE r \in {Round(x) : x \in {y}} : TRUE) = Round(y) BY <1>4
  <1>6. e(i) = IF i = 0 THEN S ELSE Round(y) BY <1>3, <1>5 DEF e
  <1> QED BY <1>2, <1>3, <1>6

\* Such a function exists: the loop of schedule() is one.
LEMMA RoundsExists ==
  ASSUME NEW S, NEW n \in Nat
  PROVE  \E g : Rounds(g, S, n)
  <1> DEFINE step(y) == CHOOSE r \in {Round(x) : x \in {y}} : TRUE
             B == {k \in Nat : ~\E g : Rounds(g, S, k)}
  <1> SUFFICES ASSUME B # {} PROVE FALSE OBVIOUS
  <1>1. PICK k \in B : \A m \in B : k <= m BY Least
  <1>2. CASE k = 0
    <2> DEFINE g == [i \in 0 .. 0 |-> S]
    <2>1. g = [i \in 0 .. 0 |-> IF i = 0 THEN S ELSE step(g[i - 1])] OBVIOUS
    <2>2. Rounds(g, S, 0) BY <2>1 DEF Rounds
    <2> QED BY <1>2, <2>2
  <1>3. CASE k # 0
    <2>1. k - 1 \in Nat /\ k - 1 \notin B BY <1>1, <1>3
    <2>2. PICK f : Rounds(f, S, k - 1) BY <2>1
    <2>3. f = [i \in 0 .. (k - 1) |-> IF i = 0 THEN S ELSE step(f[i - 1])] BY <2>2 DEF Rounds
    <2> HIDE DEF step
    <2>4. \A i \in 0 .. (k - 1) : f[i] = IF i = 0 THEN S ELSE step(f[i - 1]) BY <2>3
    <2> DEFINE g == [i \in 0 .. k |-> IF i < k THEN f[i] ELSE step(f[i - 1])]
    <2>5. \A i \in 0 .. k : g[i] = IF i = 0 THEN S ELSE step(g[i - 1])
      <3> TAKE i \in 0 .. k
      <3>1. CASE i < k
        <4>1. i \in 0 .. (k - 1) /\ g[i] = f[i] BY <3>1
        <4>2. i # 0 => i - 1 \in 0 .. k /\ i - 1 < k BY <3>1
        <4>3. i # 0 => g[i - 1] = f[i - 1] BY <4>2
        <4> QED BY <4>1, <4>3, <2>4
      <3>2. CASE i = k
        <4>1. i # 0 /\ i - 1 \in 0 .. k /\ i - 1 < k BY <3>2, <1>3
        <4>2. g[i - 1] = f[i - 1] BY <4>1
        <4>3. g[i] = step(f[i - 1]) BY <3>2
        <4> QED BY <4>1, <4>2, <4>3
      <3> QED BY <3>1, <3>2
    <2>6. g = [i \in 0 .. k |-> g[i]] OBVIOUS
    <2> HIDE DEF g
    <2>7. g = [i \in 0 .. k |-> IF i = 0 THEN S ELSE step(g[i - 1])] BY <2>5, <2>6
    <2>8. Rounds(g, S, k) BY <2>7 DEF Rounds, step
    <2> QED BY <2>8
  <1> QED BY <1>2, <1>3

\* schedule() keeps the pool in order, and its tasks.
LEMMA ScheduleKeeps ==
  ASSUME NEW S, NEW d, NEW c, run \in 1 .. Len(Runs), PoolOK(S, maxWorkers, run, d, c)
  PROVE  Follows(Schedule(S), S, d, c)
  <1>1. S.queue \in Seq(Projects) BY DEF PoolOK, PoolType
  <1>2. PICK n \in Nat : n = Len(S.queue) BY <1>1
  <1> DEFINE after == CHOOSE g : Rounds(g, S, n)
  <1>3. Schedule(S) = after[n] BY <1>2 DEF Schedule, Of, Rounds
  <1>4. Rounds(after, S, n) BY RoundsExists
  <1> HIDE DEF after
  <1> DEFINE B == {i \in 0 .. n : ~Follows(after[i], S, d, c)}
  <1>5. ASSUME B # {} PROVE FALSE
    <2>0. B \in SUBSET Nat OBVIOUS
    <2>1. PICK i \in B : \A j \in B : i <= j BY <1>5, <2>0, Least
    <2>2. after[i] = IF i = 0 THEN S ELSE Round(after[i - 1]) BY <1>4, RoundsAt
    <2>3. CASE i = 0
      <3>1. after[i] = S BY <2>2, <2>3
      <3>2. Follows(S, S, d, c) BY DEF Follows
      <3> QED BY <3>1, <3>2
    <2>4. CASE i # 0
      <3>1. PICK j : j = i - 1 OBVIOUS
      <3>2. j \in 0 .. n /\ j + 1 = i /\ j \notin B BY <2>1, <2>4, <3>1
      <3>3. Follows(after[j], S, d, c) BY <3>2
      <3>4. Follows(Round(after[j]), S, d, c) BY <3>3, RoundKeeps
      <3>5. after[i] = Round(after[j]) BY <2>2, <2>4, <3>1
      <3> QED BY <3>4, <3>5
    <2> QED BY <2>3, <2>4
  <1>6. n \in 0 .. n OBVIOUS
  <1>7. Follows(after[n], S, d, c) BY <1>5, <1>6
  <1> QED BY <1>3, <1>7

(***************************************************************************)
(* grow() of the workers that are active                                   *)
(***************************************************************************)
Grows(g, S, n) ==
    g = [i \in 0 .. n |-> IF i = 0 THEN S.worker
           ELSE CHOOSE r \in {Grow(S.active[i], x, S.active, S.pages) : x \in {g[i - 1]}} : TRUE]

\* The calls of grow(), one after the other.
LEMMA GrowsAt ==
  ASSUME NEW g, NEW S, NEW n \in Nat, Grows(g, S, n), NEW i \in 0 .. n
  PROVE  g[i] = IF i = 0 THEN S.worker ELSE Grow(S.active[i], g[i - 1], S.active, S.pages)
  <1> DEFINE e(j) == IF j = 0 THEN S.worker
           ELSE CHOOSE r \in {Grow(S.active[j], x, S.active, S.pages) : x \in {g[j - 1]}} : TRUE
  <1>1. g = [j \in 0 .. n |-> e(j)] BY DEF Grows
  <1> HIDE DEF e
  <1>2. g[i] = e(i) BY <1>1
  <1>3. PICK y, p : y = g[i - 1] /\ p = S.active[i] OBVIOUS
  <1>4. {Grow(p, x, S.active, S.pages) : x \in {y}} = {Grow(p, y, S.active, S.pages)} OBVIOUS
  <1>5. (CHOOSE r \in {Grow(p, x, S.active, S.pages) : x \in {y}} : TRUE)
            = Grow(p, y, S.active, S.pages)
    BY <1>4
  <1>6. e(i) = IF i = 0 THEN S.worker ELSE Grow(p, y, S.active, S.pages) BY <1>3, <1>5 DEF e
  <1> QED BY <1>2, <1>3, <1>6

\* Such a function exists: activeWorkers.forEach is one.
LEMMA GrowsExists ==
  ASSUME NEW S, NEW n \in Nat
  PROVE  \E g : Grows(g, S, n)
  <1> DEFINE step(i, y) == CHOOSE r \in {Grow(S.active[i], x, S.active, S.pages) : x \in {y}} : TRUE
             B == {k \in Nat : ~\E g : Grows(g, S, k)}
  <1> SUFFICES ASSUME B # {} PROVE FALSE OBVIOUS
  <1>1. PICK k \in B : \A m \in B : k <= m BY Least
  <1>2. CASE k = 0
    <2> DEFINE g == [i \in 0 .. 0 |-> S.worker]
    <2>1. g = [i \in 0 .. 0 |-> IF i = 0 THEN S.worker ELSE step(i, g[i - 1])] OBVIOUS
    <2>2. Grows(g, S, 0) BY <2>1 DEF Grows
    <2> QED BY <1>2, <2>2
  <1>3. CASE k # 0
    <2>1. k - 1 \in Nat /\ k - 1 \notin B BY <1>1, <1>3
    <2>2. PICK f : Grows(f, S, k - 1) BY <2>1
    <2>3. f = [i \in 0 .. (k - 1) |-> IF i = 0 THEN S.worker ELSE step(i, f[i - 1])]
      BY <2>2 DEF Grows
    <2> HIDE DEF step
    <2>4. \A i \in 0 .. (k - 1) : f[i] = IF i = 0 THEN S.worker ELSE step(i, f[i - 1]) BY <2>3
    <2> DEFINE g == [i \in 0 .. k |-> IF i < k THEN f[i] ELSE step(i, f[i - 1])]
    <2>5. \A i \in 0 .. k : g[i] = IF i = 0 THEN S.worker ELSE step(i, g[i - 1])
      <3> TAKE i \in 0 .. k
      <3>1. CASE i < k
        <4>1. i \in 0 .. (k - 1) /\ g[i] = f[i] BY <3>1
        <4>2. i # 0 => i - 1 \in 0 .. k /\ i - 1 < k BY <3>1
        <4>3. i # 0 => g[i - 1] = f[i - 1] BY <4>2
        <4> QED BY <4>1, <4>3, <2>4
      <3>2. CASE i = k
        <4>1. i # 0 /\ i - 1 \in 0 .. k /\ i - 1 < k BY <3>2, <1>3
        <4>2. g[i - 1] = f[i - 1] BY <4>1
        <4>3. g[i] = step(i, f[i - 1]) BY <3>2
        <4> QED BY <4>1, <4>2, <4>3
      <3> QED BY <3>1, <3>2
    <2>6. g = [i \in 0 .. k |-> g[i]] OBVIOUS
    <2> HIDE DEF g
    <2>7. g = [i \in 0 .. k |-> IF i = 0 THEN S.worker ELSE step(i, g[i - 1])] BY <2>5, <2>6
    <2>8. Grows(g, S, k) BY <2>7 DEF Grows, step
    <2> QED BY <2>8
  <1> QED BY <1>2, <1>3

\* The workers xs are fine in the pool S.
WorkersOK(xs, S, d, c) ==
    xs \in [Projects -> BrowserWorker] /\ \A p \in Projects : Fine(xs[p], ContextOf(S, p, run, d, c))

\* grow() of one worker.
LEMMA GrowKeepsAll ==
  ASSUME NEW S, NEW xs, NEW d, NEW c, NEW p \in Projects, NEW active, NEW pages,
         WorkersOK(xs, S, d, c)
  PROVE  WorkersOK(Grow(p, xs, active, pages), S, d, c)
  <1>1. xs \in [Projects -> BrowserWorker] BY DEF WorkersOK
  <1>2. PICK K : K = ContextOf(S, p, run, d, c) OBVIOUS
  <1>3. Fine(xs[p], K) BY <1>2 DEF WorkersOK
  <1>4. Replaces(Grow(p, xs, active, pages), xs, p, K) BY <1>1, <1>3, GrowKeeps
  <1>5. PICK ys : ys = Grow(p, xs, active, pages) OBVIOUS
  <1>6. PICK v \in BrowserWorker : ys = [xs EXCEPT ![p] = v] /\ Fine(v, K) BY <1>4, <1>5 DEF Replaces
  <1>7. ys \in [Projects -> BrowserWorker] BY <1>1, <1>6
  <1>8. ys[p] = v /\ \A q \in Projects : q # p => ys[q] = xs[q] BY <1>1, <1>6
  <1>9. \A q \in Projects : Fine(ys[q], ContextOf(S, q, run, d, c))
    BY <1>2, <1>6, <1>8 DEF WorkersOK
  <1> QED BY <1>5, <1>7, <1>9 DEF WorkersOK

\* grow() of all of them.
LEMMA GrownKeeps ==
  ASSUME NEW S, NEW d, NEW c, PoolOK(S, maxWorkers, run, d, c)
  PROVE  WorkersOK(Grown(S), S, d, c)
  <1>1. S.active \in Seq(Projects) BY DEF PoolOK, PoolType
  <1>2. PICK n \in Nat : n = Len(S.active) BY <1>1
  <1> DEFINE grown == CHOOSE g : Grows(g, S, n)
  <1>3. Grown(S) = grown[n] BY <1>2 DEF Grown, Of, Grows
  <1>4. Grows(grown, S, n) BY GrowsExists
  <1> HIDE DEF grown
  <1> DEFINE B == {i \in 0 .. n : ~WorkersOK(grown[i], S, d, c)}
  <1>5. ASSUME B # {} PROVE FALSE
    <2>0. B \in SUBSET Nat OBVIOUS
    <2>1. PICK i \in B : \A j \in B : i <= j BY <1>5, <2>0, Least
    <2>2. grown[i] = IF i = 0 THEN S.worker ELSE Grow(S.active[i], grown[i - 1], S.active, S.pages)
      BY <1>4, GrowsAt
    <2>3. CASE i = 0
      <3>1. grown[i] = S.worker BY <2>2, <2>3
      <3>2. WorkersOK(S.worker, S, d, c) BY DEF WorkersOK, PoolOK, PoolType, AllFine
      <3> QED BY <3>1, <3>2
    <2>4. CASE i # 0
      <3>1. PICK j : j = i - 1 OBVIOUS
      <3>2. j \in 0 .. n /\ j + 1 = i /\ j \notin B BY <2>1, <2>4, <3>1
      <3>3. PICK xs : xs = grown[j] OBVIOUS
      <3>4. WorkersOK(xs, S, d, c) BY <3>2, <3>3
      <3>5. PICK p \in Projects : p = S.active[i]
        <4>1. i \in 1 .. Len(S.active) BY <2>4, <1>2
        <4> QED BY <4>1, <1>1
      <3>6. WorkersOK(Grow(p, xs, S.active, S.pages), S, d, c) BY <3>4, GrowKeepsAll
      <3>7. grown[i] = Grow(p, xs, S.active, S.pages) BY <2>2, <2>4, <3>1, <3>3, <3>5
      <3> QED BY <3>6, <3>7
    <2> QED BY <2>3, <2>4
  <1>6. n \in 0 .. n OBVIOUS
  <1>7. WorkersOK(grown[n], S, d, c) BY <1>5, <1>6
  <1> QED BY <1>3, <1>7

(***************************************************************************)
(* What happens to a page                                                  *)
(***************************************************************************)
\* The page s has no file any more.
Forgets(w, s) == [w EXCEPT !.file[s] = None]

\* Its worker is the same otherwise.
LEMMA ForgetsIs ==
  ASSUME NEW w \in BrowserWorker, NEW s \in Pages
  PROVE  LET u == Forgets(w, s)
         IN  /\ u \in BrowserWorker
             /\ u.isolate = w.isolate /\ u.queue = w.queue /\ u.promise = w.promise
             /\ u.outcome = w.outcome /\ u.error = w.error /\ u.started = w.started
             /\ u.call = w.call /\ u.sessions = w.sessions /\ u.busy = w.busy
             /\ u.opening = w.opening /\ u.ready = w.ready /\ u.cleaning = w.cleaning
             /\ u.file[s] = None /\ \A t \in Pages : t # s => u.file[t] = w.file[t]
             /\ w.file[s] = None => u = w
  <1>1. PICK g \in [Pages -> AllFiles \cup {None}] : g = [w.file EXCEPT ![s] = None] BY DEF BrowserWorker
  <1>2. g[s] = None /\ \A t \in Pages : t # s => g[t] = w.file[t] BY <1>1 DEF BrowserWorker
  <1>3. PICK u : u = Forgets(w, s) OBVIOUS
  <1>4. u = [w EXCEPT !.file = g] BY <1>1, <1>3 DEF Forgets
  <1>5. /\ u \in BrowserWorker
        /\ u.isolate = w.isolate /\ u.queue = w.queue /\ u.promise = w.promise
        /\ u.outcome = w.outcome /\ u.error = w.error /\ u.started = w.started
        /\ u.call = w.call /\ u.sessions = w.sessions /\ u.busy = w.busy
        /\ u.opening = w.opening /\ u.ready = w.ready /\ u.cleaning = w.cleaning
        /\ u.file = g
    BY <1>4 DEF BrowserWorker
  <1>6. ASSUME w.file[s] = None PROVE u = w
    <2>1. w.file \in [Pages -> AllFiles \cup {None}] BY DEF BrowserWorker
    <2>2. g = w.file BY <2>1, <1>1, <1>6
    <2> QED BY <2>2, <1>4 DEF BrowserWorker
  <1> QED BY <1>2, <1>3, <1>5, <1>6

\* It stays in order, though a file may be in no place.
LEMMA ForgetsKeeps ==
  ASSUME NEW w, NEW K, NEW s \in Pages, Base(w, K)
  PROVE  Base(Forgets(w, s), K)
  <1>1. w \in BrowserWorker BY DEF Base
  <1>2. PICK u : u = Forgets(w, s) OBVIOUS
  <1>3. /\ u \in BrowserWorker
        /\ u.isolate = w.isolate /\ u.queue = w.queue /\ u.promise = w.promise
        /\ u.outcome = w.outcome /\ u.error = w.error /\ u.started = w.started
        /\ u.call = w.call /\ u.sessions = w.sessions /\ u.busy = w.busy
        /\ u.opening = w.opening /\ u.ready = w.ready /\ u.cleaning = w.cleaning
        /\ u.file[s] = None /\ \A t \in Pages : t # s => u.file[t] = w.file[t]
    BY <1>1, <1>2, ForgetsIs
  <1>4. InCall(u, K.active)
    <2>1. InCall(w, K.active) BY DEF Base
    <2> QED BY <2>1, <1>3 DEF InCall
  <1>5. KnownFiles(u, K.p, K.r)
    <2>1. KnownFiles(w, K.p, K.r) BY DEF Base
    <2> QED BY <2>1, <1>3 DEF KnownFiles
  <1>6. ASSUME K.p \in Isolated PROVE InOnePlace(u, Mine(K.r, K.p), K.waits, K.d)
    <2>1. InOnePlace(w, Mine(K.r, K.p), K.waits, K.d) BY <1>6 DEF Base
    <2>2. PICK M : M = Mine(K.r, K.p) OBVIOUS
    <2>3. None \notin M /\ M \subseteq AllFiles BY <2>2, NoneIsNoFile
    <2>4. u.busy \subseteq Pages BY <1>3 DEF BrowserWorker
    <2>5. \A t \in u.busy : u.file[t] # None => u.file[t] \in M \ K.d
      BY <2>1, <2>2, <2>4, <1>3 DEF InOnePlace
    <2>6. \A t \in Pages : u.file[t] \notin ToSet(u.queue)
      BY <2>1, <2>2, <2>3, <1>3 DEF InOnePlace
    <2>7. \A t, x \in Pages : u.file[t] # None /\ u.file[t] = u.file[x] => t = x
      BY <2>1, <1>3 DEF InOnePlace
    <2>8. K.waits => M \cap K.d = {} /\ \A t \in Pages : u.file[t] \notin M
      BY <2>1, <2>2, <2>3, <1>3 DEF InOnePlace
    <2> QED BY <2>1, <2>2, <2>5, <2>6, <2>7, <2>8, <1>3 DEF InOnePlace
  <1>7. Base(u, K) BY <1>3, <1>4, <1>5, <1>6 DEF Base
  <1> QED BY <1>2, <1>7

\* A page whose file fails.
LEMMA LosesFileKeeps ==
  ASSUME NEW w, NEW K, NEW s \in Pages, NEW isError \in BOOLEAN, Fine(w, K),
         w.call # "init", isError \/ K.c
  PROVE  Fine(Reject(Forgets(w, s), isError, {s}), K)
  <1>1. Base(w, K) /\ CoversIf(w, K) BY DEF Fine
  <1>2. w \in BrowserWorker BY <1>1 DEF Base
  <1>3. PICK u : u = Forgets(w, s) OBVIOUS
  <1>4. u.call = w.call /\ u.outcome = w.outcome BY <1>2, <1>3, ForgetsIs
  <1>5. Base(u, K) BY <1>1, <1>3, ForgetsKeeps
  <1>6. K.p \in Isolated /\ K.active /\ ~K.c /\ u.outcome = "ok" => Mine(K.r, K.p) \subseteq K.d
    BY <1>1, <1>4 DEF CoversIf, Covers
  <1>7. u.call # "init" BY <1>4
  <1>8. Fine(Reject(u, isError, {s}), K) BY <1>5, <1>6, <1>7, RejectKeeps
  <1> QED BY <1>3, <1>8

\* And one that fails while its file goes on.
LEMMA FailsKeeps ==
  ASSUME NEW w, NEW K, NEW gone, NEW isError \in BOOLEAN, Fine(w, K),
         w.call # "init", isError \/ K.c
  PROVE  /\ Fine(Reject(w, isError, gone), K)
         /\ Reject(w, isError, gone).call = w.call
         /\ Reject(w, isError, gone).started = w.started
  <1>1. Base(w, K) /\ CoversIf(w, K) BY DEF Fine
  <1>2. K.p \in Isolated /\ K.active /\ ~K.c /\ w.outcome = "ok" => Mine(K.r, K.p) \subseteq K.d
    BY <1>1 DEF CoversIf, Covers
  <1> QED BY <1>1, <1>2, RejectKeeps

\* A page that was cleaned up.
LEMMA CleanedKeeps ==
  ASSUME NEW w, NEW K, NEW s \in Pages, Fine(w, K), w.call # "init", w.started,
         K.p \notin Isolated
  PROVE  Fine(FinishSession(w, s), K)
  <1>1. Base(w, K) /\ CoversIf(w, K) BY DEF Fine
  <1> QED BY <1>1, FinishKeeps

\* A page that cannot be opened.
FailsToOpen(w, s) == [w EXCEPT !.opening = @ \ {s}, !.sessions = @ \ {s}]

\* Its worker rejects the run when it awaits the page.
LEMMA FailsToOpenKeeps ==
  ASSUME NEW w, NEW K, NEW s \in Pages, Fine(w, K), w.call # "init", w.started
  PROVE  Fine(PageFails(FailsToOpen(w, s), s), K)
  <1>1. w \in BrowserWorker BY DEF Fine, Base
  <1>2. PICK o \in SUBSET Pages, e \in SUBSET Pages : o = w.opening \ {s} /\ e = w.sessions \ {s}
    BY <1>1 DEF BrowserWorker
  <1>3. PICK u : u = FailsToOpen(w, s) OBVIOUS
  <1>4. u = [w EXCEPT !.opening = o, !.sessions = e] BY <1>2, <1>3 DEF FailsToOpen
  <1>5. Alike(w, u) /\ u.opening = o /\ u.ready = w.ready BY <1>1, <1>4 DEF Alike, BrowserWorker
  <1>6. ASSUME K.p \in Isolated PROVE u.opening \cap (u.busy \cup u.ready) = {}
    <2>1. w.opening \cap (w.busy \cup w.ready) = {} BY <1>6 DEF Fine, Base, InOnePlace
    <2> QED BY <2>1, <1>2, <1>5 DEF Alike
  <1>7. Fine(u, K) BY <1>5, <1>6, AlikeKeeps
  <1>8. Base(u, K) /\ CoversIf(u, K) /\ (u.error => u.promise) /\ u.call # "init"
    BY <1>5, <1>7 DEF Fine, Alike
  <1>9. Fine(PageFails(u, s), K) BY <1>8, PageFailsKeeps
  <1> QED BY <1>3, <1>9

\* A page that connects.
Connects(w, s) == [w EXCEPT !.opening = @ \ {s}]

ConnectedIs(w, s, pages) ==
    IF NextThrows(w, s, pages) THEN PageFails(RunNextTest(w, s, pages), s)
    ELSE PageIsOpen(RunNextTest(w, s, pages), s)

\* It takes a file; with isolation it never throws.
LEMMA ConnectsKeeps ==
  ASSUME NEW w, NEW K, NEW s \in Pages, NEW pages, s \in pages, Fine(w, K),
         w.call # "init", w.started, s \in w.opening
  PROVE  Fine(ConnectedIs(Connects(w, s), s, pages), K)
  <1>1. w \in BrowserWorker BY DEF Fine, Base
  <1>2. PICK o \in SUBSET Pages : o = w.opening \ {s} BY <1>1 DEF BrowserWorker
  <1>3. PICK u : u = Connects(w, s) OBVIOUS
  <1>4. u = [w EXCEPT !.opening = o] BY <1>2, <1>3 DEF Connects
  <1>5. Alike(w, u) /\ u.opening = o /\ u.ready = w.ready BY <1>1, <1>4 DEF Alike, BrowserWorker
  <1>6. ASSUME K.p \in Isolated
        PROVE  u.opening \cap (u.busy \cup u.ready) = {} /\ s \notin u.busy
    <2>1. w.opening \cap (w.busy \cup w.ready) = {} BY <1>6 DEF Fine, Base, InOnePlace
    <2> QED BY <2>1, <1>2, <1>5 DEF Alike
  <1>7. Fine(u, K) BY <1>5, <1>6, AlikeKeeps
  <1>8. Base(u, K) /\ CoversIf(u, K) /\ (u.error => u.promise) /\ u.call # "init" /\ u.started
    BY <1>5, <1>7 DEF Fine, Alike
  <1>9. K.p \in Isolated => s \notin u.opening /\ (s \in u.busy => u.file[s] = None)
    BY <1>2, <1>5, <1>6
  <1>10. PICK v : v = RunNextTest(u, s, pages) OBVIOUS
  <1>11. /\ ~NextThrows(u, s, pages) => Fine(v, K)
         /\ NextThrows(u, s, pages) => Base(v, K) /\ v.call # "init" /\ (v.error => v.promise)
    BY <1>8, <1>9, <1>10, NextKeeps
  <1>12. CASE ~NextThrows(u, s, pages)
    <2>1. Fine(PageIsOpen(v, s), K) BY <1>11, <1>12, PageIsOpenKeeps
    <2> QED BY <2>1, <1>3, <1>10, <1>12 DEF ConnectedIs
  <1>13. CASE NextThrows(u, s, pages)
    <2>1. K.p \notin Isolated
      <3>1. ASSUME K.p \in Isolated PROVE FALSE
        <4>1. InOnePlace(u, Mine(K.r, K.p), K.waits, K.d) BY <1>8, <3>1 DEF Base
        <4>2. u.queue # <<>> => u.promise BY <4>1 DEF InOnePlace
        <4> QED BY <4>2, <1>13 DEF NextThrows
      <3> QED BY <3>1
    <2>2. CoversIf(v, K) BY <2>1 DEF CoversIf
    <2>3. Fine(PageFails(v, s), K) BY <2>2, <1>11, <1>13, PageFailsKeeps
    <2> QED BY <2>3, <1>3, <1>10, <1>13 DEF ConnectedIs
  <1> QED BY <1>12, <1>13

\* A page whose file ended.
EndedIs(w, s, pages) ==
    IF NextThrows(w, s, pages) THEN Reject(RunNextTest(w, s, pages), TRUE, {s})
    ELSE RunNextTest(w, s, pages)

\* The file is among those that ended, and the page takes the next one.
LEMMA EndedKeeps ==
  ASSUME NEW w, NEW K, NEW L, NEW s \in Pages, NEW pages, Fine(w, K),
         w.call # "init", w.started, s \in w.busy, w.file[s] # None,
         L.p = K.p, L.r = K.r, L.active = K.active, L.waits = K.waits, L.c = K.c,
         L.d = K.d \cup {w.file[s]}
  PROVE  Fine(EndedIs(Forgets(w, s), s, pages), L)
  <1>1. Base(w, K) /\ CoversIf(w, K) /\ (w.error => w.promise) BY DEF Fine
  <1>2. w \in BrowserWorker BY <1>1 DEF Base
  <1>3. PICK u : u = Forgets(w, s) OBVIOUS
  <1>4. /\ u \in BrowserWorker
        /\ u.isolate = w.isolate /\ u.queue = w.queue /\ u.promise = w.promise
        /\ u.outcome = w.outcome /\ u.error = w.error /\ u.started = w.started
        /\ u.call = w.call /\ u.sessions = w.sessions /\ u.busy = w.busy
        /\ u.opening = w.opening /\ u.ready = w.ready /\ u.cleaning = w.cleaning
        /\ u.file[s] = None /\ \A t \in Pages : t # s => u.file[t] = w.file[t]
    BY ONLY <1>2, <1>3, s \in Pages, ForgetsIs
  <1>5. Base(u, K) BY <1>1, <1>3, ForgetsKeeps
  <1>6. PICK f : f = w.file[s] OBVIOUS
  <1>7. PICK M : M = Mine(K.r, K.p) /\ M = Mine(L.r, L.p) OBVIOUS
  <1>8. ~K.waits
    <2>1. K.active BY <1>1 DEF Base, InCall
    <2> QED BY <2>1, <1>1 DEF Base
  <1>9. ASSUME K.p \in Isolated PROVE InOnePlace(u, M, L.waits, L.d)
    <2>1. InOnePlace(u, M, K.waits, K.d) /\ InOnePlace(w, M, K.waits, K.d)
      BY <1>1, <1>5, <1>7, <1>9 DEF Base
    <2>2. f \notin ToSet(u.queue) BY <2>1, <1>4, <1>6 DEF InOnePlace
    <2>3. ToSet(u.queue) \subseteq M \ L.d BY <2>1, <2>2, <1>6 DEF InOnePlace
    <2>4. \A t \in u.busy : u.file[t] # None => u.file[t] \in M \ L.d
      <3> TAKE t \in u.busy
      <3> HAVE u.file[t] # None
      <3>1. t \in Pages /\ t # s BY <1>4 DEF BrowserWorker
      <3>2. u.file[t] = w.file[t] BY <3>1, <1>4
      <3>3. u.file[t] # f BY <3>1, <3>2, <2>1, <1>6 DEF InOnePlace
      <3>4. u.file[t] \in M \ K.d BY <2>1 DEF InOnePlace
      <3> QED BY <3>3, <3>4, <1>6
    <2> QED BY <2>1, <2>3, <2>4, <1>8 DEF InOnePlace
  <1>10. Base(u, L) BY <1>5, <1>7, <1>9 DEF Base
  <1>11. CoversIf(u, L)
    <2> SUFFICES ASSUME K.p \in Isolated PROVE Covers(u, M, L.active, L.d, L.c) BY <1>7 DEF CoversIf
    <2>1. Covers(w, M, K.active, K.d, K.c) BY <1>1, <1>7 DEF CoversIf
    <2>2. ASSUME NEW x \in {w.file[t] : t \in w.busy}
          PROVE  x \in L.d \cup {u.file[t] : t \in u.busy}
      <3>1. PICK t \in w.busy : x = w.file[t] BY <2>2
      <3>2. CASE t = s BY <3>1, <3>2
      <3>3. CASE t # s
        <4>1. t \in Pages /\ t \in u.busy BY <1>2, <1>4 DEF BrowserWorker
        <4>2. u.file[t] = x BY <4>1, <3>1, <3>3, <1>4
        <4> QED BY <4>1, <4>2
      <3> QED BY <3>2, <3>3
    <2>3. K.active /\ ~K.c /\ w.outcome = "pending" /\ ~w.error =>
            M \subseteq L.d \cup ToSet(w.queue) \cup {u.file[t] : t \in u.busy}
      BY <2>1, <2>2 DEF Covers
    <2>4. K.active /\ ~K.c /\ w.outcome = "ok" => M \subseteq L.d BY <2>1 DEF Covers
    <2> QED BY <2>3, <2>4, <1>4 DEF Covers
  <1>12. L.p \in Isolated => s \notin u.opening /\ (s \in u.busy => u.file[s] = None)
    <2>1. ASSUME K.p \in Isolated PROVE w.opening \cap w.busy = {}
      <3>1. InOnePlace(w, M, K.waits, K.d) BY <2>1, <1>1, <1>7 DEF Base
      <3> QED BY <3>1 DEF InOnePlace
    <2> QED BY <2>1, <1>4
  <1>13. u.call # "init" /\ u.started /\ (u.error => u.promise) BY <1>1, <1>4
  <1>14. PICK v : v = RunNextTest(u, s, pages) OBVIOUS
  <1>15. /\ ~NextThrows(u, s, pages) => Fine(v, L)
         /\ NextThrows(u, s, pages) =>
                /\ Base(v, L) /\ v.call # "init"
                /\ L.p \in Isolated /\ L.active /\ ~L.c /\ v.outcome = "ok" => Mine(L.r, L.p) \subseteq L.d
    BY ONLY <1>10, <1>11, <1>12, <1>13, <1>14, s \in Pages, NextKeeps
  <1>16. NextThrows(u, s, pages) => Fine(Reject(v, TRUE, {s}), L)
    BY <1>15, RejectKeeps
  <1> QED BY <1>3, <1>14, <1>15, <1>16 DEF EndedIs

\* What a worker knows of the page of an event that is no promise job.
LEMMA EventIs ==
  ASSUME NEW w, NEW K, NEW s \in Pages, Fine(w, K), ~(w.call = "init" /\ w.started),
         \/ s \in w.sessions \cup w.busy \cup w.opening \cup w.cleaning
         \/ w.file[s] # None
  PROVE  w.call # "init" /\ w.started
  <1>1. InCall(w, K.active) BY DEF Fine, Base
  <1>2. w.started BY <1>1 DEF InCall
  <1> QED BY <1>2

(***************************************************************************)
(* The invariant                                                           *)
(***************************************************************************)
Now == [queue |-> queue, workers |-> workers, active |-> activeWorkers,
        exclusive |-> exclusiveRunning, worker |-> worker, pages |-> orchestrators]

\* While the providers of a run start, no project has a file of it.
Waiting(p) ==
    [p |-> p, active |-> FALSE, waits |-> TRUE, r |-> run, d |-> done, c |-> cancelled]

Typed ==
    /\ run \in 0 .. Len(Runs) /\ stage \in {"idle", "preparing", "running"}
    /\ cancelled \in BOOLEAN /\ done \subseteq AllFiles
    /\ result \in [Projects -> {"none", "pending", "ok", "error"}]

\* The results, against the tasks of the pool and the files that ended.
Results ==
    /\ \A p \in Projects : result[p] = "pending" <=> p \in ToSet(queue) \cup ToSet(activeWorkers)
    /\ stage # "running" => queue = <<>> /\ activeWorkers = <<>>
    /\ run = 0 => stage = "idle" /\ \A p \in Projects : result[p] = "none"
    /\ \A p \in Isolated : result[p] = "ok" /\ ~cancelled => Mine(run, p) \subseteq done

Prepared == stage = "preparing" => \A p \in Projects : Fine(worker[p], Waiting(p))

BrowserIInv ==
    /\ Typed /\ Results /\ Prepared
    /\ PoolOK(Now, maxWorkers, run, done, cancelled)

\* Its parts.
LEMMA NowIs ==
  /\ Now.queue = queue /\ Now.workers = workers /\ Now.active = activeWorkers
  /\ Now.exclusive = exclusiveRunning /\ Now.worker = worker /\ Now.pages = orchestrators
  BY DEF Now

\* A pool whose parts are now those of S.
LEMMA BecomesNow ==
  ASSUME NEW S, S \in PoolType, Becomes(S)
  PROVE  Now' = S
  BY DEF Becomes, Now, PoolType

\* A pool that changes its workers and pages only.
LEMMA WorkersChange ==
  ASSUME NEW S, NEW T, NEW m, NEW r, NEW d, NEW c, NEW e, NEW b,
         PoolOK(S, m, r, d, c), T \in PoolType,
         T.queue = S.queue, T.workers = S.workers, T.active = S.active, T.exclusive = S.exclusive,
         \A p \in Projects : Fine(T.worker[p], ContextOf(S, p, r, e, b))
  PROVE  PoolOK(T, m, r, e, b)
  <1>1. \A p \in Projects : ContextOf(T, p, r, e, b) = ContextOf(S, p, r, e, b) BY DEF ContextOf
  <1>2. AllFine(T, r, e, b) BY <1>1 DEF AllFine
  <1>3. InOrder(T) BY DEF PoolOK, InOrder
  <1>4. Slots(T, m) BY DEF PoolOK, Slots
  <1> QED BY <1>2, <1>3, <1>4 DEF PoolOK

\* It holds at first.
LEMMA BrowserInitIInv ==
  ASSUME BrowserInit PROVE BrowserIInv
  <1>0. Isolated \subseteq Projects /\ Len(Runs) \in Nat BY BrowserAssumption
  <1>1. \A p \in Projects : result[p] = "none" BY DEF BrowserInit
  <1>2. Typed
    <2>1. result \in [Projects -> {"none", "pending", "ok", "error"}] BY DEF BrowserInit
    <2>2. run \in 0 .. Len(Runs) BY <1>0 DEF BrowserInit
    <2> QED BY <2>1, <2>2 DEF BrowserInit, Typed
  <1>3. Results
    <2>1. \A p \in Projects : p \notin ToSet(queue) \cup ToSet(activeWorkers)
      BY NothingInEmpty DEF BrowserInit
    <2>2. queue = <<>> /\ activeWorkers = <<>> /\ stage = "idle" BY DEF BrowserInit
    <2> QED BY <1>0, <1>1, <2>1, <2>2 DEF Results
  <1>4. Prepared BY DEF BrowserInit, Prepared
  <1>5. PICK S : S = Now OBVIOUS
  <1>6. PICK ws : ws = [p \in Projects |-> NewWorker(p)] OBVIOUS
  <1>7. S = [queue |-> <<>>, workers |-> <<>>, active |-> <<>>, exclusive |-> FALSE,
             worker |-> ws, pages |-> {}]
    BY <1>5, <1>6 DEF Now, BrowserInit
  <1>8. AllFine(S, run, done, cancelled)
    <2> SUFFICES ASSUME NEW p \in Projects PROVE Fine(ws[p], ContextOf(S, p, run, done, cancelled))
      BY <1>7 DEF AllFine
    <2>1. PICK K : K = ContextOf(S, p, run, done, cancelled) OBVIOUS
    <2>2. K.p = p /\ ~K.active /\ ~K.waits BY <2>1, <1>7, NothingInEmpty DEF ContextOf
    <2>3. Fine(NewWorker(p), K) BY <2>2, NewIsFine
    <2> QED BY <2>1, <2>3, <1>6
  <1>9. ws \in [Projects -> BrowserWorker]
    <2>1. \A p \in Projects : ws[p] \in BrowserWorker BY <1>7, <1>8 DEF AllFine, Fine, Base
    <2> QED BY <2>1, <1>6
  <1>10. <<>> \in Seq(Projects) OBVIOUS
  <1>11. S \in PoolType BY <1>7, <1>9, <1>10 DEF PoolType
  <1>12. InOrder(S) BY <1>7, NothingInEmpty DEF InOrder
  <1>13. Slots(S, maxWorkers) BY <1>7, NothingInEmpty DEF Slots
  <1>14. PoolOK(S, maxWorkers, run, done, cancelled) BY <1>8, <1>11, <1>12, <1>13 DEF PoolOK
  <1> QED BY <1>2, <1>3, <1>4, <1>5, <1>14 DEF BrowserIInv

(***************************************************************************)
(* Steps of the pages                                                      *)
(***************************************************************************)
\* A context of p in this state.
Here(K, p) == K.p = p /\ K.r = run /\ K.d = done /\ K.c = cancelled

\* maxWorkers changes with the run only.
LEMMA ParametersStay == ASSUME run' = run PROVE maxWorkers' = maxWorkers
  BY DEF maxWorkers

\* A step that only changes the worker of p, and pages.
LEMMA PageStep ==
  ASSUME BrowserIInv, NEW p \in Projects, NEW v, worker' = [worker EXCEPT ![p] = v],
         orchestrators' \in SUBSET Pages, UNCHANGED <<control, pool, done>>,
         \A K : Here(K, p) /\ Fine(worker[p], K) => Fine(v, K)
  PROVE  BrowserIInv'
  <1>1. PICK S, T : S = Now /\ T = Now' OBVIOUS
  <1>2. PICK m : m = maxWorkers OBVIOUS
  <1>3. m = maxWorkers' BY <1>2, ParametersStay DEF control
  <1>4. UNCHANGED <<run, stage, cancelled, result, queue, workers, activeWorkers, exclusiveRunning, done>>
    BY DEF control, pool
  <1>5. PoolOK(S, m, run, done, cancelled) BY <1>1, <1>2 DEF BrowserIInv
  <1>6. worker \in [Projects -> BrowserWorker] BY <1>1, <1>5, NowIs DEF PoolOK, PoolType
  <1>7. /\ T.queue = S.queue /\ T.workers = S.workers /\ T.active = S.active
        /\ T.exclusive = S.exclusive /\ T.worker = worker' /\ T.pages = orchestrators'
        /\ S.worker = worker
    BY <1>1, <1>4 DEF Now
  <1>8. \A q \in Projects : q # p => worker'[q] = worker[q] BY <1>6
  <1>9. worker'[p] = v BY <1>6
  <1>10. \A q \in Projects : Fine(worker'[q], ContextOf(S, q, run, done, cancelled))
    <2> TAKE q \in Projects
    <2>1. PICK K : K = ContextOf(S, q, run, done, cancelled) OBVIOUS
    <2>2. Fine(worker[q], K) BY <1>5, <1>7, <2>1 DEF PoolOK, AllFine
    <2>3. CASE q = p
      <3>1. Here(K, p) BY <2>1, <2>3 DEF ContextOf, Here
      <3>2. Fine(v, K) BY <3>1, <2>2, <2>3
      <3> QED BY <3>2, <2>1, <2>3, <1>9
    <2>4. CASE q # p BY <2>1, <2>2, <2>4, <1>8
    <2> QED BY <2>3, <2>4
  <1>11. worker' \in [Projects -> BrowserWorker]
    <2>1. \A q \in Projects : worker'[q] \in BrowserWorker BY <1>10 DEF Fine, Base
    <2> QED BY <2>1, <1>6
  <1>12. T \in PoolType
    <2>1. /\ queue \in Seq(Projects) /\ workers \in Seq(Projects) /\ activeWorkers \in Seq(Projects)
          /\ exclusiveRunning \in BOOLEAN
      BY <1>1, <1>5, NowIs DEF PoolOK, PoolType
    <2>2. T = [queue |-> queue, workers |-> workers, active |-> activeWorkers,
               exclusive |-> exclusiveRunning, worker |-> worker', pages |-> orchestrators']
      BY <1>1, <1>4 DEF Now
    <2> QED BY <2>1, <2>2, <1>11 DEF PoolType
  <1>13. PoolOK(T, m, run, done, cancelled)
    BY <1>5, <1>7, <1>10, <1>12, WorkersChange
  <1>14. PoolOK(T, m, run', done', cancelled') BY <1>4, <1>13
  <1>15. Typed' /\ Results' BY <1>4 DEF BrowserIInv, Typed, Results
  <1>16. ASSUME stage' = "preparing", NEW q \in Projects PROVE Fine(worker'[q], Waiting(q)')
    <2>1. PICK K : K = Waiting(q) /\ K = Waiting(q)' BY <1>4 DEF Waiting
    <2>2. Fine(worker[q], K) BY <2>1, <1>4, <1>16 DEF BrowserIInv, Prepared
    <2>3. CASE q = p
      <3>1. Here(K, p) BY <2>1, <2>3 DEF Waiting, Here
      <3>2. Fine(v, K) BY <3>1, <2>2, <2>3
      <3> QED BY <3>2, <2>1, <2>3, <1>9
    <2>4. CASE q # p BY <2>1, <2>2, <2>4, <1>8
    <2> QED BY <2>3, <2>4
  <1>17. Prepared' BY <1>16 DEF Prepared
  <1> QED BY <1>1, <1>3, <1>14, <1>15, <1>17 DEF BrowserIInv

\* The context of p in the pool.
LEMMA WorkerIs ==
  ASSUME BrowserIInv, NEW p \in Projects
  PROVE  /\ worker[p] \in BrowserWorker /\ orchestrators \in SUBSET Pages
         /\ Fine(worker[p], ContextOf(Now, p, run, done, cancelled))
  BY NowIs DEF BrowserIInv, PoolOK, PoolType, AllFine

\* An event of a page comes to a worker whose provider is up and whose call has begun.
LEMMA PageEvent ==
  ASSUME BrowserIInv, NEW p \in Projects, NEW s \in Pages, ~JobsLeft,
         \/ s \in worker[p].sessions \cup worker[p].busy \cup worker[p].opening \cup worker[p].cleaning
         \/ worker[p].file[s] # None
  PROVE  worker[p].call # "init" /\ worker[p].started
  <1>1. PICK K : K = ContextOf(Now, p, run, done, cancelled) OBVIOUS
  <1>2. Fine(worker[p], K) BY <1>1, WorkerIs
  <1>3. ~(worker[p].call = "init" /\ worker[p].started) BY DEF JobsLeft
  <1> QED BY <1>2, <1>3, EventIs

\* A page connects.
LEMMA OpenedStep ==
  ASSUME BrowserIInv, NEW p \in Projects, NEW s \in Pages, Opened(p, s) PROVE BrowserIInv'
  <1>1. s \in worker[p].opening /\ ~JobsLeft BY DEF Opened
  <1>2. worker[p].call # "init" /\ worker[p].started BY <1>1, PageEvent
  <1>3. PICK w, pages : w = worker[p] /\ pages = orchestrators \cup {s} OBVIOUS
  <1>4. PICK v : v = ConnectedIs(Connects(w, s), s, pages) OBVIOUS
  <1>5. worker' = [worker EXCEPT ![p] = v] /\ orchestrators' = pages
    BY <1>3, <1>4 DEF Opened, ConnectedIs, Connects
  <1>6. UNCHANGED <<control, pool, done>> BY DEF Opened
  <1>7. \A K : Fine(w, K) => Fine(v, K) BY <1>1, <1>2, <1>3, <1>4, ConnectsKeeps
  <1>8. pages \in SUBSET Pages BY <1>3, WorkerIs
  <1> QED BY <1>3, <1>5, <1>6, <1>7, <1>8, PageStep

\* A page cannot be opened.
LEMMA OpenFailsStep ==
  ASSUME BrowserIInv, NEW p \in Projects, NEW s \in Pages, OpenFails(p, s) PROVE BrowserIInv'
  <1>1. s \in worker[p].opening /\ ~JobsLeft BY DEF OpenFails, Fault
  <1>2. worker[p].call # "init" /\ worker[p].started BY <1>1, PageEvent
  <1>3. PICK w : w = worker[p] OBVIOUS
  <1>4. PICK v : v = PageFails(FailsToOpen(w, s), s) OBVIOUS
  <1>5. worker' = [worker EXCEPT ![p] = v] BY <1>3, <1>4 DEF OpenFails, FailsToOpen
  <1>6. UNCHANGED <<control, pool, orchestrators, done>> BY DEF OpenFails
  <1>7. \A K : Fine(w, K) => Fine(v, K) BY <1>2, <1>3, <1>4, FailsToOpenKeeps
  <1>8. orchestrators' \in SUBSET Pages BY <1>6, WorkerIs
  <1> QED BY <1>3, <1>5, <1>6, <1>7, <1>8, PageStep

\* createTesters fails, at once or late.
LEMMA FileFailsStep ==
  ASSUME BrowserIInv, NEW p \in Projects, NEW s \in Pages, FileFails(p, s) \/ LateAnswer(p, s) PROVE BrowserIInv'
  <1>1. worker[p].file[s] # None /\ ~JobsLeft BY DEF FileFails, LateAnswer, Fault
  <1>2. worker[p].call # "init" /\ worker[p].started BY <1>1, PageEvent
  <1>3. PICK w : w = worker[p] OBVIOUS
  <1>4. PICK v : v = Reject(Forgets(w, s), TRUE, {s}) OBVIOUS
  <1>5. worker' = [worker EXCEPT ![p] = v]
    BY <1>3, <1>4 DEF FileFails, LateAnswer, Forgets
  <1>6. UNCHANGED <<control, pool, orchestrators, done>> BY DEF FileFails, LateAnswer
  <1>7. \A K : Fine(w, K) => Fine(v, K) BY <1>2, <1>3, <1>4, LosesFileKeeps
  <1>8. orchestrators' \in SUBSET Pages BY <1>6, WorkerIs
  <1> QED BY <1>3, <1>5, <1>6, <1>7, <1>8, PageStep

\* The html of a tester cannot be served.
LEMMA TesterFailsStep ==
  ASSUME BrowserIInv, NEW p \in Projects, NEW s \in Pages, TesterFails(p, s) PROVE BrowserIInv'
  <1>1. worker[p].file[s] # None /\ ~JobsLeft BY DEF TesterFails, Fault
  <1>2. worker[p].call # "init" /\ worker[p].started BY <1>1, PageEvent
  <1>3. PICK w : w = worker[p] OBVIOUS
  <1>4. PICK v : v = Reject(w, TRUE, {s}) OBVIOUS
  <1>5. worker' = [worker EXCEPT ![p] = v] BY <1>3, <1>4 DEF TesterFails
  <1>6. UNCHANGED <<control, pool, orchestrators, done>> BY DEF TesterFails
  <1>7. \A K : Fine(w, K) => Fine(v, K) BY <1>2, <1>3, <1>4, FailsKeeps
  <1>8. orchestrators' \in SUBSET Pages BY <1>6, WorkerIs
  <1> QED BY <1>3, <1>5, <1>6, <1>7, <1>8, PageStep

\* Only a page without isolation is cleaned.
LEMMA CleaningIs ==
  ASSUME NEW w, NEW K, NEW s \in w.cleaning, Fine(w, K) PROVE K.p \notin Isolated
  BY DEF Fine, Base, InOnePlace

\* A page was cleaned up.
LEMMA CleanedStep ==
  ASSUME BrowserIInv, NEW p \in Projects, NEW s \in Pages, Cleaned(p, s) PROVE BrowserIInv'
  <1>1. s \in worker[p].cleaning /\ ~JobsLeft BY DEF Cleaned
  <1>2. worker[p].call # "init" /\ worker[p].started BY <1>1, PageEvent
  <1>3. PICK w : w = worker[p] OBVIOUS
  <1>4. PICK v : v = FinishSession(w, s) OBVIOUS
  <1>5. worker' = [worker EXCEPT ![p] = v] BY <1>3, <1>4 DEF Cleaned
  <1>6. UNCHANGED <<control, pool, orchestrators, done>> BY DEF Cleaned
  <1>7. \A K : Fine(w, K) => Fine(v, K)
    BY <1>1, <1>2, <1>3, <1>4, CleaningIs, CleanedKeeps
  <1>8. orchestrators' \in SUBSET Pages BY <1>6, WorkerIs
  <1> QED BY <1>3, <1>5, <1>6, <1>7, <1>8, PageStep

\* A page is closed.
LEMMA PageClosesStep ==
  ASSUME BrowserIInv, NEW p \in Projects, NEW s \in Pages, PageCloses(p, s) PROVE BrowserIInv'
  <1>1. s \in worker[p].sessions /\ ~JobsLeft BY DEF PageCloses, Fault
  <1>2. worker[p].call # "init" /\ worker[p].started BY <1>1, PageEvent
  <1>3. PICK w : w = worker[p] OBVIOUS
  <1>4. w \in BrowserWorker BY <1>3, WorkerIs
  <1>5. PICK u : u = Forgets(w, s) OBVIOUS
  <1>6. w.file[s] = None => u = w BY <1>4, <1>5, ForgetsIs
  <1>7. cancelled \in BOOLEAN BY DEF BrowserIInv, Typed
  <1>8. PICK e \in BOOLEAN : e = ~cancelled BY <1>7
  <1>9. PICK v : v = CASE w.file[s] # None -> Reject(u, e, {s})
                       [] w.file[s] = None /\ s \in u.cleaning -> FinishSession(Reject(u, e, {}), s)
                       [] OTHER -> u
    OBVIOUS
  <1>10. worker' = [worker EXCEPT ![p] = v] BY <1>3, <1>5, <1>8, <1>9 DEF PageCloses, Forgets
  <1>11. UNCHANGED <<control, pool, done>> /\ orchestrators' = orchestrators \ {s} BY DEF PageCloses
  <1>12. ASSUME NEW K, Here(K, p), Fine(w, K) PROVE Fine(v, K)
    <2>1. e \/ K.c BY <1>7, <1>8, <1>12 DEF Here
    <2>2. CASE w.file[s] # None
      <3>1. Fine(Reject(u, e, {s}), K) BY <2>1, <1>2, <1>3, <1>5, <1>12, LosesFileKeeps
      <3> QED BY <3>1, <2>2, <1>9
    <2>3. CASE w.file[s] = None /\ s \in w.cleaning
      <3>1. PICK x : x = Reject(w, e, {}) OBVIOUS
      <3>2. Fine(x, K) /\ x.call # "init" /\ x.started
        BY <3>1, <2>1, <1>2, <1>3, <1>12, FailsKeeps
      <3>3. K.p \notin Isolated BY <2>3, <1>12, CleaningIs
      <3>4. Fine(FinishSession(x, s), K) BY <3>2, <3>3, CleanedKeeps
      <3> QED BY <3>1, <3>4, <2>3, <1>6, <1>9
    <2>4. CASE w.file[s] = None /\ s \notin w.cleaning
      BY <2>4, <1>6, <1>9, <1>12
    <2> QED BY <2>2, <2>3, <2>4
  <1>13. orchestrators' \in SUBSET Pages BY <1>11, WorkerIs
  <1> QED BY <1>3, <1>10, <1>11, <1>12, <1>13, PageStep

\* A file ends: the workers of the other projects do not know it.
LEMMA FileRanStep ==
  ASSUME BrowserIInv, NEW p \in Projects, NEW s \in Pages, FileRan(p, s) PROVE BrowserIInv'
  <1>1. worker[p].file[s] # None /\ s \in worker[p].busy /\ ~JobsLeft BY DEF FileRan
  <1>2. worker[p].call # "init" /\ worker[p].started BY <1>1, PageEvent
  <1>3. PICK w, pages : w = worker[p] /\ pages = orchestrators OBVIOUS
  <1>4. PICK v : v = EndedIs(Forgets(w, s), s, pages) OBVIOUS
  <1>5. worker' = [worker EXCEPT ![p] = v] BY <1>3, <1>4 DEF FileRan, EndedIs, Forgets
  <1>6. UNCHANGED <<control, pool, orchestrators>> BY DEF FileRan
  <1>7. PICK f, d, e : f = w.file[s] /\ d = done /\ e = d \cup {f} OBVIOUS
  <1>8. done' = e BY <1>3, <1>7 DEF FileRan
  <1>9. PICK S, T : S = Now /\ T = Now' OBVIOUS
  <1>10. PICK m : m = maxWorkers OBVIOUS
  <1>11. m = maxWorkers' BY <1>6, <1>10, ParametersStay DEF control
  <1>12. UNCHANGED <<run, stage, cancelled, result, queue, workers, activeWorkers, exclusiveRunning>>
    BY <1>6 DEF control, pool
  <1>13. PoolOK(S, m, run, d, cancelled) BY <1>7, <1>9, <1>10 DEF BrowserIInv
  <1>14. worker \in [Projects -> BrowserWorker] /\ orchestrators \in SUBSET Pages
    BY <1>9, <1>13, NowIs DEF PoolOK, PoolType
  <1>15. /\ T.queue = S.queue /\ T.workers = S.workers /\ T.active = S.active
         /\ T.exclusive = S.exclusive /\ T.worker = worker' /\ T.pages = orchestrators
         /\ S.worker = worker /\ S.active = activeWorkers
    BY <1>6, <1>9, <1>12 DEF Now
  <1>16. \A q \in Projects : q # p => worker'[q] = worker[q] BY <1>5, <1>14
  <1>17. worker'[p] = v BY <1>5, <1>14
  <1>18. Fine(w, ContextOf(S, p, run, d, cancelled)) BY <1>3, <1>13, <1>15 DEF PoolOK, AllFine
  <1>19. f \in FilesUpTo(run, p) /\ p \in ToSet(activeWorkers)
    <2>1. PICK K : K = ContextOf(S, p, run, d, cancelled) OBVIOUS
    <2>2. InCall(w, K.active) /\ KnownFiles(w, K.p, K.r) BY <1>18, <2>1 DEF Fine, Base
    <2>3. K.p = p /\ K.r = run /\ (K.active <=> p \in ToSet(activeWorkers)) BY <1>15, <2>1 DEF ContextOf
    <2>4. K.active BY <2>2, <1>1, <1>3 DEF InCall
    <2> QED BY <2>2, <2>3, <2>4, <1>1, <1>3, <1>7 DEF KnownFiles
  <1>20. \A q \in Projects : Fine(worker'[q], ContextOf(S, q, run, e, cancelled))
    <2> TAKE q \in Projects
    <2>1. PICK K, L : K = ContextOf(S, q, run, d, cancelled) /\ L = ContextOf(S, q, run, e, cancelled) OBVIOUS
    <2>2. Fine(worker[q], K) BY <1>13, <1>15, <2>1 DEF PoolOK, AllFine
    <2>3. /\ L.p = q /\ K.p = q /\ L.r = run /\ K.r = run /\ L.active = K.active /\ L.waits = K.waits
          /\ L.c = K.c /\ L.d = e /\ K.d = d
      BY <2>1 DEF ContextOf
    <2>4. CASE q = p
      <3>1. L.d = K.d \cup {w.file[s]} BY <2>3, <1>7
      <3>2. Fine(w, K) BY <2>2, <2>4, <1>3
      <3>3. /\ w.call # "init" /\ w.started /\ s \in w.busy /\ w.file[s] # None
        BY <1>1, <1>2, <1>3
      <3>4. L.p = K.p /\ L.r = K.r BY <2>3
      <3>5. Fine(v, L) BY <3>1, <3>2, <3>3, <3>4, <2>3, <1>4, EndedKeeps
      <3> QED BY <3>5, <2>1, <2>4, <1>17
    <2>5. CASE q # p
      <3>1. f \notin Mine(run, q)
        <4>1. PICK i : f \in FilesOf(i, p) BY <1>19 DEF FilesUpTo
        <4> QED BY <4>1, <2>5, FilesApart DEF Mine
      <3>2. K.d \subseteq L.d /\ Mine(K.r, K.p) \cap L.d \subseteq K.d BY <3>1, <2>3, <1>7
      <3>3. L.p = K.p /\ L.r = K.r /\ (L.waits => K.waits) BY <2>3
      <3>4. Fine(worker[q], L) BY <3>2, <3>3, <2>2, <2>3, SameKeeps
      <3> QED BY <3>4, <2>1, <2>5, <1>16
    <2> QED BY <2>4, <2>5
  <1>21. worker' \in [Projects -> BrowserWorker]
    <2>1. \A q \in Projects : worker'[q] \in BrowserWorker BY <1>20 DEF Fine, Base
    <2> QED BY <2>1, <1>5, <1>14
  <1>22. T \in PoolType
    <2>1. S \in PoolType BY <1>13 DEF PoolOK
    <2>2. T = [S EXCEPT !.worker = worker'] BY <1>6, <1>9, <1>12 DEF Now
    <2> QED BY <2>1, <2>2, <1>21 DEF PoolType
  <1>23. PoolOK(T, m, run, e, cancelled)
    BY <1>13, <1>15, <1>20, <1>22, WorkersChange
  <1>24. PoolOK(T, m, run', done', cancelled') BY <1>8, <1>12, <1>23
  <1>25. f \in AllFiles
    <2>1. run \in 0 .. Len(Runs) BY DEF BrowserIInv, Typed
    <2> QED BY <2>1, <1>19, KnownAreFiles
  <1>26. Typed' BY <1>7, <1>8, <1>12, <1>25 DEF BrowserIInv, Typed
  <1>27. Results' BY <1>7, <1>8, <1>12 DEF BrowserIInv, Results
  <1>28. stage = "running" /\ activeWorkers # <<>>
    <2>1. activeWorkers # <<>> BY <1>19, NothingInEmpty
    <2> QED BY <2>1 DEF BrowserIInv, Results
  <1>29. Prepared' BY <1>12, <1>28 DEF Prepared
  <1> QED BY <1>9, <1>11, <1>24, <1>26, <1>27, <1>29 DEF BrowserIInv

(***************************************************************************)
(* Steps of the runs                                                       *)
(***************************************************************************)
\* What the pool is like now.
LEMMA PoolIs ==
  ASSUME BrowserIInv
  PROVE  /\ queue \in Seq(Projects) /\ workers \in Seq(Projects) /\ activeWorkers \in Seq(Projects)
         /\ exclusiveRunning \in BOOLEAN /\ worker \in [Projects -> BrowserWorker]
         /\ orchestrators \in SUBSET Pages
         /\ InOrder(Now) /\ Slots(Now, maxWorkers)
         /\ \A p \in Projects : Fine(worker[p], ContextOf(Now, p, run, done, cancelled))
  BY NowIs DEF BrowserIInv, PoolOK, PoolType, AllFine

\* The context of p, part by part.
LEMMA ContextIs ==
  ASSUME NEW S, NEW p, NEW r, NEW d, NEW c, NEW K, K = ContextOf(S, p, r, d, c)
  PROVE  /\ K.p = p /\ K.r = r /\ K.d = d /\ K.c = c
         /\ K.active <=> p \in ToSet(S.active)
         /\ K.waits <=> p \in ToSet(S.queue)
  BY DEF ContextOf

\* A run begins: what is known is of earlier runs.
LEMMA PrepareStep ==
  ASSUME BrowserIInv, Prepare PROVE BrowserIInv'
  <1>1. PICK S, T : S = Now /\ T = Now' OBVIOUS
  <1>2. /\ stage = "idle" /\ run < Len(Runs) /\ run' = run + 1 /\ stage' = "preparing"
        /\ cancelled' = FALSE /\ done' = {} /\ result' = [p \in Projects |-> "none"]
        /\ UNCHANGED <<queue, workers, activeWorkers, exclusiveRunning, worker, orchestrators>>
    BY DEF Prepare, pool
  <1>3. T = S BY <1>1, <1>2 DEF Now
  <1>4. queue = <<>> /\ activeWorkers = <<>> BY <1>2 DEF BrowserIInv, Results
  <1>5. S.queue = <<>> /\ S.active = <<>> /\ S.worker = worker BY <1>1, <1>4, NowIs
  <1>6. run \in Nat /\ run + 1 \in 0 .. Len(Runs) /\ run + 1 # 0
    <2>1. Len(Runs) \in Nat BY BrowserAssumption
    <2> QED BY <2>1, <1>2 DEF BrowserIInv, Typed
  <1>7. ASSUME NEW p \in Projects, NEW L, L.p = p, L.r = run + 1, ~L.active, L.d = {}, ~L.c
        PROVE  Fine(worker[p], L)
    <2>1. PICK K : K = ContextOf(S, p, run, done, cancelled) OBVIOUS
    <2>2. Fine(worker[p], K) BY <1>1, <2>1, PoolIs
    <2>3. ~K.active /\ K.p = p /\ K.r = run BY <2>1, <1>5, NothingInEmpty, ContextIs
    <2> QED BY <2>2, <2>3, <1>6, <1>7, NextRunKeeps
  <1>8. PICK m : m = maxWorkers' OBVIOUS
  <1>9. PoolOK(S, m, run + 1, {}, FALSE)
    <2>1. S \in PoolType /\ InOrder(S) /\ Slots(S, maxWorkers) BY <1>1 DEF BrowserIInv, PoolOK
    <2>2. Slots(S, m) BY <2>1, <1>5, NothingInEmpty DEF Slots
    <2>3. AllFine(S, run + 1, {}, FALSE)
      <3> SUFFICES ASSUME NEW p \in Projects PROVE Fine(S.worker[p], ContextOf(S, p, run + 1, {}, FALSE))
        BY DEF AllFine
      <3>1. PICK L : L = ContextOf(S, p, run + 1, {}, FALSE) OBVIOUS
      <3>2. L.p = p /\ L.r = run + 1 /\ ~L.active /\ L.d = {} /\ ~L.c
        <4>1. /\ L.p = p /\ L.r = run + 1 /\ L.d = {} /\ L.c = FALSE
              /\ L.active = (p \in ToSet(S.active))
          BY <3>1 DEF ContextOf
        <4>2. p \notin ToSet(S.active) BY <1>5, NothingInEmpty
        <4> QED BY <4>1, <4>2
      <3>3. Fine(worker[p], L) BY <3>2, <1>7
      <3> QED BY <3>1, <3>3, <1>5
    <2> QED BY <2>1, <2>2, <2>3 DEF PoolOK
  <1>10. PoolOK(T, m, run', done', cancelled') BY <1>2, <1>3, <1>9
  <1>11. Typed' BY <1>2, <1>6 DEF Typed
  <1>12. Results'
    <2>1. \A p \in Projects : p \notin ToSet(queue) \cup ToSet(activeWorkers)
      BY <1>4, NothingInEmpty
    <2>2. \A p \in Projects : result'[p] = "none" BY <1>2
    <2>3. Isolated \subseteq Projects BY BrowserAssumption
    <2> QED BY <2>1, <2>2, <2>3, <1>2, <1>4, <1>6 DEF Results
  <1>13. ASSUME NEW p \in Projects PROVE Fine(worker'[p], Waiting(p)')
    <2>1. PICK L : L = Waiting(p)' OBVIOUS
    <2>2. L.p = p /\ L.r = run + 1 /\ ~L.active /\ L.d = {} /\ ~L.c BY <2>1, <1>2 DEF Waiting
    <2>3. Fine(worker[p], L) BY <2>2, <1>7
    <2> QED BY <2>1, <2>3, <1>2
  <1>14. Prepared' BY <1>13 DEF Prepared
  <1> QED BY <1>1, <1>8, <1>10, <1>11, <1>12, <1>14 DEF BrowserIInv

\* The tasks of a run are in the queue, when its providers are up.
LEMMA EnqueueStep ==
  ASSUME BrowserIInv, Enqueue PROVE BrowserIInv'
  <1>1. stage = "preparing" /\ UNCHANGED <<run, cancelled, done>> BY DEF Enqueue
  <1>2. queue = <<>> /\ activeWorkers = <<>> BY <1>1 DEF BrowserIInv, Results
  <1>3. PICK m : m = maxWorkers /\ m = maxWorkers' BY <1>1, ParametersStay
  <1>4. CASE cancelled
    <2>1. /\ stage' = "idle"
          /\ UNCHANGED <<result, queue, workers, activeWorkers, exclusiveRunning, worker, orchestrators>>
      BY <1>4 DEF Enqueue, pool
    <2>2. PICK S : S = Now /\ S = Now' BY <2>1 DEF Now
    <2>3. PoolOK(S, m, run', done', cancelled') BY <1>1, <1>3, <2>2 DEF BrowserIInv
    <2>4. Typed' BY <1>1, <2>1 DEF BrowserIInv, Typed
    <2>5. Results' BY <1>1, <1>2, <2>1 DEF BrowserIInv, Results
    <2>6. Prepared' BY <2>1 DEF Prepared
    <2> QED BY <1>3, <2>2, <2>3, <2>4, <2>5, <2>6 DEF BrowserIInv
  <1>5. CASE ~cancelled
    <2>1. run \in 1 .. Len(Runs) /\ run \in 0 .. Len(Runs)
      <3>1. run # 0 BY <1>1 DEF BrowserIInv, Results
      <3>2. run \in 0 .. Len(Runs) /\ Len(Runs) \in Nat BY BrowserAssumption DEF BrowserIInv, Typed
      <3> QED BY <3>1, <3>2
    <2>2. PICK all, first, last : all = InRun(run) /\ first = all \ Exclusive /\ last = all \cap Exclusive
      OBVIOUS
    <2>3. all \subseteq Projects /\ IsFiniteSet(Projects) BY <2>2, BrowserAssumption DEF InRun
    <2>4. IsFiniteSet(first) /\ IsFiniteSet(last)
      <3>1. first \in SUBSET Projects /\ last \in SUBSET Projects BY <2>2, <2>3
      <3> QED BY <2>3, <3>1, FS_Subset
    <2>5. PICK a, b : a = SetToSeq(first) /\ b = SetToSeq(last) OBVIOUS
    <2>6. /\ a \in Seq(Projects) /\ ToSet(a) = first /\ IsInjective(a)
          /\ b \in Seq(Projects) /\ ToSet(b) = last /\ IsInjective(b)
      <3>1. /\ a \in Seq(first) /\ ToSet(a) = first /\ IsInjective(a)
            /\ b \in Seq(last) /\ ToSet(b) = last /\ IsInjective(b)
        BY <2>4, <2>5, SetToSeqIs
      <3>2. first \subseteq Projects /\ last \subseteq Projects BY <2>2, <2>3
      <3> QED BY <3>1, <3>2
    <2>7. PICK qs : qs = (queue \o a) \o b OBVIOUS
    <2>8. qs \in Seq(Projects) /\ ToSet(qs) = all /\ IsInjective(qs)
      <3>1. <<>> \in Seq(Projects) OBVIOUS
      <3>2. <<>> \o a = a BY <2>6
      <3>3. qs = a \o b BY <1>2, <2>7, <3>2
      <3>4. a \o b \in Seq(Projects) /\ ToSet(a \o b) = ToSet(a) \cup ToSet(b)
            /\ (IsInjective(a) /\ IsInjective(b) /\ ToSet(a) \cap ToSet(b) = {} => IsInjective(a \o b))
        BY <2>6, ConcatIs
      <3>5. ToSet(a) \cap ToSet(b) = {} /\ ToSet(a) \cup ToSet(b) = all BY <2>2, <2>6
      <3> QED BY <3>3, <3>4, <3>5, <2>6
    <2>9. PICK S : S = [queue |-> qs, workers |-> workers, active |-> activeWorkers,
                        exclusive |-> exclusiveRunning, worker |-> worker, pages |-> orchestrators]
      OBVIOUS
    <2>10. /\ S.queue = qs /\ S.workers = workers /\ S.active = <<>>
           /\ S.exclusive = exclusiveRunning /\ S.worker = worker /\ S.pages = orchestrators
      BY <2>9, <1>2
    <2>11. PoolOK(S, maxWorkers, run, done, cancelled)
      <3>1. S \in PoolType BY <2>8, <2>9, PoolIs DEF PoolType
      <3>2. InOrder(S)
        <4>1. IsInjective(workers) BY PoolIs, NowIs DEF InOrder
        <4> QED BY <4>1, <2>8, <2>10, NothingInEmpty DEF InOrder
      <3>3. Slots(S, maxWorkers)
        <4>1. exclusiveRunning <=> \E p \in Exclusive : p \in ToSet(<<>>)
          BY <1>2, PoolIs, NowIs DEF Slots
        <4> QED BY <4>1, <2>10, NothingInEmpty DEF Slots
      <3>4. AllFine(S, run, done, cancelled)
        <4> SUFFICES ASSUME NEW p \in Projects PROVE Fine(worker[p], ContextOf(S, p, run, done, cancelled))
          BY <2>10 DEF AllFine
        <4>1. PICK K, L : K = Waiting(p) /\ L = ContextOf(S, p, run, done, cancelled) OBVIOUS
        <4>2. Fine(worker[p], K) BY <4>1, <1>1 DEF BrowserIInv, Prepared
        <4>3. K.p = p /\ K.r = run /\ K.d = done /\ K.c = cancelled /\ K.active = FALSE /\ K.waits = TRUE
          BY <4>1 DEF Waiting
        <4>4. L.p = p /\ L.r = run /\ L.d = done /\ L.c = cancelled BY <4>1, ContextIs
        <4>5. L.active = FALSE
          <5>1. L.active = (p \in ToSet(S.active)) BY <4>1 DEF ContextOf
          <5>2. p \notin ToSet(S.active) BY <2>10, NothingInEmpty
          <5>3. (p \in ToSet(S.active)) = FALSE BY <5>2
          <5> QED BY <5>1, <5>3
        <4>6. K.d \subseteq L.d /\ Mine(K.r, K.p) \cap L.d \subseteq K.d BY <4>3, <4>4
        <4>7. L.p = K.p /\ L.r = K.r /\ L.active = K.active /\ (L.waits => K.waits) /\ L.c = K.c
          BY <4>3, <4>4, <4>5
        <4>8. Fine(worker[p], L) BY <4>2, <4>6, <4>7, SameKeeps
        <4> QED BY <4>1, <4>8
      <3> QED BY <3>1, <3>2, <3>3, <3>4 DEF PoolOK
    <2>12. PICK T : T = Schedule(S) OBVIOUS
    <2>13. Follows(T, S, done, cancelled) BY <2>1, <2>11, <2>12, ScheduleKeeps
    <2>14. PoolOK(T, m, run, done, cancelled) /\ ToSet(T.queue) \cup ToSet(T.active) = all
      BY <2>13, <2>8, <2>10, <1>3, NothingInEmpty DEF Follows
    <2>15. /\ stage' = "running" /\ Becomes(T)
           /\ result' = [p \in Projects |-> IF p \in all THEN "pending" ELSE "none"]
      BY <1>5, <2>2, <2>5, <2>7, <2>9, <2>12 DEF Enqueue
    <2>16. Now' = T BY <2>14, <2>15, BecomesNow DEF PoolOK
    <2>17. queue' = T.queue /\ activeWorkers' = T.active BY <2>15 DEF Becomes
    <2>18. PoolOK(T, m, run', done', cancelled') BY <1>1, <2>14
    <2>19. Typed'
      <3>1. result' \in [Projects -> {"none", "pending", "ok", "error"}] BY <2>15
      <3> QED BY <3>1, <1>1, <2>15 DEF BrowserIInv, Typed
    <2>20. Results'
      <3>1. \A p \in Projects : result'[p] = "pending" <=> p \in all BY <2>15
      <3>2. \A p \in Projects : result'[p] # "ok" BY <2>15
      <3>3. Isolated \subseteq Projects /\ run # 0 BY <2>1, BrowserAssumption
      <3> QED BY <3>1, <3>2, <3>3, <1>1, <2>14, <2>15, <2>17 DEF Results
    <2>21. Prepared' BY <2>15 DEF Prepared
    <2> QED BY <1>3, <2>16, <2>18, <2>19, <2>20, <2>21 DEF BrowserIInv
  <1>6. cancelled \in BOOLEAN BY DEF BrowserIInv, Typed
  <1> QED BY <1>4, <1>5, <1>6

\* A cancel empties the queue of the pool, and those of the workers.
LEMMA CancelStep ==
  ASSUME BrowserIInv, Cancel PROVE BrowserIInv'
  <1>1. /\ stage # "idle" /\ cancelled' = TRUE /\ queue' = <<>> /\ stage' = StageAfter(result')
        /\ result' = [p \in Projects |-> IF p \in ToSet(queue) THEN "ok" ELSE result[p]]
        /\ worker' = [p \in Projects |-> IF p \in ToSet(workers)
                        THEN [worker[p] EXCEPT !.queue = <<>>] ELSE worker[p]]
        /\ UNCHANGED <<run, workers, activeWorkers, exclusiveRunning, orchestrators, done>>
    BY DEF Cancel
  <1>2. PICK m : m = maxWorkers /\ m = maxWorkers' BY <1>1, ParametersStay
  <1>3. PICK S, T : S = Now /\ T = Now' OBVIOUS
  <1>4. /\ S.queue = queue /\ S.workers = workers /\ S.active = activeWorkers
        /\ S.exclusive = exclusiveRunning /\ S.worker = worker
    BY <1>3, NowIs
  <1>5. /\ T.queue = <<>> /\ T.workers = workers /\ T.active = activeWorkers
        /\ T.exclusive = exclusiveRunning /\ T.worker = worker' /\ T.pages = orchestrators
    BY <1>1, <1>3 DEF Now
  <1>6. ASSUME NEW p \in Projects, NEW K, NEW L, Fine(worker[p], K),
               L.p = K.p, L.r = K.r, L.active = K.active, L.waits => K.waits, L.d = K.d, L.c
        PROVE  Fine(worker'[p], L)
    <2>1. Fine(worker[p], L) /\ Fine([worker[p] EXCEPT !.queue = <<>>], L) BY <1>6, CancelKeeps
    <2>2. worker'[p] = worker[p] \/ worker'[p] = [worker[p] EXCEPT !.queue = <<>>] BY <1>1
    <2> QED BY <2>1, <2>2
  <1>7. AllFine(T, run, done, TRUE)
    <2> SUFFICES ASSUME NEW p \in Projects PROVE Fine(worker'[p], ContextOf(T, p, run, done, TRUE))
      BY <1>5 DEF AllFine
    <2>1. PICK K, L : K = ContextOf(S, p, run, done, cancelled) /\ L = ContextOf(T, p, run, done, TRUE) OBVIOUS
    <2>2. Fine(worker[p], K) BY <1>3, <2>1, PoolIs
    <2>3. K.p = p /\ K.r = run /\ K.d = done /\ L.p = p /\ L.r = run /\ L.d = done /\ L.c = TRUE
      BY <2>1 DEF ContextOf
    <2>4. L.active = K.active BY <2>1, <1>4, <1>5 DEF ContextOf
    <2>5. ~L.waits BY <2>1, <1>5, NothingInEmpty DEF ContextOf
    <2>6. Fine(worker'[p], L) BY <2>2, <2>3, <2>4, <2>5, <1>6
    <2> QED BY <2>1, <2>6
  <1>8. PoolOK(T, m, run, done, TRUE)
    <2>1. worker' \in [Projects -> BrowserWorker]
      <3>1. \A p \in Projects : worker'[p] \in BrowserWorker BY <1>5, <1>7 DEF AllFine, Fine, Base
      <3>2. PICK g : g = worker' OBVIOUS
      <3>3. g = [p \in Projects |-> g[p]] BY <1>1, <3>2
      <3> QED BY <3>1, <3>2, <3>3
    <2>2. <<>> \in Seq(Projects) OBVIOUS
    <2>3. T = [queue |-> <<>>, workers |-> workers, active |-> activeWorkers,
               exclusive |-> exclusiveRunning, worker |-> worker', pages |-> orchestrators]
      BY <1>1, <1>3 DEF Now
    <2>4. T \in PoolType BY <2>1, <2>2, <2>3, PoolIs DEF PoolType
    <2>5. InOrder(S) /\ Slots(S, m) BY <1>2, <1>3, PoolIs
    <2>6. InOrder(T) BY <2>5, <1>4, <1>5, NothingInEmpty DEF InOrder
    <2>7. Slots(T, m) BY <2>5, <1>4, <1>5 DEF Slots
    <2> QED BY <2>4, <2>6, <2>7, <1>7 DEF PoolOK
  <1>9. PoolOK(T, m, run', done', cancelled') BY <1>1, <1>8
  <1>10. stage' = stage \/ (stage' = "idle" /\ stage = "running"
                            /\ \A p \in Projects : result'[p] # "pending")
    BY <1>1 DEF StageAfter
  <1>11. Typed'
    <2>1. result' \in [Projects -> {"none", "pending", "ok", "error"}] BY <1>1 DEF BrowserIInv, Typed
    <2> QED BY <2>1, <1>1, <1>10 DEF BrowserIInv, Typed
  <1>12. Results'
    <2>1. ToSet(queue) \cap ToSet(activeWorkers) = {} BY PoolIs, NowIs DEF InOrder
    <2>2. \A p \in Projects : result'[p] = "pending" <=> p \in ToSet(activeWorkers)
      BY <1>1, <2>1 DEF BrowserIInv, Results
    <2>3. ToSet(activeWorkers) \subseteq Projects /\ (activeWorkers # <<>> => ToSet(activeWorkers) # {})
      BY PoolIs, ToSetIn
    <2>4. stage' # "running" => activeWorkers = <<>>
      <3>1. CASE stage' = stage BY <3>1 DEF BrowserIInv, Results
      <3>2. CASE \A p \in Projects : result'[p] # "pending" BY <3>2, <2>2, <2>3
      <3> QED BY <3>1, <3>2, <1>10
    <2>5. run # 0 BY <1>1 DEF BrowserIInv, Results
    <2>6. \A p \in Projects : result'[p] = "pending" <=> p \in ToSet(queue') \cup ToSet(activeWorkers')
      BY <2>2, <1>1, NothingInEmpty
    <2> QED BY <2>4, <2>5, <2>6, <1>1 DEF Results
  <1>13. ASSUME stage' = "preparing", NEW p \in Projects PROVE Fine(worker'[p], Waiting(p)')
    <2>1. PICK K, L : K = Waiting(p) /\ L = Waiting(p)' OBVIOUS
    <2>2. Fine(worker[p], K) BY <2>1, <1>10, <1>13 DEF BrowserIInv, Prepared
    <2>3. L.p = K.p /\ L.r = K.r /\ L.active = K.active /\ (L.waits => K.waits) /\ L.d = K.d /\ L.c
      BY <2>1, <1>1 DEF Waiting
    <2>4. Fine(worker'[p], L) BY <2>2, <2>3, <1>6
    <2> QED BY <2>1, <2>4
  <1>14. Prepared' BY <1>13 DEF Prepared
  <1> QED BY <1>2, <1>3, <1>9, <1>11, <1>12, <1>14 DEF BrowserIInv

\* The provider of p is up.
LEMMA ProviderReadyStep ==
  ASSUME BrowserIInv, NEW p \in Projects, ProviderReady(p) PROVE BrowserIInv'
  <1>1. worker[p].call = "init" /\ UNCHANGED <<control, pool, orchestrators, done>>
    BY DEF ProviderReady
  <1>2. PICK w, pages : w = worker[p] /\ pages = orchestrators OBVIOUS
  <1>3. worker \in [Projects -> BrowserWorker] /\ orchestrators' \in SUBSET Pages BY <1>1, PoolIs
  <1>4. PICK C : C = ContextOf(Now, p, run, done, cancelled) OBVIOUS
  <1>5. Fine(w, C) BY <1>2, <1>4, PoolIs
  <1>6. CASE w.queue = <<>>
    <2>1. PICK v : v = Ends(w) OBVIOUS
    <2>2. worker' = [worker EXCEPT ![p].promise = FALSE, ![p].call = "running",
                                   ![p].outcome = IF @ = "pending" THEN "ok" ELSE @]
      BY <1>2, <1>6 DEF ProviderReady
    <2>3. worker' = [worker EXCEPT ![p] = v]
      BY <2>1, <2>2, <1>2, <1>3 DEF Ends, BrowserWorker
    <2>4. \A K : Fine(w, K) => Fine(v, K) BY <1>1, <1>2, <1>6, <2>1, EndsKeeps
    <2> QED BY <1>1, <1>2, <1>3, <2>3, <2>4, PageStep
  <1>7. CASE w.queue # <<>>
    <2>1. PICK u : u = Starts(w, pages) OBVIOUS
    <2>2. PICK ws : ws = [worker EXCEPT ![p] = u] OBVIOUS
    <2>3. worker' = OpenPages(p, ws, activeWorkers, pages, FALSE)
      BY <1>2, <1>7, <2>1, <2>2 DEF ProviderReady, Starts
    <2>4. \A K : Fine(w, K) => Fine(u, K) /\ u.started BY <1>1, <1>2, <2>1, StartsKeeps
    <2>5. u \in BrowserWorker /\ u.started BY <2>4, <1>5 DEF Fine, Base
    <2>6. ws \in [Projects -> BrowserWorker] /\ ws[p] = u BY <2>2, <2>5, <1>3
    <2>7. PICK v : v = worker'[p] OBVIOUS
    <2>8. ASSUME NEW K, Fine(w, K)
          PROVE  worker' = [worker EXCEPT ![p] = v] /\ Fine(v, K)
      <3>1. Fine(ws[p], K) /\ ws[p].started BY <2>4, <2>5, <2>6, <2>8
      <3>2. Replaces(worker', ws, p, K) BY <3>1, <2>3, <2>6, OpenKeeps
      <3>3. PICK x \in BrowserWorker : worker' = [ws EXCEPT ![p] = x] /\ Fine(x, K) BY <3>2 DEF Replaces
      <3>4. x = v BY <2>6, <2>7, <3>3
      <3>5. [ws EXCEPT ![p] = v] = [worker EXCEPT ![p] = v] BY <2>2, <1>3
      <3> QED BY <3>3, <3>4, <3>5
    <2>9. worker' = [worker EXCEPT ![p] = v] BY <2>8, <1>5
    <2>10. \A K : Fine(w, K) => Fine(v, K) BY <2>8
    <2> QED BY <1>1, <1>2, <1>3, <2>9, <2>10, PageStep
  <1> QED BY <1>6, <1>7

\* A call is over: its slot goes to the next task, and the others grow.
LEMMA RunOverStep ==
  ASSUME BrowserIInv, NEW p \in Projects, RunOver(p) PROVE BrowserIInv'
  <1>1. PICK w : w = worker[p] OBVIOUS
  <1>2. w.call = "running" /\ w.outcome # "pending" BY <1>1 DEF RunOver, CallIsOver
  <1>3. /\ UNCHANGED <<run, cancelled, done>> /\ stage' = StageAfter(result')
        /\ result' = [result EXCEPT ![p] = w.outcome]
    BY <1>1 DEF RunOver
  <1>4. PICK m : m = maxWorkers /\ m = maxWorkers' BY <1>3, ParametersStay
  <1>5. PICK N : N = Now OBVIOUS
  <1>6. /\ N.queue = queue /\ N.workers = workers /\ N.active = activeWorkers
        /\ N.exclusive = exclusiveRunning /\ N.worker = worker
    BY <1>5, NowIs
  <1>7. InOrder(N) /\ Slots(N, m) BY <1>4, <1>5, PoolIs
  <1>8. PICK K : K = ContextOf(N, p, run, done, cancelled) OBVIOUS
  <1>9. Fine(w, K) /\ w \in BrowserWorker BY <1>1, <1>5, <1>8, PoolIs
  <1>10. K.active /\ K.p = p /\ K.r = run /\ K.d = done /\ K.c = cancelled
         /\ (K.active <=> p \in ToSet(activeWorkers)) /\ (K.waits <=> p \in ToSet(queue))
    <2>1. InCall(w, K.active) BY <1>9 DEF Fine, Base
    <2>2. K.active BY <2>1, <1>2 DEF InCall
    <2> QED BY <2>2, <1>6, <1>8, ContextIs
  <1>11. p \in ToSet(activeWorkers) /\ p \in ToSet(workers) /\ p \notin ToSet(queue)
    BY <1>6, <1>7, <1>10 DEF InOrder
  <1>12. PICK i : i = CHOOSE j \in DOMAIN activeWorkers : activeWorkers[j] = p OBVIOUS
  <1>13. i \in 1 .. Len(activeWorkers) /\ activeWorkers[i] = p
    <2>1. \E j \in DOMAIN activeWorkers : activeWorkers[j] = p
      BY <1>11 DEF ToSet
    <2>2. DOMAIN activeWorkers = 1 .. Len(activeWorkers) BY PoolIs
    <2> QED BY <1>12, <2>1, <2>2
  <1>14. PICK as : as = RemoveAt(activeWorkers, i) OBVIOUS
  <1>15. as = Without(activeWorkers, p) BY <1>12, <1>14 DEF Without
  <1>16. /\ as \in Seq(Projects) /\ IsInjective(as) /\ ToSet(as) = ToSet(activeWorkers) \ {p}
         /\ Len(as) = Len(activeWorkers) - 1
    BY <1>6, <1>7, <1>13, <1>14, PoolIs, RemoveIs DEF InOrder
  <1>17. PICK k : k = CHOOSE j \in DOMAIN workers : workers[j] = p OBVIOUS
  <1>18. k \in 1 .. Len(workers) /\ workers[k] = p
    <2>1. \E j \in DOMAIN workers : workers[j] = p BY <1>11 DEF ToSet
    <2>2. DOMAIN workers = 1 .. Len(workers) BY PoolIs
    <2> QED BY <1>17, <2>1, <2>2
  <1>19. PICK others : others = RemoveAt(workers, k) OBVIOUS
  <1>20. others = Without(workers, p) BY <1>17, <1>19 DEF Without
  <1>21. others \in Seq(Projects) /\ IsInjective(others) /\ ToSet(others) = ToSet(workers) \ {p}
    BY <1>6, <1>7, <1>18, <1>19, PoolIs, RemoveIs DEF InOrder
  <1>22. PICK ws : ws = Append(others, p) OBVIOUS
  <1>23. ws \in Seq(Projects) /\ IsInjective(ws) /\ ToSet(ws) = ToSet(workers)
    <2>1. /\ Append(others, p) \in Seq(Projects) /\ ToSet(Append(others, p)) = ToSet(others) \cup {p}
          /\ IsInjective(others) /\ p \notin ToSet(others) => IsInjective(Append(others, p))
      BY <1>21, AppendIs
    <2> QED BY <2>1, <1>11, <1>21, <1>22
  <1>24. PICK u : u = [w EXCEPT !.call = "none"] OBVIOUS
  <1>25. PICK xs : xs = [worker EXCEPT ![p] = u] OBVIOUS
  <1>26. xs = [worker EXCEPT ![p].call = "none"]
    BY <1>1, <1>24, <1>25
  <1>27. PICK S : S = [queue |-> queue, workers |-> ws, active |-> as, exclusive |-> FALSE,
                       worker |-> xs, pages |-> orchestrators]
    OBVIOUS
  <1>28. /\ S.queue = queue /\ S.workers = ws /\ S.active = as /\ S.exclusive = FALSE
         /\ S.worker = xs /\ S.pages = orchestrators
    BY <1>27
  <1>29. PICK L : L = ContextOf(S, p, run, done, cancelled) OBVIOUS
  <1>30. L.p = p /\ L.r = run /\ L.d = done /\ L.c = cancelled /\ ~L.active /\ ~L.waits
    <2>1. p \notin ToSet(S.active) /\ p \notin ToSet(S.queue) BY <1>11, <1>16, <1>28
    <2> QED BY <2>1, <1>29, ContextIs
  <1>31. Fine(u, L) /\ (p \in Isolated /\ ~cancelled /\ w.outcome = "ok" => Mine(run, p) \subseteq done)
    BY <1>2, <1>9, <1>10, <1>24, <1>30, OverKeeps
  <1>32. worker \in [Projects -> BrowserWorker] BY PoolIs
  <1>33. xs[p] = u /\ \A q \in Projects : q # p => xs[q] = worker[q] BY <1>25, <1>32
  <1>34. \A q \in Projects : Fine(xs[q], ContextOf(S, q, run, done, cancelled))
    <2> TAKE q \in Projects
    <2>1. CASE q = p BY <2>1, <1>29, <1>31, <1>33
    <2>2. CASE q # p
      <3>1. (q \in ToSet(S.active)) = (q \in ToSet(N.active))
        <4>1. PICK A : A = ToSet(N.active) OBVIOUS
        <4>2. ToSet(S.active) = A \ {p} BY <4>1, <1>6, <1>16, <1>28
        <4>3. (q \in A \ {p}) = (q \in A) BY <2>2
        <4> QED BY <4>1, <4>2, <4>3
      <3>2. S.queue = N.queue BY <1>6, <1>28
      <3>3. ContextOf(S, q, run, done, cancelled) = ContextOf(N, q, run, done, cancelled)
        BY <3>1, <3>2 DEF ContextOf
      <3>4. Fine(worker[q], ContextOf(N, q, run, done, cancelled)) BY <1>5, PoolIs
      <3> QED BY <3>3, <3>4, <2>2, <1>33
    <2> QED BY <2>1, <2>2
  <1>35. PoolOK(S, maxWorkers, run, done, cancelled)
    <2>1. xs \in [Projects -> BrowserWorker]
      <3>1. \A q \in Projects : xs[q] \in BrowserWorker BY <1>34 DEF Fine, Base
      <3> QED BY <3>1, <1>25, <1>32
    <2>2. S \in PoolType BY <2>1, <1>16, <1>23, <1>27, PoolIs DEF PoolType
    <2>3. InOrder(S) BY <1>6, <1>7, <1>16, <1>23, <1>28 DEF InOrder
    <2>4. Slots(S, m)
      <3>1. \A q \in Exclusive : q \notin ToSet(as)
        BY <1>6, <1>7, <1>11, <1>16 DEF Slots
      <3>2. S.exclusive <=> \E q \in Exclusive : q \in ToSet(S.active) BY <3>1, <1>28
      <3>3. \A q \in Exclusive : q \in ToSet(S.active) => ToSet(S.active) = {q} BY <3>1, <1>28
      <3>4. activeWorkers # <<>> BY <1>11, NothingInEmpty
      <3>5. Len(activeWorkers) <= m /\ Cardinality(ToSet(workers) \cap Headless) <= m
        BY <3>4, <1>6, <1>7 DEF Slots
      <3>6. Len(S.active) <= m
        <4>1. PICK b \in Nat : b = Len(activeWorkers) BY PoolIs
        <4>2. PICK h \in Nat : h = m BY <1>4, BrowserAssumption DEF maxWorkers, BrowserIInv, Typed
        <4>3. b <= h /\ Len(S.active) = b - 1 BY <3>5, <4>1, <4>2, <1>16, <1>28
        <4>4. b - 1 <= h BY ONLY <4>3, b \in Nat, h \in Nat
        <4> QED BY <4>2, <4>3, <4>4
      <3>7. Cardinality(ToSet(S.workers) \cap Headless) <= m BY <3>5, <1>23, <1>28
      <3> QED BY <3>2, <3>3, <3>6, <3>7 DEF Slots
    <2>5. AllFine(S, run, done, cancelled) BY <1>28, <1>34 DEF AllFine
    <2> QED BY <2>2, <2>3, <2>4, <2>5, <1>4 DEF PoolOK
  <1>36. stage = "running" /\ run \in 1 .. Len(Runs)
    <2>1. activeWorkers # <<>> BY <1>11, NothingInEmpty
    <2>2. stage = "running" BY <2>1 DEF BrowserIInv, Results
    <2>3. run # 0 BY <2>2 DEF BrowserIInv, Results
    <2>4. run \in 0 .. Len(Runs) /\ Len(Runs) \in Nat BY BrowserAssumption DEF BrowserIInv, Typed
    <2> QED BY <2>2, <2>3, <2>4
  <1>37. PICK T : T = Schedule(S) OBVIOUS
  <1>38. Follows(T, S, done, cancelled) BY <1>35, <1>36, <1>37, ScheduleKeeps
  <1>39. PoolOK(T, maxWorkers, run, done, cancelled)
         /\ ToSet(T.queue) \cup ToSet(T.active) = ToSet(queue) \cup (ToSet(activeWorkers) \ {p})
    BY <1>38, <1>16, <1>28 DEF Follows
  <1>40. PICK ys : ys = Grown(T) OBVIOUS
  <1>41. WorkersOK(ys, T, done, cancelled) BY <1>39, <1>40, GrownKeeps
  <1>42. PICK U : U = [T EXCEPT !.worker = ys] OBVIOUS
  <1>43. Becomes(U)
    BY <1>15, <1>20, <1>22, <1>26, <1>27, <1>37, <1>40, <1>42 DEF RunOver
  <1>44. T \in PoolType BY <1>39 DEF PoolOK
  <1>45. U \in PoolType BY <1>41, <1>42, <1>44 DEF PoolType, WorkersOK
  <1>46. /\ U.queue = T.queue /\ U.workers = T.workers /\ U.active = T.active
         /\ U.exclusive = T.exclusive /\ U.worker = ys
    BY <1>42, <1>44 DEF PoolType
  <1>47. PoolOK(U, m, run, done, cancelled)
    <2>1. PoolOK(T, m, run, done, cancelled) BY <1>4, <1>39
    <2>2. \A q \in Projects : Fine(U.worker[q], ContextOf(T, q, run, done, cancelled))
      BY <1>41, <1>46 DEF WorkersOK
    <2> QED BY <2>1, <2>2, <1>45, <1>46, WorkersChange
  <1>48. PoolOK(U, m, run', done', cancelled') BY <1>3, <1>47
  <1>49. Now' = U BY <1>43, <1>45, BecomesNow
  <1>50. queue' = T.queue /\ activeWorkers' = T.active BY <1>43, <1>46 DEF Becomes
  <1>51. w.outcome \in {"ok", "error"} BY <1>2, <1>9 DEF BrowserWorker
  <1>52. result \in [Projects -> {"none", "pending", "ok", "error"}] BY DEF BrowserIInv, Typed
  <1>53. result'[p] = w.outcome /\ \A q \in Projects : q # p => result'[q] = result[q]
    BY <1>3, <1>52
  <1>54. stage' = "running" \/ (stage' = "idle" /\ \A q \in Projects : result'[q] # "pending")
    BY <1>3, <1>36 DEF StageAfter
  <1>55. Typed'
    <2>1. result' \in [Projects -> {"none", "pending", "ok", "error"}] BY <1>3, <1>51, <1>52
    <2> QED BY <2>1, <1>3, <1>54 DEF BrowserIInv, Typed
  <1>56. Results'
    <2>1. \A q \in Projects : result'[q] = "pending" <=> q \in ToSet(queue') \cup ToSet(activeWorkers')
      <3> TAKE q \in Projects
      <3>1. result[q] = "pending" <=> q \in ToSet(queue) \cup ToSet(activeWorkers) BY DEF BrowserIInv, Results
      <3>2. ToSet(queue') \cup ToSet(activeWorkers') = ToSet(queue) \cup (ToSet(activeWorkers) \ {p})
        BY <1>39, <1>50
      <3>3. CASE q = p BY <3>2, <3>3, <1>11, <1>51, <1>53
      <3>4. CASE q # p BY <3>1, <3>2, <3>4, <1>53
      <3> QED BY <3>3, <3>4
    <2>2. stage' # "running" => queue' = <<>> /\ activeWorkers' = <<>>
      <3> HAVE stage' # "running"
      <3>1. T.queue \in Seq(Projects) /\ T.active \in Seq(Projects) BY <1>44 DEF PoolType
      <3>2. \A q \in Projects : q \notin ToSet(T.queue) /\ q \notin ToSet(T.active)
        BY <2>1, <1>50, <1>54
      <3>3. ToSet(T.queue) = {} /\ ToSet(T.active) = {} BY <3>1, <3>2, ToSetIn
      <3>4. T.queue = <<>> /\ T.active = <<>> BY <3>1, <3>3, ToSetIn
      <3> QED BY <3>4, <1>50
    <2>3. \A q \in Isolated : result'[q] = "ok" /\ ~cancelled' => Mine(run', q) \subseteq done'
      <3> TAKE q \in Isolated
      <3>1. q \in Projects BY BrowserAssumption
      <3>2. CASE q = p BY <3>2, <1>3, <1>31, <1>53
      <3>3. CASE q # p BY <3>1, <3>3, <1>3, <1>53 DEF BrowserIInv, Results
      <3> QED BY <3>2, <3>3
    <2>4. run' # 0 BY <1>3, <1>36
    <2> QED BY <2>1, <2>2, <2>3, <2>4 DEF Results
  <1>57. Prepared' BY <1>54 DEF Prepared
  <1> QED BY <1>4, <1>48, <1>49, <1>55, <1>56, <1>57 DEF BrowserIInv

\* Every step keeps the invariant.
LEMMA BrowserNextIInv ==
  ASSUME BrowserIInv, [BrowserNext]_browserVars PROVE BrowserIInv'
  <1>1. CASE Prepare BY <1>1, PrepareStep
  <1>2. CASE Enqueue BY <1>2, EnqueueStep
  <1>3. CASE Cancel BY <1>3, CancelStep
  <1>4. ASSUME NEW p \in Projects, ProviderReady(p) PROVE BrowserIInv' BY <1>4, ProviderReadyStep
  <1>5. ASSUME NEW p \in Projects, RunOver(p) PROVE BrowserIInv' BY <1>5, RunOverStep
  <1>6. ASSUME NEW p \in Projects, NEW s \in Pages,
               \/ Opened(p, s) \/ OpenFails(p, s) \/ FileRan(p, s) \/ FileFails(p, s)
               \/ TesterFails(p, s) \/ LateAnswer(p, s) \/ Cleaned(p, s) \/ PageCloses(p, s)
        PROVE  BrowserIInv'
    BY <1>6, OpenedStep, OpenFailsStep, FileRanStep, FileFailsStep, TesterFailsStep,
       CleanedStep, PageClosesStep
  <1>7. CASE UNCHANGED browserVars
    <2>1. UNCHANGED <<run, stage, cancelled, result, queue, workers, activeWorkers,
                      exclusiveRunning, worker, orchestrators, done>>
      BY <1>7 DEF browserVars
    <2>2. PICK S : S = Now /\ S = Now' BY <2>1 DEF Now
    <2>3. PICK m : m = maxWorkers /\ m = maxWorkers' BY <2>1, ParametersStay
    <2>4. PoolOK(S, m, run', done', cancelled') BY <2>1, <2>2, <2>3 DEF BrowserIInv
    <2>5. Typed' /\ Results' BY <2>1 DEF BrowserIInv, Typed, Results
    <2>6. Prepared'
      <3> SUFFICES ASSUME stage = "preparing", NEW p \in Projects PROVE Fine(worker'[p], Waiting(p)')
        BY <2>1 DEF Prepared
      <3>1. PICK K : K = Waiting(p) /\ K = Waiting(p)' BY <2>1 DEF Waiting
      <3> QED BY <3>1, <2>1 DEF BrowserIInv, Prepared
    <2> QED BY <2>2, <2>3, <2>4, <2>5, <2>6 DEF BrowserIInv
  <1> QED BY <1>1, <1>2, <1>3, <1>4, <1>5, <1>6, <1>7 DEF BrowserNext

\* The invariant holds in every state.
LEMMA Always == BrowserSpec => []BrowserIInv
  <1>1. BrowserInit => BrowserIInv BY BrowserInitIInv
  <1>2. BrowserIInv /\ [BrowserNext]_browserVars => BrowserIInv' BY BrowserNextIInv
  <1> QED BY <1>1, <1>2, PTL DEF BrowserSpec

(***************************************************************************)
(* What follows                                                            *)
(***************************************************************************)
\* The pool and its workers keep their types.
THEOREM BrowserTypes == BrowserSpec => []BrowserTypeOK
  <1>1. BrowserIInv => BrowserTypeOK
    <2> SUFFICES ASSUME BrowserIInv PROVE BrowserTypeOK OBVIOUS
    <2>1. Typed BY DEF BrowserIInv
    <2>2. /\ ToSet(queue) \subseteq Projects /\ ToSet(workers) \subseteq Projects
          /\ orchestrators \subseteq Pages /\ exclusiveRunning \in BOOLEAN
      BY PoolIs, ToSetIn
    <2>3. /\ IsInjective(queue) /\ IsInjective(workers) /\ IsInjective(activeWorkers)
          /\ ToSet(activeWorkers) \subseteq ToSet(workers)
      BY PoolIs, NowIs DEF InOrder
    <2>4. ASSUME NEW p \in Projects
          PROVE  /\ ToSet(worker[p].queue) \subseteq AllFiles
                 /\ worker[p].call \in {"none", "init", "running"}
                 /\ worker[p].outcome \in {"pending", "ok", "error"}
                 /\ \A pages \in {worker[p].sessions, worker[p].busy, worker[p].opening,
                                  worker[p].ready, worker[p].cleaning, worker[p].own} :
                         pages \subseteq Pages
                 /\ \A s \in Pages : worker[p].file[s] \in AllFiles \cup {None}
      <3>1. PICK w \in BrowserWorker : w = worker[p] BY WorkerIs
      <3>2. ToSet(w.queue) \subseteq AllFiles
        <4>1. w.queue \in Seq(AllFiles) BY DEF BrowserWorker
        <4> QED BY <4>1, ToSetIn
      <3> QED BY <3>1, <3>2 DEF BrowserWorker
    <2> QED BY <2>1, <2>2, <2>3, <2>4 DEF BrowserTypeOK, Typed
  <1> QED BY <1>1, Always, PTL

\* What a worker with busy pages tells.
LEMMA BusyIs ==
  ASSUME BrowserIInv, NEW p \in Projects, worker[p].busy # {}
  PROVE  p \in ToSet(activeWorkers)
  <1>1. PICK K : K = ContextOf(Now, p, run, done, cancelled) OBVIOUS
  <1>2. InCall(worker[p], K.active) BY <1>1, WorkerIs DEF Fine, Base
  <1>3. K.active BY <1>2 DEF InCall
  <1> QED BY <1>1, <1>3, NowIs, ContextIs

\* An exclusive project runs its files alone, and there are no more slots and no
\* more headless browsers than maxWorkers while any project has a slot: what
\* evictIdleWorker closes is enough, whatever the runs before asked for.
THEOREM BrowserBounded == BrowserSpec => []BrowsersBounded
  <1>1. BrowserIInv => BrowsersBounded
    <2> SUFFICES ASSUME BrowserIInv PROVE BrowsersBounded OBVIOUS
    <2>1. Slots(Now, maxWorkers) BY PoolIs
    <2>2. ASSUME NEW p \in Exclusive, NEW q \in Projects \ {p}, worker[p].busy # {}
          PROVE  worker[q].busy = {} /\ q \notin ToSet(activeWorkers)
      <3>1. p \in Projects BY BrowserAssumption
      <3>2. p \in ToSet(activeWorkers) BY <2>2, <3>1, BusyIs
      <3>3. ToSet(activeWorkers) = {p} BY <2>1, <3>2, NowIs DEF Slots
      <3> QED BY <3>3, BusyIs
    <2>3. activeWorkers # <<>> => /\ Len(activeWorkers) <= maxWorkers
                                  /\ Cardinality(ToSet(workers) \cap Headless) <= maxWorkers
      BY <2>1, NowIs DEF Slots
    <2> QED BY <2>2, <2>3 DEF BrowsersBounded
  <1> QED BY <1>1, Always, PTL

\* What the invariant says of a result.
LEMMA IsolatedRanAll ==
  ASSUME BrowserIInv, NEW p \in Isolated PROVE RanAll(p)
  <1> SUFFICES ASSUME result[p] = "ok", ~cancelled PROVE FilesOf(run, p) \subseteq done BY DEF RanAll
  <1>1. p \in Projects BY BrowserAssumption
  <1>2. run # 0 BY <1>1 DEF BrowserIInv, Results
  <1>3. run \in 1 .. Len(Runs)
    <2>1. run \in 0 .. Len(Runs) /\ Len(Runs) \in Nat BY BrowserAssumption DEF BrowserIInv, Typed
    <2> QED BY <1>2, <2>1
  <1>4. Mine(run, p) = FilesOf(run, p) BY <1>1, <1>3, MineIs
  <1>5. Mine(run, p) \subseteq done BY DEF BrowserIInv, Results
  <1> QED BY <1>4, <1>5

\* What it says of a page.
LEMMA IsolatedRunsNoOther ==
  ASSUME BrowserIInv, NEW p \in Isolated PROVE RunsNoOther(p)
  <1>1. p \in Projects BY BrowserAssumption
  <1> SUFFICES ASSUME NEW s \in Pages, s \in worker[p].busy, worker[p].file[s] # None
               PROVE  /\ worker[p].file[s] \in FilesOf(run, p) \ done
                      /\ result[p] = "pending"
                      /\ \A t \in Pages \ {s} : worker[p].file[t] # worker[p].file[s]
    BY DEF RunsNoOther
  <1>2. p \in ToSet(activeWorkers) BY <1>1, BusyIs
  <1>3. result[p] = "pending" BY <1>1, <1>2 DEF BrowserIInv, Results
  <1>4. PICK K : K = ContextOf(Now, p, run, done, cancelled) OBVIOUS
  <1>5. K.p = p /\ K.r = run /\ K.d = done BY <1>4, ContextIs
  <1>6. InOnePlace(worker[p], Mine(run, p), K.waits, done)
    BY <1>1, <1>4, <1>5, WorkerIs DEF Fine, Base
  <1>7. worker[p].file[s] \in Mine(run, p) \ done BY <1>6 DEF InOnePlace
  <1>8. \A t \in Pages \ {s} : worker[p].file[t] # worker[p].file[s] BY <1>6 DEF InOnePlace
  <1> QED BY <1>3, <1>7, <1>8 DEF Mine

\* A project with isolation whose task ended well, in a run nobody cancelled, ran
\* all of its files, whatever the instances beside it do.
THEOREM BrowserIsolatedRanAll == BrowserSpec => [](\A p \in Isolated : RanAll(p))
  <1>1. BrowserIInv => \A p \in Isolated : RanAll(p) BY IsolatedRanAll
  <1> QED BY <1>1, Always, PTL

\* So it is for every project, when all of them are isolated (the default).
THEOREM BrowserGoodRun == Isolated = Projects => (BrowserSpec => []GoodRunRanAll)
  <1> SUFFICES ASSUME Isolated = Projects PROVE BrowserSpec => []GoodRunRanAll OBVIOUS
  <1>1. BrowserIInv => GoodRunRanAll BY IsolatedRanAll DEF GoodRunRanAll
  <1> QED BY <1>1, Always, PTL

\* The pages of a project with isolation run files of the run under way, each in
\* one page and none again, and only while its task is pending.
THEOREM BrowserIsolatedFiles == BrowserSpec => [](\A p \in Isolated : RunsNoOther(p))
  <1>1. BrowserIInv => \A p \in Isolated : RunsNoOther(p) BY IsolatedRunsNoOther
  <1> QED BY <1>1, Always, PTL

\* And those of every project, when all of them are isolated.
THEOREM BrowserFilesOfThisRun == Isolated = Projects => (BrowserSpec => []FilesOfThisRun)
  <1> SUFFICES ASSUME Isolated = Projects PROVE BrowserSpec => []FilesOfThisRun OBVIOUS
  <1>1. BrowserIInv => FilesOfThisRun BY IsolatedRunsNoOther DEF FilesOfThisRun
  <1> QED BY <1>1, Always, PTL
=============================================================================
