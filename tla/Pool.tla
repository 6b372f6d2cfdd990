-------------------------------- MODULE Pool --------------------------------
(***************************************************************************)
(* The scheduler of test files: class Pool of                              *)
(* packages/vitest/src/node/pools/pool.ts, driven by executeTests of       *)
(* packages/vitest/src/node/pool.ts (groups of tasks, one after another)   *)
(* and by cancelCurrentRun and close of packages/vitest/src/node/core.ts.  *)
(*                                                                         *)
(* All of it runs on one JavaScript thread.  An action is one synchronous  *)
(* stretch of code, from an event or a resumed `await` to the next         *)
(* `await`, with the schedule() call it ends in.  Resumed awaits           *)
(* (microtasks) run before any other event: the events (messages and exits *)
(* of workers, timers, key presses) have Quiescent as a guard.  Microtasks *)
(* that are runnable together are taken in every order.                    *)
(*                                                                         *)
(* A task is one call of run(); a runner bears the name of the task it was *)
(* created for.  A runner is seen here as its pool sees it: PoolRunner     *)
(* models what happens inside.                                             *)
(***************************************************************************)
EXTENDS Integers, Sequences, FiniteSets, FiniteSetsExt

CONSTANTS
  Tasks,       \* the PoolTasks of all runs
  Plan,        \* the groups in order: [run |-> number, max |-> maxWorkers, tasks |-> sequence]
  Isolated,    \* the tasks of projects with isolate: true
  Key,         \* isEqualRunner: a runner fits the tasks with the key of its first task
  SlowStart,   \* tasks of a custom pool whose worker.start() may take longer than 90 s
  CanExit,     \* runners whose process may die by itself
  CanHang,     \* runners whose worker may leave the request to stop without an answer
  CanBreak,    \* runners whose channel may break (EPIPE) while the process lives
  Cancels,     \* the calls of cancel() to be made: numbers, each made once
  CancelledBy, \* who calls cancelCurrentRun: "user", with a key, or "bail", a worker
  NoTask

Groups == 1..Len(Plan)
InGroup(g) == {Plan[g].tasks[i] : i \in DOMAIN Plan[g].tasks}
GroupOf(t) == CHOOSE g \in Groups : t \in InGroup(g)

ASSUME PlanAssumption ==
  /\ Plan \in Seq([run : Nat, max : Nat \ {0}, tasks : Seq(Tasks)])
  /\ \A t \in Tasks : \E g \in Groups : t \in InGroup(g)
  /\ \A g, h \in Groups : g # h => InGroup(g) \cap InGroup(h) = {}
  /\ \A g \in Groups : \A i, j \in DOMAIN Plan[g].tasks :
       Plan[g].tasks[i] = Plan[g].tasks[j] => i = j
  /\ NoTask \notin Tasks /\ IsFiniteSet(Tasks)
ASSUME CancelsAssumption == Cancels \subseteq Nat \ {0} /\ CancelledBy \subseteq {"user", "bail"}
\* groupSpecs puts the specifications of one project and one worker type in one
\* group of a run, and isEqualRunner asks for the same project and worker type.
\* Tasks of different runs may have equal keys: a watcher runs a file again.
SharesWith(t, u) == t \notin Isolated /\ u \notin Isolated /\ Key[t] = Key[u]
ASSUME KeyAssumption ==
  \A g, h \in Groups : \A t \in InGroup(g), u \in InGroup(h) :
    Plan[g].run = Plan[h].run /\ SharesWith(t, u) => g = h

\* No runner that starts late fits a task of a later run.  The pools of Vitest give up a
\* start after 60 s (START_TIMEOUT), before the 90 s of the pool have passed, so that with
\* them SlowStart = {}; a custom pool may start slowly, and PoolLateStart.cfg has one.
LateAreAlone ==
  \A g, h \in Groups : \A t \in InGroup(g) \cap SlowStart, u \in InGroup(h) :
    SharesWith(t, u) => g = h

VARIABLES
  group,          \* the group executeTests is in; 0 before the first run
  toSubmit,       \* what is left of its synchronous loop over the tasks
  queue, activeTasks, sharedRunners, exitPromises,
  freeIds,        \* the ids that are true in the current workerIds map
  isCancelling,   \* Pool._isCancelling
  ctxCancelling,  \* Vitest.isCancelling
  cancelPromise,  \* the cancel call Vitest.cancelPromise belongs to, or 0
  cancels,        \* where each cancel call is, its `force`, what it awaits, who made it,
                  \* the stop() of which shared runners it began
  pc,             \* where the schedule() of each task is
  resolver,       \* how the promise of run() was settled
  runnerOf,       \* the runner each task was given
  poolId,         \* PoolRunner.poolId of each runner
  mapOf,          \* the group whose workerIds map the task captured
  rstate,         \* PoolRunner._state of each runner
  link,           \* its process and channel
  stopWanted,     \* runners with a forced stop() that waits for the operation lock
  graceful        \* the runners that are stopped without `force`

poolVars == <<queue, activeTasks, sharedRunners, exitPromises, freeIds, isCancelling>>
ctxVars == <<group, toSubmit, ctxCancelling, cancelPromise, cancels>>
taskVars == <<pc, resolver, runnerOf, mapOf>>
runnerVars == <<poolId, rstate, link, stopWanted, graceful>>
vars == <<poolVars, ctxVars, taskVars, runnerVars>>

maxWorkers == IF group = 0 THEN 0 ELSE Plan[group].max
Ids == 1..maxWorkers

Settled(t) == resolver[t] # "pending"

\* "stopped": through stop(), which resolves _terminatePromise.  "crashed": through
\* emitUnexpectedExit, which does not.  Both are RunnerState.STOPPED.
IsTerminated(rs, r) == rs[r] \in {"stopped", "crashed"}

-----------------------------------------------------------------------------
\* Mutated forms of definitions below, for the properties to catch.

OneShortOfCapacity(active) == Cardinality(active) + 1 < maxWorkers
GroupQueued == queue = <<>>
FreedInCurrentMap(t) == freeIds \cup {poolId[runnerOf[t]]}
StopsOnlyFailed(s) == IF s = "failed" THEN "stopping" ELSE s
SharesWithoutQueue(t) ==
  t \notin Isolated /\ ~IsTerminated(rstate, runnerOf[t]) /\ resolver[t] # "memoryLimit"
StopsEvenStopped(s) == "stopping"
NothingAwaited(c) == TRUE
LeavesItPending(t) == resolver

-----------------------------------------------------------------------------
Init ==
  /\ group = 0 /\ toSubmit = <<>>
  /\ queue = <<>> /\ activeTasks = {} /\ sharedRunners = {} /\ exitPromises = {}
  /\ freeIds = {} /\ isCancelling = FALSE
  /\ ctxCancelling = FALSE /\ cancelPromise = 0
  /\ cancels = [c \in Cancels |-> [at |-> "idle", force |-> FALSE, awaits |-> {}, by |-> "none",
                              began |-> {}]]
  /\ pc = [t \in Tasks |-> "none"]
  /\ resolver = [t \in Tasks |-> "pending"]
  /\ runnerOf = [t \in Tasks |-> NoTask]
  /\ mapOf = [t \in Tasks |-> 0]
  /\ poolId = [r \in Tasks |-> 0]
  /\ rstate = [r \in Tasks |-> "idle"]
  /\ link = [r \in Tasks |-> "up"]
  /\ stopWanted = {} /\ graceful = {}

-----------------------------------------------------------------------------
\* When the event loop may go on.

\* The synchronous loop of executeTests over the tasks of a group is not under way.
LoopDone == toSubmit = <<>>

\* Promise.allSettled of the group: every run() promise is settled.
GroupSettled == group > 0 => \A t \in InGroup(group) : Settled(t)
SameRun(g) == group > 0 /\ Plan[g].run = Plan[group].run

HasNextGroup == group < Len(Plan) /\ GroupSettled /\ SameRun(group + 1)

\* The stop() calls a cancel awaits have returned.
StoppedAll(c) == \A r \in cancels[c].awaits : IsTerminated(rstate, r)

\* No await can resume: only then does the event loop take the next event.
Quiescent ==
  /\ LoopDone
  /\ ~HasNextGroup
  /\ \A t \in Tasks : pc[t] # "startSettled" /\ ~(pc[t] = "running" /\ Settled(t))
  /\ \A r \in stopWanted : rstate[r] = "starting"
  /\ \A c \in Cancels :
       /\ cancels[c].at = "tasks" =>
            cancels[c].awaits # {} /\ \A t \in cancels[c].awaits : rstate[runnerOf[t]] # "stopped"
       /\ cancels[c].at \in {"shared", "exits"} => ~StoppedAll(c)

-----------------------------------------------------------------------------
\* schedule(), its synchronous part, on the fields as the caller left them.

\* getPoolRunner: the shared runners that fit; none means a new runner.
Reusable(shared, t) == {r \in shared : t \notin Isolated /\ Key[r] = Key[t]}

\* `activeTasks.length < maxWorkers`
HasCapacity(active) == Cardinality(active) < maxWorkers

\* Task t gets runner r: a started one is sent the task at once, another is started.
Activate(t, r, id, active, shared, ids, rs, at) ==
  /\ activeTasks' = active \cup {t}
  /\ sharedRunners' = shared \ {r}
  /\ freeIds' = ids
  /\ runnerOf' = [runnerOf EXCEPT ![t] = r]
  /\ poolId' = [poolId EXCEPT ![r] = id]
  /\ mapOf' = [mapOf EXCEPT ![t] = group]
  /\ rstate' = [rs EXCEPT ![r] = IF @ = "started" THEN @ ELSE "starting"]
  /\ pc' = [at EXCEPT ![t] = IF rs[r] = "started" THEN "running" ELSE "starting"]

Schedule(q, active, shared, ids, rs, at) ==
  IF q = <<>> \/ ~HasCapacity(active)
    THEN /\ queue' = q /\ activeTasks' = active /\ sharedRunners' = shared
         /\ freeIds' = ids /\ rstate' = rs /\ pc' = at
         /\ UNCHANGED <<resolver, runnerOf, mapOf, poolId>>
    ELSE LET t == Head(q) IN
         /\ queue' = Tail(q)
         /\ \/ \E r \in Reusable(shared, t) :
                 /\ Activate(t, r, poolId[r], active, shared, ids, rs, at)
                 /\ UNCHANGED resolver
            \/ /\ Reusable(shared, t) = {} /\ ids # {}
               /\ Activate(t, t, Min(ids), active, shared, ids \ {Min(ids)}, rs, at)
               /\ UNCHANGED resolver
            \/ \* getConcurrencyId throws: the catch block rejects, nothing else is scheduled
               /\ Reusable(shared, t) = {} /\ ids = {}
               /\ activeTasks' = active /\ sharedRunners' = shared
               /\ freeIds' = ids /\ rstate' = rs
               /\ pc' = [at EXCEPT ![t] = "done"]
               /\ resolver' = [resolver EXCEPT ![t] = "rejected"]
               /\ UNCHANGED <<runnerOf, mapOf, poolId>>

-----------------------------------------------------------------------------
\* executeTests: the loop over the groups.

\* setMaxWorkers makes a new map of free ids, from 1.
NewIds(max) == 1..max

StartGroup ==
  /\ group' = group + 1
  /\ toSubmit' = Plan[group + 1].tasks
  /\ freeIds' = NewIds(Plan[group + 1].max)
  /\ UNCHANGED <<queue, activeTasks, sharedRunners, exitPromises, isCancelling,
                 cancelPromise, cancels, taskVars, runnerVars>>

NextGroup == LoopDone /\ HasNextGroup /\ StartGroup /\ UNCHANGED ctxCancelling

\* runFiles awaits cancelPromise and runningPromise, then resets isCancelling.  Here it is
\* called when no run is under way; RunControl has the calls that overlap.
NoCancelPromise == cancelPromise = 0

StartRun ==
  /\ Quiescent
  /\ group < Len(Plan) /\ GroupSettled /\ ~SameRun(group + 1)
  /\ NoCancelPromise
  /\ StartGroup
  /\ ctxCancelling' = FALSE

\* One pass of tasks.map: skip (cancelFiles), refuse (run() throws) or enqueue and schedule.
Submit ==
  LET t == Head(toSubmit) IN
  /\ toSubmit # <<>>
  /\ toSubmit' = Tail(toSubmit)
  /\ IF ctxCancelling \/ isCancelling
       THEN /\ resolver' = [resolver EXCEPT ![t] = IF ctxCancelling THEN "skipped" ELSE "refused"]
            /\ pc' = [pc EXCEPT ![t] = "done"]
            /\ UNCHANGED <<queue, activeTasks, sharedRunners, freeIds, rstate, runnerOf, mapOf, poolId>>
       ELSE Schedule(Append(queue, t), activeTasks, sharedRunners, freeIds, rstate,
                     [pc EXCEPT ![t] = "queued"])
  /\ UNCHANGED <<group, ctxCancelling, cancelPromise, cancels, exitPromises, isCancelling,
                 link, stopWanted, graceful>>

-----------------------------------------------------------------------------
\* Microtasks of schedule().

\* runner.start() has settled: send the task unless it was rejected meanwhile.
AfterStart(t) ==
  /\ LoopDone
  /\ pc[t] = "startSettled"
  /\ pc' = [pc EXCEPT ![t] = "running"]
  /\ UNCHANGED <<poolVars, ctxVars, resolver, runnerOf, mapOf, runnerVars>>

\* The runner is kept for the task at the head of the queue.
Shares(t) ==
  LET r == runnerOf[t] IN
  /\ t \notin Isolated
  /\ ~IsTerminated(rstate, r)
  /\ resolver[t] # "memoryLimit"
  /\ queue # <<>> /\ Head(queue) \notin Isolated /\ Key[r] = Key[Head(queue)]

\* `workerIds.set(poolId, true)` on the captured map.
FreedIds(t) ==
  IF mapOf[t] = group THEN freeIds \cup {poolId[runnerOf[t]]} ELSE freeIds

\* What stop() does at once to a runner in this state; "starting" holds the lock.
StopEffect(s) == IF s \in {"started", "failed"} THEN "stopping" ELSE s

\* `force: resolver.isRejected`
IsRejected(t) == resolver[t] \in {"rejected", "cancelled"}

\* stop() without force, of runners that are not stopped yet.
StopsGracefully(rs) == graceful' = graceful \cup {r \in rs : rstate[r] \in {"started", "failed"}}

\* The resolver has settled: leave activeTasks, share or stop the runner, schedule.
Continue(t) ==
  LET r == runnerOf[t] IN
  /\ LoopDone
  /\ pc[t] = "running" /\ Settled(t)
  /\ IF Shares(t)
       THEN /\ Schedule(queue, activeTasks \ {t}, sharedRunners \cup {r}, freeIds, rstate,
                        [pc EXCEPT ![t] = "done"])
            /\ UNCHANGED <<exitPromises, graceful>>
       ELSE /\ Schedule(queue, activeTasks \ {t}, sharedRunners, FreedIds(t),
                        [rstate EXCEPT ![r] = StopEffect(@)], [pc EXCEPT ![t] = "done"])
            /\ exitPromises' = IF IsTerminated(rstate, r) THEN exitPromises
                                                          ELSE exitPromises \cup {r}
            /\ StopsGracefully(IF IsRejected(t) THEN {} ELSE {r})
  /\ UNCHANGED <<isCancelling, ctxVars, link, stopWanted>>

\* A forced stop() that waited for start() to release the operation lock.
StopAfterLock(r) ==
  /\ LoopDone
  /\ r \in stopWanted /\ rstate[r] # "starting"
  /\ stopWanted' = stopWanted \ {r}
  /\ rstate' = [rstate EXCEPT ![r] = StopEffect(@)]
  /\ UNCHANGED <<poolVars, ctxVars, taskVars, poolId, link, graceful>>

-----------------------------------------------------------------------------
\* cancel(), cancelCurrentRun() and close().

\* The synchronous part: the queue is rejected, a second call forces the active runners.
CancelCall(c, by) ==
  LET force == isCancelling
      rejected == {queue[i] : i \in DOMAIN queue}
      forced == IF force THEN {runnerOf[t] : t \in activeTasks} ELSE {} IN
  /\ group > 0
  /\ cancels[c].at = "idle" /\ \A d \in Cancels : d < c => cancels[d].at # "idle"
  /\ cancels' = [cancels EXCEPT ![c] =
                   [at |-> "tasks", force |-> force, awaits |-> activeTasks, by |-> by, began |-> {}]]
  /\ isCancelling' = TRUE
  /\ queue' = <<>>
  /\ resolver' = [t \in Tasks |-> IF t \in rejected THEN "cancelled" ELSE resolver[t]]
  /\ pc' = [t \in Tasks |-> IF t \in rejected THEN "done" ELSE pc[t]]
  /\ stopWanted' = stopWanted \cup {r \in forced : rstate[r] = "starting"}
  /\ rstate' = [r \in Tasks |-> IF r \in forced THEN StopEffect(rstate[r]) ELSE rstate[r]]
  /\ UNCHANGED <<group, toSubmit, activeTasks, sharedRunners, exitPromises, freeIds,
                 runnerOf, mapOf, poolId, link, graceful>>

\* A key press, or a worker whose failed test reached `bail`.
CancelCurrentRun(c, by) ==
  /\ Quiescent
  /\ by = "bail" => \E t \in activeTasks : pc[t] = "running" /\ link[runnerOf[t]] = "up"
  /\ CancelCall(c, by)
  /\ ctxCancelling' = TRUE
  /\ cancelPromise' = c

\* Vitest.close() awaits runningPromise before it closes the pool.
Close(c) ==
  /\ Quiescent
  /\ group = Len(Plan) /\ GroupSettled
  /\ \A d \in Cancels : cancels[d].by # "close"
  /\ CancelCall(c, "close")
  /\ UNCHANGED <<ctxCancelling, cancelPromise>>

\* `resolver.reject(new Error('Cancelled'))`, which does nothing to a settled promise.
RejectCancelled(t) == [resolver EXCEPT ![t] = IF @ = "pending" THEN "cancelled" ELSE @]

\* cancelTask(t): the runner is stopped, and stop() resolved _terminatePromise.
CancelTaskSettles(c, t) ==
  /\ LoopDone
  /\ cancels[c].at = "tasks" /\ t \in cancels[c].awaits
  /\ rstate[runnerOf[t]] = "stopped"
  /\ cancels' = [cancels EXCEPT ![c].awaits = @ \ {t}]
  /\ resolver' = RejectCancelled(t)
  /\ UNCHANGED <<poolVars, group, toSubmit, ctxCancelling, cancelPromise,
                 pc, runnerOf, mapOf, runnerVars>>

\* All of them are: forget the tasks and stop the shared runners gracefully.
CancelSharedRunners(c) ==
  /\ LoopDone
  /\ cancels[c].at = "tasks" /\ cancels[c].awaits = {}
  /\ activeTasks' = {}
  /\ rstate' = [r \in Tasks |-> IF r \in sharedRunners THEN StopEffect(rstate[r]) ELSE rstate[r]]
  /\ cancels' = [cancels EXCEPT ![c].at = "shared", ![c].awaits = sharedRunners,
                              ![c].began = {r \in sharedRunners : rstate[r] \in {"started", "failed"}}]
  /\ StopsGracefully(sharedRunners)
  /\ UNCHANGED <<queue, sharedRunners, exitPromises, freeIds, isCancelling,
                 group, toSubmit, ctxCancelling, cancelPromise, taskVars, poolId, link, stopWanted>>

CancelExitPromises(c) ==
  /\ LoopDone
  /\ cancels[c].at = "shared" /\ StoppedAll(c)
  /\ sharedRunners' = {}
  /\ cancels' = [cancels EXCEPT ![c].at = "exits", ![c].awaits = exitPromises]
  /\ UNCHANGED <<queue, activeTasks, exitPromises, freeIds, isCancelling,
                 group, toSubmit, ctxCancelling, cancelPromise, taskVars, runnerVars>>

\* Every id is free again; cancelCurrentRun forgets the promise, its own or a later one.
CancelEnd(c) ==
  /\ LoopDone
  /\ cancels[c].at = "exits" /\ StoppedAll(c)
  /\ exitPromises' = {}
  /\ freeIds' = Ids
  /\ isCancelling' = FALSE
  /\ cancels' = [cancels EXCEPT ![c].at = "done", ![c].awaits = {}]
  /\ cancelPromise' = IF cancels[c].by = "close" THEN cancelPromise ELSE 0
  /\ UNCHANGED <<queue, activeTasks, sharedRunners, group, toSubmit, ctxCancelling,
                 taskVars, runnerVars>>

-----------------------------------------------------------------------------
\* Events: what workers, timers and the operating system do.

\* The task whose listeners are attached to runner r.
Listens(t, r) == runnerOf[t] = r /\ pc[t] \in {"starting", "running"}

Reject(S) == resolver' = [t \in Tasks |-> IF t \in S /\ ~Settled(t) THEN "rejected" ELSE resolver[t]]

\* start() settles; a failure rejects the task that waits for it.
StartOutcome(r, state) ==
  /\ rstate' = [rstate EXCEPT ![r] = state]
  /\ pc' = [t \in Tasks |-> IF runnerOf[t] = r /\ pc[t] = "starting" THEN "startSettled" ELSE pc[t]]
  /\ IF state = "failed" THEN Reject({t \in Tasks : Listens(t, r)}) ELSE UNCHANGED resolver
  /\ UNCHANGED <<poolVars, ctxVars, runnerOf, mapOf, poolId, stopWanted, graceful>>

StartOk(r) ==
  /\ Quiescent
  /\ rstate[r] = "starting" /\ link[r] = "up"
  /\ StartOutcome(r, "started") /\ UNCHANGED link

\* The worker answers with an error, or START_TIMEOUT passes.
StartFail(r) ==
  /\ Quiescent
  /\ rstate[r] = "starting"
  /\ StartOutcome(r, "failed") /\ UNCHANGED link

\* WORKER_START_TIMEOUT: the promise is rejected, schedule() still awaits start().
StartTimer(t) ==
  /\ Quiescent
  /\ t \in SlowStart /\ pc[t] = "starting" /\ ~Settled(t)
  /\ Reject({t})
  /\ UNCHANGED <<poolVars, ctxVars, pc, runnerOf, mapOf, runnerVars>>

\* `testfileFinished` arrives.
Finish(t, outcome) ==
  LET r == runnerOf[t] IN
  /\ Quiescent
  /\ pc[t] = "running" /\ ~Settled(t)
  /\ rstate[r] = "started" /\ link[r] = "up"
  /\ resolver' = [resolver EXCEPT ![t] = outcome]
  /\ UNCHANGED <<poolVars, ctxVars, pc, runnerOf, mapOf, runnerVars>>

\* The channel to the worker breaks; emitError holds the error for a second ...
BreakChannel(r) ==
  /\ Quiescent
  /\ r \in CanBreak /\ rstate[r] \in {"starting", "started"} /\ link[r] = "up"
  /\ link' = [link EXCEPT ![r] = "broken"]
  /\ UNCHANGED <<poolVars, ctxVars, taskVars, poolId, rstate, stopWanted, graceful>>

\* ... and reports it when the process is still there.
HeldErrorAtStart(r) ==
  /\ Quiescent
  /\ link[r] = "broken" /\ rstate[r] = "starting"
  /\ StartOutcome(r, "failed") /\ UNCHANGED link

HeldError(r) ==
  /\ Quiescent
  /\ link[r] = "broken" /\ rstate[r] = "started"
  /\ Reject({t \in Tasks : Listens(t, r)})
  /\ UNCHANGED <<poolVars, ctxVars, pc, runnerOf, mapOf, runnerVars>>

\* emitUnexpectedExit: the process ends with a code ("exited") or by a signal ("killed").
ProcessEnds(r, how) ==
  /\ r \in CanExit /\ link[r] \in {"up", "broken"}
  /\ link' = [link EXCEPT ![r] = how]

ExitAtStart(r, how) ==
  /\ Quiescent
  /\ rstate[r] = "starting"
  /\ ProcessEnds(r, how)
  /\ StartOutcome(r, "failed")

Exit(r, how) ==
  /\ Quiescent
  /\ rstate[r] = "started"
  /\ ProcessEnds(r, how)
  /\ rstate' = [rstate EXCEPT ![r] = "crashed"]
  /\ Reject({t \in Tasks : Listens(t, r)})
  /\ UNCHANGED <<poolVars, ctxVars, pc, runnerOf, mapOf, poolId, stopWanted, graceful>>

\* stop() completes: the worker has answered, unless it is forced, and worker.stop() has
\* ended the process.  ForksPoolWorker.stop waits for an 'exit' event that a process
\* killed by a signal has already emitted: it never completes.
StopDone(r) ==
  /\ Quiescent
  /\ rstate[r] = "stopping" /\ link[r] # "killed"
  /\ rstate' = [rstate EXCEPT ![r] = "stopped"]
  /\ link' = [link EXCEPT ![r] = "exited"]
  /\ UNCHANGED <<poolVars, ctxVars, taskVars, poolId, stopWanted, graceful>>

\* STOP_TIMEOUT: the worker has not answered, and stop() rejects before worker.stop().  The
\* runner counts as stopped, its process is left as it is.  Whoever began the stop() hears of
\* it: schedule() only logs it, a cancel that stops shared runners throws.
Throws(c, r) == cancels[c].at = "shared" /\ r \in cancels[c].began

StopTimesOut(r) ==
  /\ Quiescent
  /\ rstate[r] = "stopping" /\ r \in graceful \cap CanHang
  /\ rstate' = [rstate EXCEPT ![r] = "stopped"]
  /\ cancels' = [c \in Cancels |->
       IF Throws(c, r) THEN [cancels[c] EXCEPT !.at = "thrown", !.awaits = {}] ELSE cancels[c]]
  /\ cancelPromise' = IF \E c \in Cancels : Throws(c, r) /\ cancels[c].by # "close" THEN 0 ELSE cancelPromise
  /\ UNCHANGED <<poolVars, group, toSubmit, ctxCancelling, taskVars, poolId, link, stopWanted, graceful>>

-----------------------------------------------------------------------------
Resumed ==
  \/ Submit \/ NextGroup
  \/ \E t \in Tasks : AfterStart(t) \/ Continue(t) \/ StopAfterLock(t)
  \/ \E c \in Cancels :
       \/ CancelSharedRunners(c) \/ CancelExitPromises(c) \/ CancelEnd(c)
       \/ \E t \in Tasks : CancelTaskSettles(c, t)

Next ==
  \/ Resumed
  \/ StartRun
  \/ \E r \in Tasks :
       \/ StartOk(r) \/ StartFail(r) \/ StopDone(r) \/ StopTimesOut(r)
       \/ BreakChannel(r) \/ HeldErrorAtStart(r) \/ HeldError(r)
       \/ \E how \in {"exited", "killed"} : ExitAtStart(r, how) \/ Exit(r, how)
  \/ \E t \in Tasks :
       \/ StartTimer(t)
       \/ \E outcome \in {"resolved", "memoryLimit"} : Finish(t, outcome)
  \/ \E c \in Cancels :
       \/ Close(c)
       \/ \E by \in CancelledBy : CancelCurrentRun(c, by)

\* Fairness.  Promises resolve.  A start settles by START_TIMEOUT, a stop by
\* STOP_TIMEOUT and SIGKILL, a held error after its second; a custom pool may
\* start slowly for ever.  Test files end: hooks and tests have timeouts.  No run,
\* cancel, exit or broken channel ever has to happen.
FairEvents(t) ==
  /\ t \notin SlowStart => WF_vars(StartOk(t) \/ StartFail(t))
  /\ WF_vars(HeldErrorAtStart(t) \/ HeldError(t))
  /\ WF_vars(StopDone(t) \/ StopTimesOut(t))
  /\ WF_vars(\E outcome \in {"resolved", "memoryLimit"} : Finish(t, outcome))

Spec == Init /\ [][Next]_vars /\ WF_vars(Resumed) /\ \A t \in Tasks : FairEvents(t)

-----------------------------------------------------------------------------
CancelAt == {"idle", "tasks", "shared", "exits", "done", "thrown"}
Outcomes == {"pending", "resolved", "memoryLimit", "rejected", "cancelled", "skipped", "refused"}
RunnerStates == {"idle", "starting", "started", "failed", "stopping", "stopped", "crashed"}

TypeOK ==
  /\ group \in 0..Len(Plan)
  /\ toSubmit \in Seq(Tasks) /\ queue \in Seq(Tasks)
  /\ activeTasks \subseteq Tasks /\ sharedRunners \subseteq Tasks /\ exitPromises \subseteq Tasks
  /\ freeIds \subseteq Ids
  /\ isCancelling \in BOOLEAN /\ ctxCancelling \in BOOLEAN
  /\ cancelPromise \in Cancels \cup {0}
  /\ cancels \in [Cancels -> [at : CancelAt, force : BOOLEAN, awaits : SUBSET Tasks,
                              by : {"none", "user", "bail", "close"}, began : SUBSET Tasks]]
  /\ pc \in [Tasks -> {"none", "queued", "starting", "startSettled", "running", "done"}]
  /\ resolver \in [Tasks -> Outcomes]
  /\ runnerOf \in [Tasks -> Tasks \cup {NoTask}]
  /\ mapOf \in [Tasks -> 0..Len(Plan)]
  /\ poolId \in [Tasks -> Nat]
  /\ rstate \in [Tasks -> RunnerStates]
  /\ link \in [Tasks -> {"up", "broken", "exited", "killed"}]
  /\ stopWanted \subseteq Tasks /\ graceful \subseteq Tasks

Working(t) == pc[t] \in {"starting", "startSettled", "running"} /\ ~Settled(t)

\* Files that run at the same time see different VITEST_POOL_IDs, between 1 and
\* maxWorkers (poolRunner.ts, poolId), and so never share a runner: although ids are
\* freed before workers are gone, kept by shared runners, and renewed per group.
DistinctPoolIds ==
  \A t, u \in Tasks :
    /\ Working(t) => poolId[runnerOf[t]] \in Ids
    /\ Working(t) /\ Working(u) /\ t # u => poolId[runnerOf[t]] # poolId[runnerOf[u]]

\* No task is left behind.  run() is never called on a pool that is still cancelling
\* (test/e2e/test/bail-race.test.ts), getConcurrencyId never throws as there is an id
\* whenever schedule() takes a task, and a task waits in the queue only while every slot
\* is taken: schedule() takes one task, so each way a slot gets free must call it.
NoTaskForgotten ==
  /\ \A t \in Tasks : resolver[t] # "refused" /\ (resolver[t] = "rejected" => runnerOf[t] # NoTask)
  /\ Quiescent /\ queue # <<>> => Cardinality(activeTasks) >= maxWorkers

\* A live worker that is not being stopped always has a task whose listeners see its
\* exit: otherwise emitting "error" without a listener would bring the process down.
\* So a runner kept for sharing is taken by the very schedule() call that follows, and
\* none is left over to hold its id until the next cancel.
NoOrphanRunner ==
  Quiescent =>
    /\ sharedRunners = {}
    /\ \A r \in Tasks : rstate[r] \in {"starting", "started"} => \E t \in Tasks : Listens(t, r)

\* Once close() has returned every process has ended, though stop() is only awaited by way
\* of exitPromises and cancels.  The one that may be left is that of a worker which did not
\* answer a graceful stop: stop() gives up on it without ending it (poolRunner.ts 312-339).
CloseLeavesNoWorker ==
  (\E c \in Cancels : cancels[c].by = "close" /\ cancels[c].at = "done")
    => \A r \in Tasks :
         \/ rstate[r] = "idle" \/ link[r] \in {"exited", "killed"}
         \/ rstate[r] = "stopped" /\ r \in graceful \cap CanHang

\* Every task the pool accepted, whether it runs at once or waits, is settled: finished,
\* failed or cancelled.  Whoever starts a worker of a custom pool has to end the start
\* (SlowStart = {}): a task whose worker never comes up keeps its slot.
TaskSettles ==
  \A t \in Tasks : pc[t] \in {"queued", "starting", "startSettled", "running"} ~> Settled(t)

\* Every call of cancel() returns.
CancelReturns == \A c \in Cancels : cancels[c].at = "tasks" ~> cancels[c].at = "done"

\* The pool keeps the schedule it promises.
Schedules == INSTANCE FileSchedule
  WITH status <- [t \in Tasks |-> IF Settled(t) THEN "settled"
                                  ELSE IF Working(t) THEN "running" ELSE "waiting"],
       cancelled <- ctxCancelling
KeepsSchedule == Schedules!Spec

\* Every runner lives the life RunnerLifecycle describes, which PoolRunner implements:
\* the pool never starts a runner that is stopping, nor stops one that is gone.
Life(r) == INSTANCE RunnerLifecycle
  WITH state <- IF rstate[r] = "crashed" THEN "stopped" ELSE rstate[r]
KeepsLifecycles ==
  /\ \A r \in Tasks : Life(r)!Init
  /\ [][\A r \in Tasks : rstate'[r] # rstate[r] => Life(r)!Next]_vars

\* Disagreements between the code and its comments (see README.md).

\* "Vitest will wait until all running tests are finished before cancelling": when
\* nobody pressed a key, no file that runs is stopped before its end.
BailIsGraceful ==
  (\A c \in Cancels : cancels[c].by # "user")
    => \A t \in Tasks : runnerOf[t] # NoTask => resolver[t] # "cancelled"

\* "Reject as soon as that happens instead of waiting for the start timeout": no start
\* waits for the answer of a process that is already dead.
NoStartAwaitsDeadWorker ==
  Quiescent => \A r \in Tasks : rstate[r] = "starting" => link[r] \in {"up", "broken"}

\* "will not run tests that were scheduled to run but haven't started yet": once the
\* run is cancelled, no file is sent to a worker that was still starting.
CancelledRunSendsNothing ==
  [][\A t \in Tasks : pc[t] = "startSettled" /\ pc'[t] = "running" /\ ctxCancelling
       => Settled(t)]_vars
=============================================================================
