----------------------------- MODULE TaskUpdates -----------------------------
(***************************************************************************)
(* How the results of tests reach the reporters: updateTask, the throttle  *)
(* and finishSendTasksUpdate of packages/vitest/src/runtime/runner/run.ts, *)
(* the channel from each worker, StateManager.updateTasks and TestRun      *)
(* (packages/vitest/src/node/state.ts and test-run.ts), and the check of   *)
(* `bail` in packages/vitest/src/runtime/runners/index.ts.                 *)
(*                                                                         *)
(* A result is one object that the worker goes on changing: an update      *)
(* carries the state at the time it is sent, not at the time of its        *)
(* events.  What a test does in between is in RunTest.                     *)
(***************************************************************************)
EXTENDS SequencesExt

CONSTANTS
  Workers,
  Tests,
  WorkerOf,         \* [Tests -> Workers]
  FileOf,           \* [Workers -> Files]: the file whose tests the worker runs
  Retries,          \* [Tests -> Nat]: how often a test that fails runs again
  Bail,             \* config.bail
  MaxOnTheWay,      \* bound: 100 ms do not pass while so many messages of a worker are on their way or reported
  MaxReported       \* [Workers -> Nat], a bound: so many messages of a worker are reported at a time

Files == {FileOf[w] : w \in Workers}
Tasks == Tests \cup Files

ASSUME UpdatesAssumption ==
  /\ WorkerOf \in [Tests -> Workers] /\ IsFiniteSet(Tests) /\ IsFiniteSet(Workers)
  /\ DOMAIN FileOf = Workers /\ IsInjective(FileOf) /\ Tests \cap Files = {}
  /\ Retries \in [Tests -> Nat] /\ {Bail, MaxOnTheWay} \subseteq Nat \ {0}
  /\ MaxReported \in [Workers -> Nat \ {0}]

VARIABLES
  \* in the worker
  result,        \* task.result.state, or "none"
  place,         \* how far each task is
  tries,         \* the retries a test has left
  eventsPacks,   \* the events to be sent, whose tasks are the packs to be sent
  recent,        \* the last update was sent at most 100 ms ago
  pendingCall,   \* the timer of the throttle is set
  cancelRun,     \* the worker knows of the cancel
  \* between and in the main process
  channel,       \* the messages on their way
  handlers,      \* the events each call of TestRun.updated has still to report
  tasks,         \* the results the main process knows
  failures,      \* what a failed test is told: itself and the failures before
  cancelled,     \* a test has cancelled the run
  \* histories
  emitted, received, told,  \* the events, as the worker emits them, as the main process
                            \* receives them and as reporters are told
  alone          \* no message has come while events of one before were still to be reported

tests == <<result, place, tries>>
throttle == <<eventsPacks, recent, pendingCall>>
server == <<handlers, tasks, received, told, alone, failures>>
vars == <<tests, throttle, server, cancelRun, cancelled, channel, emitted>>

TestsOf(w) == {t \in Tests : WorkerOf[t] = w}

TasksOf(events) == {e[1] : e \in Range(events)}

-----------------------------------------------------------------------------
\* Mutated forms of definitions below, for the properties to catch.
NewestFirst(w, events) == IF recent[w] THEN <<>> ELSE <<events[1]>> \o eventsPacks[w]
NoTimer(w, events) == FALSE
NoneAwaited(w) == TRUE

-----------------------------------------------------------------------------
Init ==
  /\ result = [t \in Tasks |-> "none"] /\ place = [t \in Tasks |-> "queued"]
  /\ tries = Retries
  /\ eventsPacks = [w \in Workers |-> <<>>]
  /\ recent = [w \in Workers |-> FALSE] /\ pendingCall = [w \in Workers |-> FALSE]
  /\ cancelRun = [w \in Workers |-> FALSE] /\ cancelled = FALSE
  /\ channel = [w \in Workers |-> <<>>] /\ handlers = [w \in Workers |-> <<>>]
  /\ tasks = [t \in Tasks |-> "none"] /\ failures = [t \in Tests |-> 0]
  /\ emitted = [w \in Workers |-> <<>>] /\ told = [w \in Workers |-> <<>>]
  /\ received = [w \in Workers |-> <<>>] /\ alone = [w \in Workers |-> TRUE]

-----------------------------------------------------------------------------
(* updateTask, the throttle and finishSendTasksUpdate                      *)

\* The update carries the results of the moment it is sent.
Update(results, events) ==
  [kind |-> "update", packs |-> {<<t, results[t]>> : t \in TasksOf(events)}, events |-> events]
Ask(t) == [kind |-> "ask", test |-> t]

SendTasksUpdate(w, results, events, calls) ==
  channel' = [channel EXCEPT ![w] =
                (IF events = <<>> THEN @ ELSE Append(@, Update(results, events))) \o calls]

\* The events that updateTask leaves for later: the throttle lets the first call through if the
\* last was long enough ago, and with it everything that waited.
Waits(w, events) == IF recent[w] THEN eventsPacks[w] \o events ELSE Tail(events)
Leaves(w, events) == IF recent[w] THEN <<>> ELSE Append(eventsPacks[w], events[1])

\* The timer is set when a call is not let through, and cleared by one that is.
TimerSet(w, events) == Waits(w, events) # <<>>

\* Results change, updateTask is called for some events of w, and then other calls are made.
Emit(w, results, events, calls) ==
  /\ result' = results
  /\ emitted' = [emitted EXCEPT ![w] = @ \o events]
  /\ SendTasksUpdate(w, results, Leaves(w, events), calls)
  /\ eventsPacks' = [eventsPacks EXCEPT ![w] = Waits(w, events)]
  /\ pendingCall' = [pendingCall EXCEPT ![w] = TimerSet(w, events)]
  /\ recent' = [recent EXCEPT ![w] = TRUE]

\* 100 ms have passed since the last update.
TimePasses(w) ==
  /\ recent[w] /\ \A v \in Workers : Len(channel[v]) + Len(handlers[v]) < MaxOnTheWay
  /\ recent' = [recent EXCEPT ![w] = FALSE]
  /\ UNCHANGED <<tests, server, cancelRun, cancelled, channel, emitted, eventsPacks, pendingCall>>

\* A timer that fires too early is set again.
TimerFires(w) ==
  /\ pendingCall[w] /\ ~recent[w]
  /\ pendingCall' = [pendingCall EXCEPT ![w] = FALSE] /\ recent' = [recent EXCEPT ![w] = TRUE]
  /\ SendTasksUpdate(w, result, eventsPacks[w], <<>>) /\ eventsPacks' = [eventsPacks EXCEPT ![w] = <<>>]
  /\ UNCHANGED <<tests, server, cancelRun, cancelled, emitted>>

Flush(w) ==
  /\ place[FileOf[w]] = "finished" /\ place' = [place EXCEPT ![FileOf[w]] = "flushing"]
  /\ SendTasksUpdate(w, result, eventsPacks[w], <<>>) /\ eventsPacks' = [eventsPacks EXCEPT ![w] = <<>>]
  /\ UNCHANGED <<result, tries, server, cancelRun, cancelled, emitted, recent, pendingCall>>

\* Every update has been answered, which it is when all its events are reported.
AllAnswered(w) == channel[w] = <<>> /\ handlers[w] = <<>>

FlushReturns(w) ==
  /\ place[FileOf[w]] = "flushing" /\ AllAnswered(w)
  /\ place' = [place EXCEPT ![FileOf[w]] = "done"]
  /\ UNCHANGED <<result, tries, throttle, server, cancelRun, cancelled, channel, emitted>>

-----------------------------------------------------------------------------
(* A file and its tests, one after another                                 *)

Running(w) == {t \in TestsOf(w) : place[t] = "running"}

FileStarts(w) ==
  LET f == FileOf[w] IN
  /\ place[f] = "queued"
  /\ place' = [place EXCEPT ![f] = IF cancelRun[w] THEN "finished" ELSE "running"]
  /\ Emit(w, [result EXCEPT ![f] = IF cancelRun[w] THEN "skip" ELSE "run"],
             <<<<f, "suite-prepare">>>>
               \o IF cancelRun[w] THEN <<<<f, "suite-finished">>>> ELSE <<>>, <<>>)
  /\ UNCHANGED <<tries, server, cancelRun, cancelled>>

\* A test that starts after a cancel is only reported; its result stays what it is.
Prepare(t) ==
  LET w == WorkerOf[t] IN
  /\ place[FileOf[w]] = "running" /\ place[t] = "queued"
  /\ \A u \in TestsOf(w) : place[u] \in {"queued", "done"}
  /\ place' = [place EXCEPT ![t] = IF cancelRun[w] THEN "done" ELSE "running"]
  /\ Emit(w, [result EXCEPT ![t] = IF cancelRun[w] THEN @ ELSE "run"],
             <<<<t, "test-prepare">>>>
               \o IF cancelRun[w] THEN <<<<t, "test-finished">>>> ELSE <<>>, <<>>)
  /\ UNCHANGED <<tries, server, cancelRun, cancelled>>

\* An attempt ends and it is the last one; `skip` also is what the abort of a cancel leads to.
Ends(t, state) ==
  /\ t \in Running(WorkerOf[t])
  /\ place' = [place EXCEPT ![t] = "done"]
  /\ Emit(WorkerOf[t], [result EXCEPT ![t] = state], <<<<t, "test-finished">>>>, <<>>)
  /\ UNCHANGED <<tries, server, cancelRun, cancelled>>

Retried(t) ==
  /\ t \in Running(WorkerOf[t]) /\ tries[t] > 0
  /\ tries' = [tries EXCEPT ![t] = @ - 1]
  /\ Emit(WorkerOf[t], [result EXCEPT ![t] = "run"], <<<<t, "test-retried">>>>, <<>>)
  /\ UNCHANGED <<place, server, cancelRun, cancelled>>

\* The last attempt fails, which is reported as a retry, too; with `bail` the runner asks for
\* the count of the failures before it goes on.
Fails(t) ==
  /\ t \in Running(WorkerOf[t]) /\ tries[t] = 0
  /\ place' = [place EXCEPT ![t] = "asking"]
  /\ Emit(WorkerOf[t], [result EXCEPT ![t] = "fail"], <<<<t, "test-retried">>>>, <<Ask(t)>>)
  /\ UNCHANGED <<tries, server, cancelRun, cancelled>>

\* The answer: the run is cancelled or not, in the worker of the test at once.  No other test
\* of the file runs, so that cancel marks none.
Decides(t) ==
  LET w == WorkerOf[t] IN
  /\ place[t] = "asking" /\ failures[t] > 0
  /\ cancelled' = (cancelled \/ failures[t] >= Bail)
  /\ cancelRun' = [cancelRun EXCEPT ![w] = @ \/ failures[t] >= Bail]
  /\ place' = [place EXCEPT ![t] = "done"]
  /\ Emit(w, result, <<<<t, "test-finished">>>>, <<>>)
  /\ UNCHANGED <<tries, server>>

\* markPendingTasksAsSkipped: what has not run or is running is skipped, if a test is running.
Pending(w) == {t \in TestsOf(w) : Running(w) # {} /\ result[t] \in {"none", "run"}}

CancelArrives(w) ==
  /\ cancelled /\ ~cancelRun[w] /\ place[FileOf[w]] \in {"queued", "running"}
  /\ cancelRun' = [cancelRun EXCEPT ![w] = TRUE]
  /\ IF Pending(w) = {} THEN UNCHANGED <<result, throttle, channel, emitted>>
     ELSE Emit(w, [t \in Tasks |-> IF t \in Pending(w) THEN "skip" ELSE result[t]],
                  SetToSeq(Pending(w) \X {"test-cancel"}), <<>>)
  /\ UNCHANGED <<place, tries, server, cancelled>>

HasFailed(w) == \E t \in TestsOf(w) : result[t] = "fail"

FileFinishes(w) ==
  LET f == FileOf[w] IN
  /\ place[f] = "running" /\ \A t \in TestsOf(w) : place[t] = "done"
  /\ place' = [place EXCEPT ![f] = "finished"]
  /\ Emit(w, [result EXCEPT ![f] = IF HasFailed(w) THEN "fail" ELSE "pass"], <<<<f, "suite-finished">>>>, <<>>)
  /\ UNCHANGED <<tries, server, cancelRun, cancelled>>

-----------------------------------------------------------------------------
(* The main process                                                        *)

UpdateTasks(packs) ==
  [t \in Tasks |-> IF \E p \in packs : p[1] = t THEN (CHOOSE p \in packs : p[1] = t)[2] ELSE tasks[t]]

\* Reporters are told the first event at once.  Each report is awaited before the next event,
\* whatever reporters return, and another message may be received meanwhile.
ReceiveUpdate(w) ==
  LET message == Head(channel[w]) IN
  /\ channel[w] # <<>> /\ message.kind = "update" /\ Len(handlers[w]) < MaxReported[w]
  /\ channel' = [channel EXCEPT ![w] = Tail(@)]
  /\ tasks' = UpdateTasks(message.packs)
  /\ received' = [received EXCEPT ![w] = @ \o message.events]
  /\ told' = [told EXCEPT ![w] = Append(@, Head(message.events))]
  /\ alone' = [alone EXCEPT ![w] = @ /\ handlers[w] = <<>>]
  /\ handlers' = [handlers EXCEPT ![w] = Append(@, Tail(message.events))]
  /\ UNCHANGED <<tests, throttle, failures, cancelRun, cancelled, emitted>>

\* One call of updated goes on to its next event, or to its end.
Report(w, i) ==
  LET events == handlers[w][i] IN
  /\ IF events = <<>>
     THEN handlers' = [handlers EXCEPT ![w] = RemoveAt(@, i)] /\ UNCHANGED told
     ELSE /\ handlers' = [handlers EXCEPT ![w][i] = Tail(@)]
          /\ told' = [told EXCEPT ![w] = Append(@, Head(events))]
  /\ UNCHANGED <<tests, throttle, channel, tasks, received, alone, failures, cancelRun, cancelled, emitted>>

\* Files are tasks of the state manager, too.
FailuresKnown == Cardinality({t \in Tasks : tasks[t] = "fail"})

ReceiveAsk(w) ==
  /\ channel[w] # <<>> /\ Head(channel[w]).kind = "ask"
  /\ channel' = [channel EXCEPT ![w] = Tail(@)]
  /\ failures' = [failures EXCEPT ![Head(channel[w]).test] = 1 + FailuresKnown]
  /\ UNCHANGED <<tests, throttle, handlers, tasks, received, told, alone, cancelRun, cancelled, emitted>>

Done == (\A w \in Workers : place[FileOf[w]] = "done") /\ UNCHANGED vars

\* Timers fire, messages arrive and the promises of reporters settle.  Tests may hang.
Delivers(w) ==
  \/ TimePasses(w) \/ TimerFires(w) \/ ReceiveUpdate(w) \/ ReceiveAsk(w)
  \/ \E i \in DOMAIN handlers[w] : Report(w, i)

Next ==
  \/ \E w \in Workers :
       Delivers(w) \/ FileStarts(w) \/ CancelArrives(w) \/ FileFinishes(w) \/ Flush(w) \/ FlushReturns(w)
  \/ \E t \in Tests : Prepare(t) \/ Retried(t) \/ Fails(t) \/ Decides(t)
  \/ \E t \in Tests, state \in {"pass", "skip"} : Ends(t, state)
  \/ Done

Spec == Init /\ [][Next]_vars /\ \A w \in Workers : WF_vars(Delivers(w))

-----------------------------------------------------------------------------
States == {"none", "run", "pass", "fail", "skip"}
Events == Tasks \X {"suite-prepare", "suite-finished", "test-prepare", "test-retried",
                    "test-cancel", "test-finished"}

\* Every variable has a value of its kind; a timer waits for events, and events for a timer
\* until the file is finished (the throttle of run.ts).
TypeOK ==
  /\ result \in [Tasks -> States] /\ tasks \in [Tasks -> States]
  /\ place \in [Tasks -> {"queued", "running", "asking", "finished", "flushing", "done"}]
  /\ DOMAIN tries = Tests /\ \A t \in Tests : tries[t] \in 0..Retries[t]
  /\ failures \in [Tests -> 0..(1 + Cardinality(Tasks))]
  /\ recent \in [Workers -> BOOLEAN] /\ pendingCall \in [Workers -> BOOLEAN]
  /\ cancelRun \in [Workers -> BOOLEAN] /\ cancelled \in BOOLEAN
  /\ \A w \in Workers : Range(emitted[w]) \subseteq Events
  /\ \A w \in Workers : eventsPacks[w] # <<>> => pendingCall[w]

\* Whatever the throttle merges, every event of a worker reaches the main process once and in
\* the order of the worker (run.ts 474-522).  Reporters are told them in this order until a
\* message comes while another is still being reported (test-run.ts 127-135), which does happen:
\* ReportedInOrder, below.
EventsOf(message) == IF message.kind = "update" THEN message.events ELSE <<>>
OnTheWay(w) == FlattenSeq([i \in DOMAIN channel[w] |-> EventsOf(channel[w][i])])
EventsInOrder ==
  \A w \in Workers :
    /\ emitted[w] = received[w] \o OnTheWay(w) \o eventsPacks[w]
    /\ alone[w] => received[w] = told[w] \o FlattenSeq(handlers[w])

\* The main process knows what is so: a reporter that is told the end of a test finds the result
\* the test ended with, though the worker goes on changing the one object; and when the worker
\* tells that its file is done, finishSendTasksUpdate has returned, so that all results are
\* known and all events told (run.ts 471-497, reported-tasks.ts 145).
ResultsAreKnown ==
  /\ \A t \in Tests : <<t, "test-finished">> \in Range(told[WorkerOf[t]]) =>
       place[t] = "done" /\ tasks[t] = result[t]
  /\ \A w \in Workers : place[FileOf[w]] = "done" =>
       /\ \A t \in TestsOf(w) \cup {FileOf[w]} : tasks[t] = result[t]
       /\ Len(told[w]) = Len(emitted[w]) /\ Range(told[w]) = Range(emitted[w])

\* What a worker emits, reporters are told, even if its tests then hang (run.ts 518).
AllIsTold == <>[](\A w \in Workers : Len(told[w]) = Len(emitted[w]))

\* docs/config/bail.md: the run is stopped when that number of tests have failed, not before.
NoEarlyBail == cancelled => Cardinality({t \in Tests : result[t] = "fail"}) >= Bail

\* docs/api/advanced/reporters.md: a test that is reported as finished is not pending.
NothingPending ==
  \A t \in Tests : <<t, "test-finished">> \in Range(told[WorkerOf[t]]) => tasks[t] \notin {"none", "run"}

\* "Tests and suites within a single module will be reported in order unless they were skipped"
\* (docs/api/advanced/reporters.md).
ReportedInOrder ==
  \A w \in Workers : (\A e \in Range(emitted[w]) : result[e[1]] # "skip") => IsPrefix(told[w], emitted[w])

=============================================================================
