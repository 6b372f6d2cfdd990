----------------------------- MODULE AroundHooks -----------------------------
(***************************************************************************)
(* callAroundHooks of packages/vitest/src/runtime/runner/run.ts: the       *)
(* aroundEach and aroundAll hooks are nested around a test or a suite, and *)
(* the setup and the teardown phase of each, and what is inside, take      *)
(* slots of one limiter, which concurrent tests share.                     *)
(*                                                                         *)
(* A hook is user code that calls use().  It may hang, throw, call use()   *)
(* twice or never.  Three coroutines meet in it: runNextHook, which races  *)
(* promises, the hook itself, and its call of use().  A race is decided by *)
(* the first event, and what its winner does to timers and slots is done   *)
(* with that event.  The limiter is ConcurrencyLimiter, seen from outside. *)
(***************************************************************************)
EXTENDS Naturals, SequencesExt, FiniteSets

CONSTANTS
  Tests,        \* tests that run at the same time, each in hooks of its own
  Depth,        \* the number of hooks around each
  MaxConcurrency,  \* config.maxConcurrency
  Abandons      \* hooks may end without waiting for use() to return

ASSUME AroundAssumption ==
  Depth \in Nat \ {0} /\ MaxConcurrency \in Nat \ {0} /\ Abandons \in BOOLEAN

Levels == 1..Depth
Inside == Depth + 1
Hooks == Tests \X Levels
Frames == Tests \X (Levels \cup {Inside})
Inner(h) == <<h[1], h[2] + 1>>

VARIABLES
  frame,          \* where runNextHook is
  hook,           \* the hook function
  use,            \* its call of use()
  setupTimer, teardownTimer,
  holders, waiting,   \* the limiter: who has a slot, who waits for one
  hookErrors,     \* the frames that were rejected
  unhandled       \* the timers whose rejection nobody handles

limiter == <<holders, waiting>>
timers == <<setupTimer, teardownTimer>>
vars == <<frame, hook, use, timers, limiter, hookErrors, unhandled>>

\* Who asks for a slot: the setup phase (or what is inside), and the teardown phase.
Setup(h) == <<h, "setup">>
Teardown(h) == <<h, "teardown">>

-----------------------------------------------------------------------------
(* The limiter as a value, so that a step may release one slot and ask for another *)

Slots == [holders |-> holders, waiting |-> waiting]

Acquired(slots, c) ==
  IF Cardinality(slots.holders) < MaxConcurrency
  THEN [slots EXCEPT !.holders = @ \cup {c}]
  ELSE [slots EXCEPT !.waiting = Append(@, c)]

Released(slots, c) ==
  IF c \notin slots.holders THEN slots
  ELSE IF slots.waiting = <<>> THEN [slots EXCEPT !.holders = @ \ {c}]
  ELSE [holders |-> (slots.holders \ {c}) \cup {Head(slots.waiting)}, waiting |-> Tail(slots.waiting)]

SetSlots(slots) == holders' = slots.holders /\ waiting' = slots.waiting

-----------------------------------------------------------------------------
\* Mutated forms of definitions below, for the properties to catch.
KeepsSetupSlot(h) == Acquired(Slots, Setup(Inner(h)))
ReleasesSetupOnly(h) == Released(Slots, Setup(h))
CallsInside(h) == use[h] = "no"

-----------------------------------------------------------------------------
Init ==
  /\ frame = [f \in Frames |-> "idle"]
  /\ hook = [h \in Hooks |-> "idle"] /\ use = [h \in Hooks |-> "no"]
  /\ setupTimer = [h \in Hooks |-> "off"] /\ teardownTimer = [h \in Hooks |-> "off"]
  /\ holders = {} /\ waiting = <<>>
  /\ hookErrors = {} /\ unhandled = {}

\* clear() of a timer that may have fired.
Cleared(timer) == IF timer = "on" THEN "off" ELSE timer

\* runNextHook(0) asks for the slot of the first setup phase.
Start(t) ==
  /\ frame[<<t, 1>>] = "idle" /\ frame' = [frame EXCEPT ![<<t, 1>>] = "acquiring"]
  /\ SetSlots(Acquired(Slots, Setup(<<t, 1>>)))
  /\ UNCHANGED <<hook, use, timers, hookErrors, unhandled>>

\* With the slot, runNextHook starts the timer and the hook.
SetupBegins(h) ==
  /\ frame[h] = "acquiring" /\ Setup(h) \in holders
  /\ frame' = [frame EXCEPT ![h] = "setup"]
  /\ hook' = [hook EXCEPT ![h] = "running"] /\ setupTimer' = [setupTimer EXCEPT ![h] = "on"]
  /\ UNCHANGED <<use, teardownTimer, limiter, hookErrors, unhandled>>

\* use() throws when it is called again, and when the setup timed out.
MayCallInside(h) == use[h] = "no" /\ setupTimer[h] # "fired"

\* It gives the slot back before the next frame asks for one.
SlotsForInside(h) == Acquired(Released(Slots, Setup(h)), Setup(Inner(h)))

CallUse(h) ==
  /\ hook[h] = "running" /\ MayCallInside(h)
  /\ use' = [use EXCEPT ![h] = "inner"]
  /\ frame' = [frame EXCEPT ![h] = IF @ = "setup" THEN "inner" ELSE @, ![Inner(h)] = "acquiring"]
  /\ setupTimer' = [setupTimer EXCEPT ![h] = Cleared(@)]
  /\ SetSlots(SlotsForInside(h))
  /\ UNCHANGED <<hook, teardownTimer, hookErrors, unhandled>>

\* What is inside all hooks runs with a slot and ends, with an error or without.
InsideBegins(t) ==
  LET f == <<t, Inside>> IN
  /\ frame[f] = "acquiring" /\ Setup(f) \in holders
  /\ frame' = [frame EXCEPT ![f] = "inner"]
  /\ UNCHANGED <<hook, use, timers, limiter, hookErrors, unhandled>>

InsideEnds(t, errors) ==
  LET f == <<t, Inside>> IN
  /\ frame[f] = "inner" /\ frame' = [frame EXCEPT ![f] = "done"]
  /\ SetSlots(Released(Slots, Setup(f)))
  /\ hookErrors' = hookErrors \cup {f : e \in errors}
  /\ UNCHANGED <<hook, use, timers, unhandled>>

\* When the frame inside is done, use() asks for the slot of the teardown phase.
InsideIsDone(h) == use[h] = "inner" /\ frame[Inner(h)] = "done"

TeardownAcquires(h) ==
  /\ InsideIsDone(h) /\ use' = [use EXCEPT ![h] = "acquiring"]
  /\ SetSlots(Acquired(Slots, Teardown(h)))
  /\ UNCHANGED <<frame, hook, timers, hookErrors, unhandled>>

\* With the slot it starts the timer and returns, whether somebody still waits for it or not.
UseReturns(h) ==
  /\ use[h] = "acquiring" /\ Teardown(h) \in holders
  /\ use' = [use EXCEPT ![h] = "returned"] /\ teardownTimer' = [teardownTimer EXCEPT ![h] = "on"]
  /\ frame' = [frame EXCEPT ![h] = IF @ = "inner" THEN "teardown" ELSE @]
  /\ UNCHANGED <<hook, setupTimer, limiter, hookErrors, unhandled>>

\* The release functions that are known: that of the teardown only once use() has returned.
ReleasedAtEnd(h) ==
  Released(Released(Slots, Setup(h)), IF use[h] = "returned" THEN Teardown(h) ELSE Setup(h))

\* The hook ends by itself; one that never called use() has failed, too.  If runNextHook still
\* waits it is over, and its timers are cleared.
HookEnds(h, outcome) ==
  /\ hook[h] = "running"
  /\ Abandons \/ use[h] \in {"no", "returned"}
  /\ hook' = [hook EXCEPT ![h] = "ended"]
  /\ SetSlots(ReleasedAtEnd(h))
  /\ IF frame[h] = "done" THEN UNCHANGED <<frame, hookErrors, timers>>
     ELSE /\ frame' = [frame EXCEPT ![h] = "done"]
          /\ hookErrors' = IF outcome = "throws" \/ use[h] = "no" THEN hookErrors \cup {h} ELSE hookErrors
          /\ setupTimer' = [setupTimer EXCEPT ![h] = Cleared(@)]
          /\ teardownTimer' = [teardownTimer EXCEPT ![h] = Cleared(@)]
  /\ UNCHANGED <<use, unhandled>>

\* The setup phase times out: the frame is rejected, the hook goes on by itself.
SetupTimesOut(h) ==
  /\ setupTimer[h] = "on" /\ frame[h] = "setup"
  /\ setupTimer' = [setupTimer EXCEPT ![h] = "fired"]
  /\ frame' = [frame EXCEPT ![h] = "done"] /\ hookErrors' = hookErrors \cup {h}
  /\ SetSlots(Released(Slots, Setup(h)))
  /\ UNCHANGED <<hook, use, teardownTimer, unhandled>>

\* The teardown phase times out; if runNextHook is over already, nobody handles the rejection.
TeardownTimesOut(h) ==
  /\ teardownTimer[h] = "on" /\ teardownTimer' = [teardownTimer EXCEPT ![h] = "fired"]
  /\ IF frame[h] = "teardown"
     THEN /\ frame' = [frame EXCEPT ![h] = "done"] /\ hookErrors' = hookErrors \cup {h}
          /\ SetSlots(Released(Slots, Teardown(h)))
          /\ UNCHANGED unhandled
     ELSE unhandled' = unhandled \cup {h} /\ UNCHANGED <<frame, hookErrors, limiter>>
  /\ UNCHANGED <<hook, use, setupTimer>>

Next ==
  \/ \E t \in Tests : \/ Start(t) \/ InsideBegins(t)
                      \/ \E errors \in {{}, {"error"}} : InsideEnds(t, errors)
  \/ \E h \in Hooks :
       \/ SetupBegins(h) \/ CallUse(h) \/ TeardownAcquires(h) \/ UseReturns(h)
       \/ SetupTimesOut(h) \/ TeardownTimesOut(h)
       \/ \E outcome \in {"returns", "throws"} : HookEnds(h, outcome)

\* The code between two awaits runs, timers fire, and what is inside ends, as tests have
\* timeouts of their own.  Hooks may hang.
Fairness ==
  /\ \A t \in Tests : WF_vars(Start(t)) /\ WF_vars(InsideBegins(t)) /\ WF_vars(InsideEnds(t, {}))
  /\ \A h \in Hooks :
       /\ WF_vars(SetupBegins(h)) /\ WF_vars(TeardownAcquires(h)) /\ WF_vars(UseReturns(h))
       /\ WF_vars(SetupTimesOut(h)) /\ WF_vars(TeardownTimesOut(h))

Spec == Init /\ [][Next]_vars /\ Fairness

-----------------------------------------------------------------------------
Claims == {Setup(f) : f \in Frames} \cup {Teardown(h) : h \in Hooks}
Over(t) == frame[<<t, 1>>] = "done"

\* Every variable has a value of its kind; a timer that runs has a frame to reject, and the
\* limiter hands out no more slots than it has (limit-concurrency.ts).
TypeOK ==
  /\ frame \in [Frames -> {"idle", "acquiring", "setup", "inner", "teardown", "done"}]
  /\ hook \in [Hooks -> {"idle", "running", "ended"}]
  /\ use \in [Hooks -> {"no", "inner", "acquiring", "returned"}]
  /\ \A timer \in {setupTimer, teardownTimer} : timer \in [Hooks -> {"off", "on", "fired"}]
  /\ holders \subseteq Claims /\ Range(waiting) \subseteq Claims \ holders
  /\ Cardinality(holders) <= MaxConcurrency
  /\ hookErrors \subseteq Frames /\ unhandled \subseteq Hooks
  /\ \A h \in Hooks : setupTimer[h] = "on" => frame[h] = "setup"

\* What is inside runs at the heart of its hooks: each is between its setup and its teardown
\* and has not been given up, whatever timed out before (run.ts 343-388).
InsideAllHooks ==
  \A t \in Tests : frame[<<t, Inside>>] = "inner" =>
    \A i \in Levels : frame[<<t, i>>] = "inner" /\ hook[<<t, i>>] = "running"

\* When callAroundHooks returns, nothing inside goes on, and none of its slots is taken or
\* waited for (run.ts 386-437).
NothingLeft ==
  \A t \in Tests : Over(t) =>
    /\ \A f \in Frames : f[1] = t => frame[f] \in {"idle", "done"}
    /\ \A c \in holders \cup Range(waiting) : c[1][1] # t

\* The code of a hook runs with a slot in each phase, until it times out; between the phases
\* it holds none, or hooks inside hooks would wait for their own (run.ts 368, 381, 391).
PhasesHoldSlots ==
  \A h \in Hooks :
    /\ frame[h] = "setup" => Setup(h) \in holders
    /\ frame[h] = "teardown" => Teardown(h) \in holders
    /\ frame[h] \in {"inner", "done"} => {Setup(h), Teardown(h)} \cap holders \subseteq {Teardown(h)}
    /\ frame[h] = "inner" /\ use[h] = "inner" => Teardown(h) \notin holders

\* No rejection of a timer is left to the process (run.ts 393, 433).
NothingUnhandled == unhandled = {}

\* Every nest of hooks ends, although all share few slots and any hook may hang.
EveryNestEnds == \A t \in Tests : <>Over(t)

=============================================================================
