------------------------- MODULE ConcurrencyLimiter -------------------------
(***************************************************************************)
(* limitConcurrency of packages/vitest/src/utils/limit-concurrency.ts: the *)
(* limiter the test runner puts around hooks, tests and concurrent groups. *)
(* One counter holds the active and the pending calls together; a pending  *)
(* call is a promise in a linked list, so the caller that is handed a slot *)
(* resumes in a later microtask (status "granted"), and other calls and    *)
(* releases may come in between.                                           *)
(***************************************************************************)
EXTENDS Integers, SequencesExt, FiniteSets

CONSTANTS Callers,       \* the calls made to one limiter
          Concurrency    \* its `concurrency` argument

ASSUME ConcurrencyAssumption == Concurrency \in Nat \ {0}
ASSUME CallersAssumption == IsFiniteSet(Callers)

\* The aroundEach/aroundAll code of run.ts calls one release function from
\* two `finally` blocks: a second call is normal, more say nothing new.
MaxReleaseCalls == 2

VARIABLES count,         \* active + pending calls
          pending,       \* the linked list head..tail
          status,        \* where each call is
          releaseCalls   \* how often its release function has been called

limiterVars == <<count, pending, status, releaseCalls>>

Statuses == {"idle", "pending", "granted", "running", "done"}

LimiterTypeInvariant ==
  /\ count \in Nat
  /\ pending \in Seq(Callers)
  /\ status \in [Callers -> Statuses]
  /\ releaseCalls \in [Callers -> 0..MaxReleaseCalls]

LimiterInit ==
  /\ count = 0
  /\ pending = <<>>
  /\ status = [c \in Callers |-> "idle"]
  /\ releaseCalls = [c \in Callers |-> 0]

-----------------------------------------------------------------------------
\* Mutated forms of the definitions that follow: the bugs the properties must see.

\* finish() does not hand the slot to the list.
FinishWakesNobody(c) ==
  /\ count' = count - 1
  /\ status' = [status EXCEPT ![c] = "done"]
  /\ UNCHANGED pending

\* finish() resolves the tail of the list instead of its head.
FinishWakesNewest(c) ==
  /\ count' = count - 1
  /\ IF pending = <<>>
       THEN /\ status' = [status EXCEPT ![c] = "done"]
            /\ UNCHANGED pending
       ELSE /\ status' = [status EXCEPT ![c] = "done", ![Last(pending)] = "granted"]
            /\ pending' = Front(pending)

-----------------------------------------------------------------------------
\* acquire(): `count++ < concurrency` decides between running now and queueing.
Acquire(c) ==
  /\ status[c] = "idle"
  /\ count' = count + 1
  /\ IF count < Concurrency
       THEN /\ status' = [status EXCEPT ![c] = "running"]
            /\ UNCHANGED pending
       ELSE /\ status' = [status EXCEPT ![c] = "pending"]
            /\ pending' = Append(pending, c)
  /\ UNCHANGED releaseCalls

\* `release.then(run)`: the microtask of a caller whose promise was resolved.
Resume(c) ==
  /\ status[c] = "granted"
  /\ status' = [status EXCEPT ![c] = "running"]
  /\ UNCHANGED <<count, pending, releaseCalls>>

\* finish(): one call fewer, and the head of the list is let go.
Finish(c) ==
  /\ count' = count - 1
  /\ IF pending = <<>>
       THEN /\ status' = [status EXCEPT ![c] = "done"]
            /\ UNCHANGED pending
       ELSE /\ status' = [status EXCEPT ![c] = "done", ![Head(pending)] = "granted"]
            /\ pending' = Tail(pending)

\* release(): only the first call of one release function reaches finish().
Release(c) ==
  /\ status[c] \in {"running", "done"}
  /\ releaseCalls[c] < MaxReleaseCalls
  /\ releaseCalls' = [releaseCalls EXCEPT ![c] = @ + 1]
  /\ IF releaseCalls[c] = 0
       THEN Finish(c)
       ELSE UNCHANGED <<count, pending, status>>

LimiterNext == \E c \in Callers : Acquire(c) \/ Resume(c) \/ Release(c)

\* A microtask always runs, and the functions under the limiter settle (each is
\* bounded by its own test or hook timeout), so each caller releases its slot.
LimiterFairness == \A c \in Callers : WF_limiterVars(Resume(c)) /\ WF_limiterVars(Release(c))

LimiterSpec == LimiterInit /\ [][LimiterNext]_limiterVars /\ LimiterFairness

-----------------------------------------------------------------------------
Active == {c \in Callers : status[c] \in {"granted", "running"}}

\* The limit: between a release and the moment the next caller resumes, its
\* slot is already spoken for, so a call made in that gap cannot take it.
AtMostConcurrency == Cardinality(Active) <= Concurrency

\* A caller is left waiting only while every slot is taken: no release is lost.
NoIdleSlot == pending # <<>> => Cardinality(Active) = Concurrency

\* Every call is run in the end, in spite of the ones that came before it.
EveryCallRuns == \A c \in Callers : status[c] = "pending" ~> status[c] = "running"

\* The counter and the linked list implement the semaphore.
Abstract == INSTANCE Semaphore
              WITH Limit <- Concurrency, holders <- Active, waiting <- pending
Implements == Abstract!SemSpec
=============================================================================
