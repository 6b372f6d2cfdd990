----------------------------- MODULE Semaphore -----------------------------
(***************************************************************************)
(* What limitConcurrency (packages/vitest/src/utils/limit-concurrency.ts)  *)
(* promises its callers: at most Limit of them hold a slot, the others     *)
(* wait in arrival order, and a slot is never idle while somebody waits.   *)
(* There is no counter and no release function here.                       *)
(***************************************************************************)
EXTENDS Naturals, Sequences, FiniteSets

CONSTANTS Callers,   \* the calls ever made to one limiter
          Limit      \* the `concurrency` argument

VARIABLES holders,   \* the callers that own a slot
          waiting    \* the callers that were made to wait, oldest first

semVars == <<holders, waiting>>

SemInit == holders = {} /\ waiting = <<>>

\* A free slot is taken at once, and only when nobody is waiting for one.
Enter(c) ==
  /\ Cardinality(holders) < Limit
  /\ waiting = <<>>
  /\ holders' = holders \cup {c}
  /\ UNCHANGED waiting

Wait(c) ==
  /\ Cardinality(holders) = Limit
  /\ waiting' = Append(waiting, c)
  /\ UNCHANGED holders

\* The slot of a leaving caller goes to the longest waiting one in the same step.
Leave(c) ==
  /\ c \in holders
  /\ IF waiting = <<>>
       THEN /\ holders' = holders \ {c}
            /\ UNCHANGED waiting
       ELSE /\ holders' = (holders \ {c}) \cup {Head(waiting)}
            /\ waiting' = Tail(waiting)

SemNext == \E c \in Callers : Enter(c) \/ Wait(c) \/ Leave(c)

SemSpec == SemInit /\ [][SemNext]_semVars
=============================================================================
