-------------------------- MODULE SuiteRunnerProofs --------------------------
(***************************************************************************)
(* Theorems about SuiteRunner, for any tree of suites and tests, any       *)
(* number of retries and repeats and any number of cancels.                *)
(*                                                                         *)
(* The first invariant speaks of one test at a time.  A step is one of     *)
(* that test, or it leaves the loops of the test alone and marks it as     *)
(* skipped at most.  The second is about the tree: what is over has told   *)
(* its suite, and a suite that is over has nothing under it that is not.   *)
(***************************************************************************)
EXTENDS SuiteRunner, SequenceTheorems, FiniteSetTheorems, WellFoundedInduction, TLAPS

States == {"pass", "fail", "skip"}

\* The attempts of the repeat a test is in.
Now(t) == attempts[t][repeatCount[t]]

\* The variables are functions of the tasks and tests.
Domains ==
  /\ DOMAIN phase = Tasks /\ DOMAIN result = Tasks
  /\ DOMAIN repeatCount = Tests /\ DOMAIN retryCount = Tests
  /\ DOMAIN hasFailedRepeat = Tests /\ DOMAIN attempts = Tests

\* The counters are in their bounds.
LoopsBounded(t) ==
  /\ repeatCount[t] \in 0..Repeats[t] /\ retryCount[t] \in 0..Retry[t]
  /\ hasFailedRepeat[t] \in BOOLEAN
  /\ attempts[t] \in [0..Repeats[t] -> Seq(States)]

\* A repeat ends with the first attempt that does not fail.
OnlyLastMayPass(t) ==
  \A r \in 0..Repeats[t] :
    /\ Len(attempts[t][r]) <= 1 + Retry[t]
    /\ \A i \in 1..(Len(attempts[t][r]) - 1) : attempts[t][r][i] = "fail"

\* Repeats come one after the other; those before have passed, or hasFailedRepeat tells.
RepeatsInOrder(t) ==
  \A r \in 0..Repeats[t] :
    /\ r > repeatCount[t] => attempts[t][r] = <<>>
    /\ r < repeatCount[t] => /\ attempts[t][r] # <<>>
                             /\ hasFailedRepeat[t] \/ Last(attempts[t][r]) = "pass"

\* While a test may have another attempt, retryCount counts those of this repeat, which failed.
RetriesCount(t) ==
  phase[t] \in {"idle", "test", "after", "delay"} =>
    Len(Now(t)) = retryCount[t] /\ \A i \in 1..Len(Now(t)) : Now(t)[i] = "fail"

\* A test has passed after its last repeat, and if none of them failed.
PassIsLast(t) ==
  /\ phase[t] = "idle" => result[t] # "pass"
  /\ phase[t] \in {"ending", "done"} /\ result[t] = "pass" =>
       /\ repeatCount[t] = Repeats[t] /\ ~hasFailedRepeat[t]
       /\ Now(t) # <<>> /\ Last(Now(t)) = "pass"

\* An attempt has a result when what comes after it begins.
AfterHasResult(t) == phase[t] = "after" => result[t] \in States

Sound(t) ==
  AfterHasResult(t) /\ LoopsBounded(t) /\ OnlyLastMayPass(t) /\ RepeatsInOrder(t) /\ RetriesCount(t) /\ PassIsLast(t)

\* The inductive invariant.
IInv == Domains /\ \A t \in Tests : Sound(t)

-----------------------------------------------------------------------------
\* The loops of a test stay as they are.
Stays(t) ==
  /\ repeatCount'[t] = repeatCount[t] /\ retryCount'[t] = retryCount[t]
  /\ hasFailedRepeat'[t] = hasFailedRepeat[t] /\ attempts'[t] = attempts[t]

\* A test that goes on to or in an attempt, that is over, or that others mark at most.
LEMMA StaysSound ==
  ASSUME NEW t \in Tests, Sound(t), Stays(t),
         \/ phase[t] \in {"idle", "delay"} /\ phase'[t] = "test"
         \/ phase[t] = "test" /\ phase'[t] = "after" /\ result'[t] \in States
         \/ phase[t] \in {"idle", "ending"} /\ phase'[t] = "done" /\ result'[t] = result[t]
         \/ phase'[t] = phase[t] /\ result'[t] \in {result[t], "skip"}
  PROVE  Sound(t)'
  <1> USE DEF Sound, Stays, Now
  <1>1. LoopsBounded(t)' BY DEF LoopsBounded
  <1>2. OnlyLastMayPass(t)' BY DEF OnlyLastMayPass
  <1>3. RepeatsInOrder(t)' BY DEF RepeatsInOrder
  <1>4. RetriesCount(t)' BY DEF RetriesCount
  <1>5. PassIsLast(t)' BY DEF PassIsLast
  <1>6. AfterHasResult(t)' BY DEF AfterHasResult, States
  <1> QED BY <1>1, <1>2, <1>3, <1>4, <1>5, <1>6

\* What recordAttempt does to the attempts of the test.
LEMMA Recorded ==
  ASSUME NEW t \in Tests, NEW state \in States, Domains, LoopsBounded(t), Record(t, state)
  PROVE  /\ DOMAIN attempts' = Tests
         /\ \A u \in Tests \ {t} : attempts'[u] = attempts[u]
         /\ attempts'[t] \in [0..Repeats[t] -> Seq(States)]
         /\ attempts'[t][repeatCount[t]] = Append(Now(t), state)
         /\ \A r \in 0..Repeats[t] : r # repeatCount[t] => attempts'[t][r] = attempts[t][r]
  <1> USE DEF Domains, LoopsBounded, Record, Now
  <1>1. attempts' = [attempts EXCEPT ![t] = [attempts[t] EXCEPT ![repeatCount[t]] = Append(@, state)]]
    OBVIOUS
  <1>2. Append(Now(t), state) \in Seq(States) OBVIOUS
  <1> QED BY <1>1, <1>2

\* The attempt after retries that failed is the last of the repeat.
LEMMA RecordedOnlyLast ==
  ASSUME NEW t \in Tests, NEW state \in States, Domains, Sound(t), Record(t, state), phase[t] = "after"
  PROVE  /\ OnlyLastMayPass(t)'
         /\ Len(attempts'[t][repeatCount[t]]) = retryCount[t] + 1
         /\ \A i \in 1..retryCount[t] : attempts'[t][repeatCount[t]][i] = "fail"
         /\ attempts'[t][repeatCount[t]] # <<>> /\ Last(attempts'[t][repeatCount[t]]) = state
  <1> DEFINE now == Now(t)  later == attempts'[t][repeatCount[t]]
  <1>1. now \in Seq(States) /\ Len(now) = retryCount[t] /\ \A i \in 1..Len(now) : now[i] = "fail"
    BY DEF Sound, LoopsBounded, RetriesCount, Now
  <1>2. later = Append(now, state) BY Recorded DEF Sound
  <1>3. /\ Len(later) = Len(now) + 1 /\ later[Len(now) + 1] = state
        /\ \A i \in 1..Len(now) : later[i] = now[i]
    BY <1>1, <1>2
  <1>4. later # <<>> /\ Last(later) = state BY <1>1, <1>2, <1>3 DEF Last
  <1>5. retryCount[t] \in 0..Retry[t] /\ repeatCount[t] \in 0..Repeats[t] /\ Retry[t] \in Nat
    BY SuiteAssumption DEF Sound, LoopsBounded
  <1>6. OnlyLastMayPass(t)'
    <2> SUFFICES ASSUME NEW r \in 0..Repeats[t]
                 PROVE  /\ Len(attempts'[t][r]) <= 1 + Retry[t]
                        /\ \A i \in 1..(Len(attempts'[t][r]) - 1) : attempts'[t][r][i] = "fail"
      BY DEF OnlyLastMayPass
    <2>1. CASE r = repeatCount[t]
      <3>1. attempts'[t][r] = later BY <2>1
      <3>2. Len(now) \in Nat BY <1>1
      <3> HIDE DEF now, later
      <3>3. Len(later) <= 1 + Retry[t] BY <1>1, <1>3, <1>5
      <3>4. Len(later) - 1 = Len(now) BY <1>3, <3>2
      <3>5. \A i \in 1..Len(now) : later[i] = "fail" BY <1>1, <1>3
      <3> QED BY <3>1, <3>3, <3>4, <3>5
    <2>2. CASE r # repeatCount[t]
      <3>1. attempts'[t][r] = attempts[t][r] BY <2>2, Recorded DEF Sound
      <3> QED BY <3>1 DEF Sound, OnlyLastMayPass
    <2> QED BY <2>1, <2>2
  <1> QED BY <1>1, <1>3, <1>4, <1>6

-----------------------------------------------------------------------------
\* An attempt that skips the test.
LEMMA AttemptSkipsSound ==
  ASSUME NEW t \in Tests, NEW hookError \in BOOLEAN, Domains, Sound(t), AttemptSkips(t, hookError)
  PROVE  Sound(t)'
  <1> USE SuiteAssumption DEF AttemptSkips, Domains, Tasks
  <1>1. "skip" \in States BY DEF States
  <1>2. phase'[t] = "done" /\ result'[t] = "skip" OBVIOUS
  <1>3. LoopsBounded(t)' BY <1>1, Recorded DEF Sound, LoopsBounded
  <1>4. OnlyLastMayPass(t)' BY <1>1, RecordedOnlyLast
  <1>5. RepeatsInOrder(t)'
    <2> SUFFICES ASSUME NEW r \in 0..Repeats[t], r # repeatCount[t]
                 PROVE  /\ r > repeatCount[t] => attempts'[t][r] = <<>>
                        /\ r < repeatCount[t] => /\ attempts'[t][r] # <<>>
                                                 /\ hasFailedRepeat[t] \/ Last(attempts'[t][r]) = "pass"
      BY DEF RepeatsInOrder, Sound, LoopsBounded
    <2> QED BY <1>1, Recorded DEF Sound, RepeatsInOrder
  <1>6. RetriesCount(t)' BY <1>2 DEF RetriesCount
  <1>7. PassIsLast(t)' BY <1>2 DEF PassIsLast
  <1>8. AfterHasResult(t)' BY <1>2 DEF AfterHasResult
  <1> QED BY <1>3, <1>4, <1>5, <1>6, <1>7, <1>8 DEF Sound

\* An attempt that fails and is followed by another one.
LEMMA AttemptRetriesSound ==
  ASSUME NEW t \in Tests, NEW hookError \in BOOLEAN, NEW syntaxError \in BOOLEAN,
         Domains, Sound(t), AttemptRetries(t, hookError, syntaxError)
  PROVE  Sound(t)'
  <1> USE SuiteAssumption DEF AttemptRetries, Domains, Tasks
  <1>1. "fail" \in States BY DEF States
  <1>2. phase'[t] = "delay" /\ retryCount'[t] = retryCount[t] + 1 /\ retryCount[t] < Retry[t]
    BY DEF MayRetry
  <1>3. LoopsBounded(t)'
    <2>1. repeatCount'[t] \in 0..Repeats[t] /\ hasFailedRepeat'[t] \in BOOLEAN
      BY DEF Sound, LoopsBounded
    <2>2. retryCount'[t] \in 0..Retry[t]
      <3>1. retryCount[t] \in 0..Retry[t] BY DEF Sound, LoopsBounded
      <3>2. Retry[t] \in Nat OBVIOUS
      <3> QED BY ONLY <1>2, <3>1, <3>2
    <2>3. attempts'[t] \in [0..Repeats[t] -> Seq(States)] BY <1>1, Recorded DEF Sound
    <2> QED BY <2>1, <2>2, <2>3 DEF LoopsBounded
  <1>4. OnlyLastMayPass(t)' BY <1>1, RecordedOnlyLast
  <1>5. RepeatsInOrder(t)'
    <2> SUFFICES ASSUME NEW r \in 0..Repeats[t], r # repeatCount[t]
                 PROVE  /\ r > repeatCount[t] => attempts'[t][r] = <<>>
                        /\ r < repeatCount[t] => /\ attempts'[t][r] # <<>>
                                                 /\ hasFailedRepeat[t] \/ Last(attempts'[t][r]) = "pass"
      BY DEF RepeatsInOrder, Sound, LoopsBounded
    <2> QED BY <1>1, Recorded DEF Sound, RepeatsInOrder
  <1>6. RetriesCount(t)'
    <2> DEFINE later == attempts'[t][repeatCount[t]]
    <2>1. /\ Len(later) = retryCount[t] + 1 /\ \A i \in 1..retryCount[t] : later[i] = "fail"
          /\ Last(later) = "fail"
      BY <1>1, RecordedOnlyLast
    <2>2. later[retryCount[t] + 1] = "fail" BY <2>1 DEF Last
    <2>3. retryCount[t] \in Nat BY DEF Sound, LoopsBounded
    <2>4. Now(t)' = later BY DEF Now
    <2> HIDE DEF later
    <2>5. \A i \in 1..Len(later) : later[i] = "fail" BY <2>1, <2>2, <2>3
    <2> QED BY <1>2, <2>1, <2>4, <2>5 DEF RetriesCount
  <1>7. PassIsLast(t)' BY <1>2 DEF PassIsLast
  <1>8. AfterHasResult(t)' BY <1>2 DEF AfterHasResult
  <1> QED BY <1>3, <1>4, <1>5, <1>6, <1>7, <1>8 DEF Sound

\* The last attempt of a repeat.
LEMMA RepeatEndsSound ==
  ASSUME NEW t \in Tests, NEW hookError \in BOOLEAN, NEW syntaxError \in BOOLEAN,
         Domains, Sound(t), RepeatEnds(t, hookError, syntaxError)
  PROVE  Sound(t)'
  <1> DEFINE state == Flipped(t, AfterHooks(t, hookError), syntaxError)
             again == repeatCount[t] < Repeats[t]
             now == repeatCount[t]
             later == attempts'[t][now]
  <1> USE SuiteAssumption DEF Domains, Tasks
  <1>1. state \in States /\ state # "skip"
    BY DEF RepeatEnds, IsPending, Flipped, AfterHooks, Sound, AfterHasResult, States
  <1>2. phase[t] = "after" /\ Record(t, state) BY DEF RepeatEnds
  <1>3. /\ repeatCount[t] \in 0..Repeats[t] /\ Repeats[t] \in Nat
        /\ retryCount[t] \in 0..Retry[t] /\ Retry[t] \in Nat /\ hasFailedRepeat[t] \in BOOLEAN
    BY DEF Sound, LoopsBounded
  <1>4. /\ repeatCount'[t] = IF again THEN now + 1 ELSE now
        /\ retryCount'[t] = IF again THEN 0 ELSE retryCount[t]
        /\ phase'[t] = IF again THEN "test" ELSE "ending"
        /\ hasFailedRepeat'[t] = (hasFailedRepeat[t] \/ state = "fail")
        /\ ~again => result'[t] = IF hasFailedRepeat'[t] THEN "fail" ELSE state
    BY DEF RepeatEnds, FailedRepeat
  <1>5. /\ attempts'[t] \in [0..Repeats[t] -> Seq(States)]
        /\ \A r \in 0..Repeats[t] : r # now => attempts'[t][r] = attempts[t][r]
    BY <1>1, <1>2, Recorded DEF Sound
  <1>6. OnlyLastMayPass(t)' /\ later # <<>> /\ Last(later) = state
    BY <1>1, <1>2, RecordedOnlyLast
  <1> HIDE DEF state, later
  <1>7. LoopsBounded(t)' BY <1>3, <1>4, <1>5 DEF LoopsBounded
  <1>8. RepeatsInOrder(t)'
    <2> SUFFICES ASSUME NEW r \in 0..Repeats[t]
                 PROVE  /\ r > repeatCount'[t] => attempts'[t][r] = <<>>
                        /\ r < repeatCount'[t] => /\ attempts'[t][r] # <<>>
                                                  /\ hasFailedRepeat'[t] \/ Last(attempts'[t][r]) = "pass"
      BY DEF RepeatsInOrder
    <2>1. CASE r = now
      <3>1. attempts'[t][r] = later BY <2>1 DEF later
      <3>2. hasFailedRepeat'[t] \/ Last(later) = "pass" BY <1>1, <1>4, <1>6 DEF States
      <3>3. ~(r > repeatCount'[t]) BY <1>3, <1>4, <2>1
      <3> QED BY <1>6, <3>1, <3>2, <3>3
    <2>2. CASE r # now
      <3>1. attempts'[t][r] = attempts[t][r] BY <1>5, <2>2
      <3>2. /\ r > now => attempts[t][r] = <<>>
            /\ r < now => attempts[t][r] # <<>> /\ (hasFailedRepeat[t] \/ Last(attempts[t][r]) = "pass")
        BY DEF Sound, RepeatsInOrder
      <3> QED BY <1>3, <1>4, <2>2, <3>1, <3>2
    <2> QED BY <2>1, <2>2
  <1>9. RetriesCount(t)'
    <2>1. CASE ~again BY <1>4, <2>1 DEF RetriesCount
    <2>2. CASE again
      <3>1. now + 1 \in 0..Repeats[t] /\ now + 1 > now /\ now + 1 # now BY <1>3, <2>2
      <3>2. attempts'[t][now + 1] = attempts[t][now + 1] BY ONLY <1>5, <3>1
      <3>3. RepeatsInOrder(t) BY DEF Sound
      <3>4. attempts[t][now + 1] = <<>> BY ONLY <3>1, <3>3 DEF RepeatsInOrder
      <3>5. Now(t)' = <<>> BY <1>4, <2>2, <3>2, <3>4 DEF Now
      <3> QED BY <1>4, <2>2, <3>5 DEF RetriesCount
    <2> QED BY <2>1, <2>2
  <1>10. PassIsLast(t)'
    BY <1>3, <1>4, <1>6, <1>7 DEF PassIsLast, Now, later, LoopsBounded
  <1>11. AfterHasResult(t)' BY <1>4 DEF AfterHasResult
  <1> QED BY <1>6, <1>7, <1>8, <1>9, <1>10, <1>11 DEF Sound

-----------------------------------------------------------------------------
\* A step of a suite or a cancel leaves every test sound: it marks it as skipped at most.
LEMMA SuiteIInv == ASSUME NEW s \in Suites, IInv, Suite(s) PROVE IInv'
  <1> USE SuiteAssumption DEF IInv, Tasks, vars, loops
  <1>1. Domains'
    BY DEF Domains, Suite, SuiteStarts, SuiteIsSkipped, BeforeAllPasses, BeforeAllFails, GroupEnds, SuiteEnds
  <1>2. ASSUME NEW t \in Tests
        PROVE  Stays(t) /\ phase'[t] = phase[t] /\ result'[t] \in {result[t], "skip"}
    <2>1. t # s OBVIOUS
    <2> QED
      BY <2>1 DEF Stays, Domains, Suite, SuiteStarts, SuiteIsSkipped, BeforeAllPasses, BeforeAllFails,
                  GroupEnds, SuiteEnds
  <1>3. \A t \in Tests : Sound(t)' BY <1>2, StaysSound
  <1> QED BY <1>1, <1>3

LEMMA CancelIInv == ASSUME IInv, Cancel PROVE IInv'
  <1> USE SuiteAssumption DEF IInv, Tasks, loops
  <1>1. Domains' BY DEF Domains, Cancel
  <1>2. ASSUME NEW t \in Tests
        PROVE  Stays(t) /\ phase'[t] = phase[t] /\ result'[t] \in {result[t], "skip"}
    BY DEF Stays, Domains, Cancel
  <1>3. \A t \in Tests : Sound(t)' BY <1>2, StaysSound
  <1> QED BY <1>1, <1>3

\* A step of a test leaves the others alone.
LEMMA TestIInv == ASSUME NEW t \in Tests, IInv, Test(t) PROVE IInv'
  <1> USE SuiteAssumption DEF IInv, Tasks, loops
  <1>1. Domains'
    BY DEF Domains, Test, TestStarts, TestIsSkipped, TestPasses, DelayEnds, TestEnds, TestThrows,
           AttemptSkips, AttemptRetries, RepeatEnds, Record
  <1>2. ASSUME NEW u \in Tests, u # t PROVE Sound(u)'
    <2>1. Stays(u) /\ phase'[u] = phase[u] /\ result'[u] = result[u]
      BY <1>2 DEF Stays, Domains, Test, TestStarts, TestIsSkipped, TestPasses, DelayEnds, TestEnds,
                  TestThrows, AttemptSkips, AttemptRetries, RepeatEnds, Record
    <2> QED BY <2>1, StaysSound
  <1>3. Sound(t)'
    <2> USE DEF Domains, Stays
    <2>1. CASE TestStarts(t) BY <2>1, StaysSound DEF TestStarts, Turn
    <2>2. CASE TestIsSkipped(t) BY <2>2, StaysSound DEF TestIsSkipped, Turn
    <2>3. CASE TestPasses(t) BY <2>3, StaysSound DEF TestPasses, States
    <2>4. CASE DelayEnds(t) BY <2>4, StaysSound DEF DelayEnds
    <2>5. CASE TestEnds(t) BY <2>5, StaysSound DEF TestEnds
    <2>6. ASSUME NEW error \in {"failure", "skip", "abort"}, TestThrows(t, error) PROVE Sound(t)'
      BY <2>6, StaysSound DEF TestThrows, States
    <2>7. ASSUME NEW hookError \in BOOLEAN, AttemptSkips(t, hookError) PROVE Sound(t)'
      BY <2>7, AttemptSkipsSound
    <2>8. ASSUME NEW hookError \in BOOLEAN, NEW syntaxError \in BOOLEAN, AttemptRetries(t, hookError, syntaxError)
         PROVE  Sound(t)'
      BY <2>8, AttemptRetriesSound
    <2>9. ASSUME NEW hookError \in BOOLEAN, NEW syntaxError \in BOOLEAN, RepeatEnds(t, hookError, syntaxError)
         PROVE  Sound(t)'
      BY <2>9, RepeatEndsSound
    <2> QED BY <2>1, <2>2, <2>3, <2>4, <2>5, <2>6, <2>7, <2>8, <2>9 DEF Test
  <1> QED BY <1>1, <1>2, <1>3

LEMMA InitIInv == Init => IInv
  <1> SUFFICES ASSUME Init PROVE IInv OBVIOUS
  <1> USE SuiteAssumption DEF Init, Tasks
  <1>1. Domains BY DEF Domains
  <1>2. ASSUME NEW t \in Tests PROVE Sound(t)
    <2>1. /\ phase[t] = "idle" /\ result[t] = "none" /\ repeatCount[t] = 0 /\ retryCount[t] = 0
          /\ hasFailedRepeat[t] = FALSE /\ attempts[t] = [r \in 0..Repeats[t] |-> <<>>]
          /\ Repeats[t] \in Nat /\ Retry[t] \in Nat
      OBVIOUS
    <2>2. LoopsBounded(t) BY <2>1 DEF LoopsBounded
    <2>3. OnlyLastMayPass(t) BY <2>1 DEF OnlyLastMayPass
    <2>4. RepeatsInOrder(t) BY <2>1 DEF RepeatsInOrder
    <2>5. RetriesCount(t) BY <2>1 DEF RetriesCount, Now
    <2>6. PassIsLast(t) /\ AfterHasResult(t) BY <2>1 DEF PassIsLast, AfterHasResult
    <2> QED BY <2>2, <2>3, <2>4, <2>5, <2>6 DEF Sound
  <1> QED BY <1>1, <1>2 DEF IInv

LEMMA NextIInv == IInv /\ [Next]_vars => IInv'
  <1> SUFFICES ASSUME IInv, [Next]_vars PROVE IInv' OBVIOUS
  <1>1. CASE \E s \in Suites : Suite(s) BY <1>1, SuiteIInv
  <1>2. CASE \E t \in Tests : Test(t) BY <1>2, TestIInv
  <1>3. CASE Cancel BY <1>3, CancelIInv
  <1>4. CASE UNCHANGED vars
    BY <1>4, ZenonT(60) DEF vars, loops, IInv, Domains, Sound, LoopsBounded, OnlyLastMayPass, RepeatsInOrder,
                RetriesCount, PassIsLast, AfterHasResult, Now
  <1> QED BY <1>1, <1>2, <1>3, <1>4 DEF Next

LEMMA SuiteInvariant == Spec => []IInv
  BY InitIInv, NextIInv, PTL DEF Spec

LEMMA SoundIsEarned == IInv => PassIsEarned
  <1> SUFFICES ASSUME IInv, NEW t \in Tests, NEW r \in 0..Repeats[t]
               PROVE  /\ result[t] = "pass" /\ phase[t] \in {"ending", "done"} =>
                           attempts[t][r] # <<>> /\ Last(attempts[t][r]) = "pass"
                      /\ Len(attempts[t][r]) <= 1 + Retry[t]
                      /\ \A i \in 1..(Len(attempts[t][r]) - 1) : attempts[t][r][i] = "fail"
    BY DEF PassIsEarned
  <1>1. Repeats[t] \in Nat BY SuiteAssumption
  <1>2. OnlyLastMayPass(t) /\ RepeatsInOrder(t) /\ PassIsLast(t) /\ repeatCount[t] \in 0..Repeats[t]
    BY DEF IInv, Sound, LoopsBounded
  <1>3. ASSUME result[t] = "pass", phase[t] \in {"ending", "done"}
        PROVE  attempts[t][r] # <<>> /\ Last(attempts[t][r]) = "pass"
    <2>1. repeatCount[t] = Repeats[t] /\ ~hasFailedRepeat[t] /\ Now(t) # <<>> /\ Last(Now(t)) = "pass"
      BY <1>2, <1>3 DEF PassIsLast
    <2>2. CASE r = repeatCount[t] BY <2>1, <2>2 DEF Now
    <2>3. CASE r < repeatCount[t] BY <1>2, <2>1, <2>3 DEF RepeatsInOrder
    <2> QED BY <1>1, <2>1, <2>2, <2>3
  <1> QED BY <1>2, <1>3 DEF OnlyLastMayPass

\* A test passes only if in every repeat the last attempt has passed, and no repeat goes on after
\* that or beyond its retries: for every tree, every number of repeats and retries, whatever
\* hooks fail and whenever the run is cancelled.
THEOREM SuitePassIsEarned == Spec => []PassIsEarned
  BY SuiteInvariant, SoundIsEarned, PTL

-----------------------------------------------------------------------------
(* The tree below the file.                                                *)

LEMMA ChildrenAre ==
  /\ \A s \in Suites : Children(s) \subseteq Tasks \ {File} /\ \A c \in Children(s) : Parent(c) = s
  /\ \A c \in Tasks \ {File} : Parent(c) \in Suites /\ c \in Children(Parent(c))
  /\ \A s \in Suites : /\ Groups[s] \in Seq(SUBSET (Tasks \ {File})) /\ Groups[s] # <<>>
                       /\ Children(s) = UNION {Groups[s][g] : g \in 1..Len(Groups[s])}
  <1>1. \A s \in Suites : Groups[s] \in Seq(SUBSET (Tasks \ {File})) /\ Groups[s] # <<>>
    BY GroupsAssumption
  <1>2. \A s \in Suites : Children(s) = UNION {Groups[s][g] : g \in 1..Len(Groups[s])}
    BY <1>1 DEF Children, Range
  <1>3. ASSUME NEW s \in Suites PROVE Children(s) \subseteq Tasks \ {File}
    <2>1. \A g \in 1..Len(Groups[s]) : Groups[s][g] \in SUBSET (Tasks \ {File}) BY <1>1
    <2> QED BY <1>2, <2>1
  <1>4. ASSUME NEW c \in Tasks \ {File} PROVE Parent(c) \in Suites /\ c \in Children(Parent(c))
    BY TreeAssumption DEF Parent
  <1>5. ASSUME NEW s \in Suites, NEW c \in Children(s) PROVE Parent(c) = s
    <2>1. Parent(c) \in Suites /\ c \in Children(Parent(c)) BY <1>3, <1>4
    <2>2. Parent(c) # s => Children(Parent(c)) \cap Children(s) = {} BY <2>1, TreeAssumption
    <2> QED BY <2>1, <2>2
  <1> QED BY <1>1, <1>2, <1>3, <1>4, <1>5

\* What Below computes: the sets that are closed under children have a least one.
LEMMA BelowIs ==
  \A s \in Suites : Below[s] = Children(s) \cup UNION {Below[c] : c \in Children(s) \cap Suites}
  <1> DEFINE Closed(s, X) == Children(s) \subseteq X /\ \A d \in X \cap Suites : Children(d) \subseteq X
             B == [s \in Suites |-> {c \in Tasks : \A X \in SUBSET Tasks : Closed(s, X) => c \in X}]
             R(s) == Children(s) \cup UNION {B[c] : c \in Children(s) \cap Suites}
  <1>1. \A s \in Suites : Children(s) \subseteq Tasks BY ChildrenAre
  <1>2. \A s \in Suites : Children(s) \subseteq B[s] /\ B[s] \subseteq Tasks BY <1>1
  <1>3. ASSUME NEW s \in Suites, NEW c \in Children(s) \cap Suites PROVE B[c] \subseteq B[s]
    <2> SUFFICES ASSUME NEW X \in SUBSET Tasks, Closed(s, X) PROVE B[c] \subseteq X OBVIOUS
    <2>1. Closed(c, X) OBVIOUS
    <2> QED BY <2>1
  <1>4. ASSUME NEW c \in Suites, NEW d \in B[c] \cap Suites PROVE Children(d) \subseteq B[c]
    <2> SUFFICES ASSUME NEW X \in SUBSET Tasks, Closed(c, X) PROVE Children(d) \subseteq X
      BY <1>1
    <2> QED OBVIOUS
  <1>5. ASSUME NEW s \in Suites PROVE B[s] = R(s)
    <2> HIDE DEF B
    <2>1. R(s) \subseteq B[s] BY <1>2, <1>3
    <2>2. R(s) \in SUBSET Tasks BY <1>2, <2>1
    <2>3. ASSUME NEW d \in R(s) \cap Suites PROVE Children(d) \subseteq R(s)
      <3>1. CASE d \in Children(s) BY <1>2, <3>1
      <3>2. CASE d \notin Children(s)
        <4>1. PICK c \in Children(s) \cap Suites : d \in B[c] BY <2>3, <3>2
        <4> QED BY <1>4, <4>1
      <3> QED BY <3>1, <3>2
    <2>4. Closed(s, R(s)) BY <2>3
    <2>5. B[s] \subseteq R(s)
      <3> HIDE DEF R, Closed
      <3> QED BY <2>2, <2>4 DEF B
    <2> QED BY <2>1, <2>5
  <1>6. B = [s \in Suites |-> Children(s) \cup UNION {B[c] : c \in Children(s) \cap Suites}]
    <2>1. \A s \in Suites : B[s] = Children(s) \cup UNION {B[c] : c \in Children(s) \cap Suites} BY <1>5
    <2>2. B = [s \in Suites |-> B[s]] OBVIOUS
    <2> HIDE DEF B
    <2> QED BY <2>1, <2>2, Zenon
  <1> HIDE DEF B
  <1>7. Below = [s \in Suites |-> Children(s) \cup UNION {Below[c] : c \in Children(s) \cap Suites}]
    BY <1>6, Zenon DEF Below
  <1> QED BY <1>7, Zenon

\* Suites that are not empty and leave out the file have one whose parent is not among them.
LEMMA Rooted ==
  ASSUME NEW Q \in SUBSET (Suites \ {File}), Q # {}
  PROVE  \E q \in Q : Parent(q) \notin Q
  <1> SUFFICES ASSUME \A q \in Q : Parent(q) \in Q PROVE FALSE OBVIOUS
  <1> DEFINE Bad == {S \in SUBSET Q : S # {} /\ \A q \in S : Parent(q) \in S}
             Sizes == {Cardinality(S) : S \in Bad}
             R == OpToRel(<, Nat)
  <1>1. \A S \in SUBSET Q : IsFiniteSet(S) /\ Cardinality(S) \in Nat
    BY TreeAssumption, FS_Subset, FS_CardinalityType
  <1>2. Sizes \in SUBSET Nat /\ Sizes # {} BY <1>1
  <1>3. PICK n \in Sizes : \A m \in Sizes : ~(m < n)
    <2>1. PICK n \in Sizes : \A m \in Sizes : ~(<<m, n>> \in R)
      BY <1>2, NatLessThanWellFounded, WFMin
    <2> QED BY <1>2, <2>1 DEF OpToRel
  <1>4. PICK S \in Bad : n = Cardinality(S) OBVIOUS
  <1>5. PICK leaf \in S : Children(leaf) \cap S = {}
    BY <1>4, TreeAssumption
  <1>6. \A q \in S : q \in Tasks \ {File} /\ Parent(q) \in S /\ q \in Children(Parent(q)) /\ Parent(q) # leaf
    BY <1>4, <1>5, ChildrenAre DEF Tasks
  <1>7. S \ {leaf} \in Bad
    <2>1. S \ {leaf} # {} BY <1>5, <1>6
    <2> QED BY <1>4, <1>6, <2>1
  <1>8. Cardinality(S \ {leaf}) = Cardinality(S) - 1 BY <1>1, <1>4, <1>5, FS_RemoveElement
  <1>9. Cardinality(S \ {leaf}) \in Sizes /\ n \in Nat BY <1>2, <1>7
  <1>10. n - 1 \in Sizes BY <1>4, <1>8, <1>9
  <1> HIDE DEF Sizes
  <1> QED BY ONLY <1>3, <1>9, <1>10

LEMMA TreeFacts ==
  ASSUME NEW s \in Suites
  PROVE  /\ Below[s] \subseteq Tasks \ {File}
         /\ \A c \in Below[s] : Parent(c) = s \/ Parent(c) \in Below[s]
         /\ \A d \in Below[s] \cap Suites : Below[d] \subseteq Below[s]
  <1> DEFINE Good(a) == /\ Below[a] \subseteq Tasks \ {File}
                        /\ \A c \in Below[a] : Parent(c) = a \/ Parent(c) \in Below[a]
                        /\ \A d \in Below[a] \cap Suites : Below[d] \subseteq Below[a]
             Bad == {a \in Suites : ~Good(a)}
  <1> SUFFICES ASSUME Bad # {} PROVE FALSE OBVIOUS
  <1>1. PICK a \in Bad : Children(a) \cap Bad = {} BY TreeAssumption
  <1>2. /\ a \in Suites /\ \A d \in Children(a) \cap Suites : Good(d)
        /\ Below[a] = Children(a) \cup UNION {Below[d] : d \in Children(a) \cap Suites}
    BY <1>1, BelowIs
  <1>3. Children(a) \subseteq Tasks \ {File} /\ \A c \in Children(a) : Parent(c) = a
    BY <1>2, ChildrenAre
  <1>4. Below[a] \subseteq Tasks \ {File} BY <1>2, <1>3
  <1>5. ASSUME NEW c \in Below[a] PROVE Parent(c) = a \/ Parent(c) \in Below[a]
    <2>1. CASE c \in Children(a) BY <1>3, <2>1
    <2>2. CASE c \notin Children(a)
      <3>1. PICK d \in Children(a) \cap Suites : c \in Below[d] BY <1>2, <2>2
      <3>2. Parent(c) = d \/ Parent(c) \in Below[d] BY <1>2, <3>1
      <3> QED BY <1>2, <3>1, <3>2
    <2> QED BY <2>1, <2>2
  <1>6. ASSUME NEW e \in Below[a] \cap Suites PROVE Below[e] \subseteq Below[a]
    <2>1. CASE e \in Children(a) BY <1>2, <2>1
    <2>2. CASE e \notin Children(a)
      <3>1. PICK d \in Children(a) \cap Suites : e \in Below[d] BY <1>2, <2>2
      <3>2. Below[e] \subseteq Below[d] BY <1>2, <3>1
      <3> QED BY <1>2, <3>1, <3>2
    <2> QED BY <2>1, <2>2
  <1> QED BY <1>1, <1>4, <1>5, <1>6

\* No suite is below itself.
LEMMA NotBelowItself ==
  ASSUME NEW s \in Suites PROVE s \notin Below[s]
  <1> DEFINE Q == {q \in Suites : q \in Below[q]}
  <1> SUFFICES ASSUME Q # {} PROVE FALSE OBVIOUS
  <1>1. Q \in SUBSET (Suites \ {File}) BY TreeFacts
  <1>2. PICK q \in Q : Parent(q) \notin Q BY <1>1, Rooted
  <1>3. Parent(q) \in Suites /\ q \in Children(Parent(q)) BY <1>1, ChildrenAre DEF Tasks
  <1>4. Below[q] \subseteq Below[Parent(q)] BY <1>3, BelowIs
  <1>5. Parent(q) \in Below[q] BY <1>2, TreeFacts
  <1> QED BY <1>2, <1>3, <1>4, <1>5

\* All is below the file.
LEMMA AllBelowFile == Below[File] = Tasks \ {File}
  <1>1. File \in Suites BY SuiteAssumption
  <1>2. \A d \in (Below[File] \cap Suites) \cup {File} : Children(d) \subseteq Below[File]
    BY <1>1, BelowIs, TreeFacts
  <1> DEFINE Q == {q \in Suites \ {File} : q \notin Below[File]}
  <1>3. Q = {}
    <2> SUFFICES ASSUME Q # {} PROVE FALSE OBVIOUS
    <2>1. PICK q \in Q : Parent(q) \notin Q BY Rooted
    <2>2. Parent(q) \in Suites /\ q \in Children(Parent(q)) BY ChildrenAre DEF Tasks
    <2> QED BY <1>2, <2>1, <2>2
  <1>4. ASSUME NEW c \in Tasks \ {File} PROVE c \in Below[File]
    <2>1. Parent(c) \in Suites /\ c \in Children(Parent(c)) BY ChildrenAre
    <2> QED BY <1>2, <1>3, <2>1
  <1> QED BY <1>1, <1>4, TreeFacts

-----------------------------------------------------------------------------
(* What a suite and its hooks do to the tasks below.                       *)

\* No task below a suite has begun before the suite runs its children ...
Untouched ==
  \A s \in Suites : phase[s] \in {"idle", "before"} => \A c \in Below[s] : phase[c] = "idle"

\* ... and none goes on, or begins any more, after them.
AtRest ==
  \A s \in Suites : phase[s] \in {"after", "done"} => \A c \in Below[s] : phase[c] \in {"idle", "done"}

IdleResults == \A c \in Tasks : phase[c] = "idle" => result[c] \in {"none", "skip"}

\* The groups of children run one after another.
GroupsInOrder ==
  /\ DOMAIN group = Suites
  /\ \A s \in Suites : phase[s] \in {"idle", "before"} => group[s] = 1
  /\ \A s \in Suites : phase[s] = "children" =>
       \A g \in 1..(group[s] - 1) : \A c \in Groups[s][g] : phase[c] = "done"

\* Reporters hear of a test when it ends, or when a suite around it does.
Heard ==
  /\ \A t \in Tests : phase[t] = "done" => reported[t] >= 1
  /\ \A s \in Suites : phase[s] \in {"after", "done"} => \A t \in Below[s] \cap Tests : reported[t] >= 1

\* A suite with a hook that failed fails, and one that fails has a reason.
HooksFail == \A s \in hookFailed : result[s] = "fail" /\ phase[s] \in {"after", "done"}
FailuresTold ==
  \A s \in Suites : result[s] = "fail" =>
    hookFailed # {} \/ \E t \in Tests : phase[t] = "done" /\ result[t] = "fail"

\* No cancel takes the mode of the file, which then tells of every failure.
FileFails ==
  /\ phase[File] # "done" => mode[File] = "run"
  /\ phase[File] = "done" /\ (hookFailed # {} \/ \E t \in Tests : result[t] = "fail")
       => result[File] = "fail"

\* The inductive invariant of the tree.
TreeInv ==
  /\ TypeOK /\ Untouched /\ AtRest /\ IdleResults /\ GroupsInOrder /\ Heard
  /\ HooksFail /\ FailuresTold /\ FileFails

-----------------------------------------------------------------------------
\* A task below a suite that rests, or has not begun, cannot have its turn.
LEMMA NoTurnBelow ==
  ASSUME Untouched, AtRest, NEW s \in Suites, phase[s] \in {"idle", "before", "after", "done"},
         NEW c \in Below[s], Turn(c)
  PROVE  FALSE
  <1>1. c # File /\ (Parent(c) = s \/ Parent(c) \in Below[s]) BY TreeFacts
  <1>2. phase[Parent(c)] = "children" BY <1>1 DEF Turn
  <1> QED BY <1>1, <1>2 DEF Untouched, AtRest

\* A step of one task that does not end a suite before what is below it.
Moves(c, v) ==
  /\ phase' = [phase EXCEPT ![c] = v]
  /\ phase[c] # "done" /\ v # "idle" /\ (phase[c] = "idle" => Turn(c))
  /\ c \in Suites =>
       /\ v = "before" => phase[c] = "idle"
       /\ v \in {"after", "done"} => \A d \in Below[c] : phase[d] \in {"idle", "done"}

LEMMA MovesKeep ==
  ASSUME TypeOK, Untouched, AtRest, NEW c \in Tasks, NEW v, Moves(c, v)
  PROVE  Untouched' /\ AtRest'
  <1>1. /\ DOMAIN phase = Tasks /\ phase' = [phase EXCEPT ![c] = v] /\ phase[c] # "done" /\ v # "idle"
        /\ phase[c] = "idle" => Turn(c)
    BY DEF TypeOK, Moves
  <1>2. \A d \in Tasks : d # c => phase'[d] = phase[d] BY <1>1
  <1>3. phase'[c] = v BY <1>1
  <1>4. \A s \in Suites : s \in Tasks /\ Below[s] \subseteq Tasks /\ s \notin Below[s]
    BY TreeFacts, NotBelowItself DEF Tasks
  <1>5. ASSUME NEW s \in Suites, phase'[s] \in {"idle", "before"}, NEW d \in Below[s]
        PROVE  phase'[d] = "idle"
    <2>1. phase[s] \in {"idle", "before"} BY <1>2, <1>3, <1>4, <1>5 DEF Moves
    <2>2. phase[d] = "idle" BY <2>1 DEF Untouched
    <2>3. d # c BY <1>1, <2>1, <2>2, NoTurnBelow
    <2> QED BY <1>2, <1>4, <2>2, <2>3
  <1>6. ASSUME NEW s \in Suites, phase'[s] \in {"after", "done"}, NEW d \in Below[s]
        PROVE  phase'[d] \in {"idle", "done"}
    <2>1. CASE s = c
      <3>1. phase[d] \in {"idle", "done"} BY <1>3, <1>6, <2>1 DEF Moves
      <3> QED BY <1>2, <1>4, <2>1, <3>1
    <2>2. CASE s # c
      <3>1. phase[s] \in {"after", "done"} BY <1>2, <1>4, <1>6, <2>2
      <3>2. phase[d] \in {"idle", "done"} BY <3>1 DEF AtRest
      <3>3. d # c BY <1>1, <3>1, <3>2, NoTurnBelow
      <3> QED BY <1>2, <1>4, <3>2, <3>3
    <2> QED BY <2>1, <2>2
  <1> QED BY <1>5, <1>6 DEF Untouched, AtRest

\* When the file is over nothing goes on.
LEMMA FileIsLast ==
  ASSUME TreeInv, NEW c \in Tasks, phase[c] # "done", phase[c] = "idle" => Turn(c)
  PROVE  phase[File] # "done"
  <1> SUFFICES ASSUME phase[File] = "done" PROVE FALSE OBVIOUS
  <1>1. File \in Suites /\ c \in Below[File] BY SuiteAssumption, AllBelowFile
  <1>2. phase[c] = "idle" BY <1>1 DEF TreeInv, AtRest
  <1> QED BY <1>1, <1>2, NoTurnBelow DEF TreeInv

\* The results that steps change.
LEMMA ReportsMore ==
  ASSUME TypeOK, NEW S, Report(S)
  PROVE  /\ reported' \in [Tests -> Nat] /\ \A t \in Tests : reported'[t] >= reported[t]
         /\ \A t \in S \cap Tests : reported'[t] >= 1
  <1>1. reported \in [Tests -> Nat] BY DEF TypeOK
  <1> QED BY <1>1 DEF Report

\* Every part but the type invariant, for a step of a task that marks no other.
LEMMA MovesKeepTree ==
  ASSUME TreeInv, NEW c \in Tasks, NEW v, Moves(c, v), TypeOK',
         \A d \in Tasks : d # c => result'[d] = result[d] /\ mode'[d] = mode[d],
         hookFailed' = hookFailed \/ (c \in Suites /\ hookFailed' = hookFailed \cup {c}),
         c \in hookFailed' => result'[c] = "fail" /\ v \in {"after", "done"},
         result'[c] = "fail" /\ c \in Suites =>
           hookFailed' # {} \/ \E t \in Tests : phase[t] = "done" /\ result[t] = "fail",
         c = File /\ v # "done" => mode'[File] = "run",
         c = File /\ v = "done" /\ (hookFailed' # {} \/ \E t \in Tests : result[t] = "fail")
           => result'[File] = "fail",
         GroupsInOrder',
         \A t \in Tests : reported'[t] >= reported[t],
         c \in Tests /\ v = "done" => reported'[c] >= 1,
         c \in Suites /\ v \in {"after", "done"} => \A t \in Below[c] \cap Tests : reported'[t] >= 1
  PROVE  TreeInv'
  <1>1. /\ DOMAIN phase = Tasks /\ phase' = [phase EXCEPT ![c] = v] /\ phase[c] # "done" /\ v # "idle"
        /\ phase[c] = "idle" => Turn(c)
    BY DEF TreeInv, TypeOK, Moves
  <1>2. phase'[c] = v /\ \A d \in Tasks : d # c => phase'[d] = phase[d] BY <1>1
  <1>3. /\ File \in Suites /\ Suites \subseteq Tasks /\ Tests \subseteq Tasks
        /\ \A t \in Tests : t \notin Suites
    BY SuiteAssumption DEF Tasks
  <1>4. Untouched' /\ AtRest' BY MovesKeep DEF TreeInv
  <1>5. IdleResults' BY <1>1, <1>2 DEF TreeInv, IdleResults
  <1>6. Heard'
    <2>1. reported' \in [Tests -> Nat] /\ reported \in [Tests -> Nat] BY DEF TreeInv, TypeOK
    <2>2. ASSUME NEW t \in Tests, phase'[t] = "done" PROVE reported'[t] >= 1
      <3>1. CASE t = c BY <1>2, <2>2, <3>1
      <3>2. CASE t # c
        <4>1. reported[t] >= 1 BY <1>2, <1>3, <2>2, <3>2 DEF TreeInv, Heard
        <4>2. reported'[t] >= reported[t] /\ reported[t] \in Nat /\ reported'[t] \in Nat BY <2>1
        <4> QED BY <4>1, <4>2
      <3> QED BY <3>1, <3>2
    <2>3. ASSUME NEW s \in Suites, phase'[s] \in {"after", "done"}, NEW t \in Below[s] \cap Tests
          PROVE  reported'[t] >= 1
      <3>1. CASE s = c BY <1>2, <2>3, <3>1
      <3>2. CASE s # c
        <4>1. reported[t] >= 1 BY <1>2, <1>3, <2>3, <3>2 DEF TreeInv, Heard
        <4>2. reported'[t] >= reported[t] /\ reported[t] \in Nat /\ reported'[t] \in Nat BY <2>1
        <4> QED BY <4>1, <4>2
      <3> QED BY <3>1, <3>2
    <2> QED BY <2>2, <2>3 DEF Heard
  <1>7. HooksFail'
    <2>1. hookFailed \subseteq Tasks BY <1>3 DEF TreeInv, TypeOK
    <2> QED BY <1>2, <2>1 DEF TreeInv, HooksFail
  <1>8. \A t \in Tests : phase[t] = "done" /\ result[t] = "fail" => phase'[t] = "done" /\ result'[t] = "fail"
    BY <1>1, <1>2, <1>3
  <1>9. FailuresTold'
    <2>1. ASSUME NEW s \in Suites, result'[s] = "fail"
          PROVE  hookFailed' # {} \/ \E t \in Tests : phase[t] = "done" /\ result[t] = "fail"
      <3>1. CASE s = c BY <2>1, <3>1
      <3>2. CASE s # c
        <4>1. result[s] = "fail" BY <1>3, <2>1, <3>2
        <4> QED BY <4>1 DEF TreeInv, FailuresTold
      <3> QED BY <3>1, <3>2
    <2> QED BY <1>8, <2>1 DEF FailuresTold
  <1>10. FileFails'
    <2>1. phase[File] # "done" BY <1>1, FileIsLast
    <2>2. CASE c # File BY <1>2, <1>3, <2>1, <2>2 DEF TreeInv, FileFails
    <2>3. CASE c = File
      <3>1. \A t \in Tests : result'[t] = result[t] BY <1>3, <2>3
      <3> QED BY <1>2, <2>3, <3>1 DEF FileFails
    <2> QED BY <2>2, <2>3
  <1> QED BY <1>4, <1>5, <1>6, <1>7, <1>9, <1>10 DEF TreeInv

-----------------------------------------------------------------------------
(* The steps of tests, of suites and of cancels.                           *)

Phases == {"idle", "before", "children", "after", "test", "delay", "ending", "done"}
Results == {"none", "run", "pass", "fail", "skip"}

\* What every step of a test has in common.
TestMoves(t, v) ==
  /\ v \in {"test", "after", "delay", "ending", "done"}
  /\ phase' = [phase EXCEPT ![t] = v] /\ phase[t] # "done" /\ (phase[t] = "idle" => Turn(t))
  /\ \E r \in Results : result' = [result EXCEPT ![t] = r]
  /\ \E m \in {"run", "skip"} : mode' = [mode EXCEPT ![t] = m]
  /\ \E p \in BOOLEAN : pending' = [pending EXCEPT ![t] = p]
  /\ \E f \in BOOLEAN : hasFailedRepeat' = [hasFailedRepeat EXCEPT ![t] = f]
  /\ UNCHANGED <<group, cancelRun, cancels, hookFailed>>
  /\ reported' \in [Tests -> Nat] /\ (v = "done" => reported'[t] >= 1)
  /\ \A u \in Tests : reported'[u] >= reported[u]

LEMMA TestStep ==
  ASSUME IInv, TypeOK, NEW t \in Tests, Test(t)
  PROVE  \E v : TestMoves(t, v)
  <1> DEFINE Same == UNCHANGED <<group, cancelRun, cancels, hookFailed>>
  <1>1. /\ result \in [Tasks -> Results] /\ mode \in [Tasks -> {"run", "skip"}]
        /\ pending \in [Tests -> BOOLEAN] /\ hasFailedRepeat \in [Tests -> BOOLEAN]
        /\ reported \in [Tests -> Nat]
    BY DEF TypeOK, Results
  <1>2. t \in Tasks /\ result[t] \in Results /\ mode[t] \in {"run", "skip"}
        /\ pending[t] \in BOOLEAN /\ hasFailedRepeat[t] \in BOOLEAN
    BY <1>1 DEF Tasks
  <1>3. /\ result' = result => result' = [result EXCEPT ![t] = result[t]]
        /\ mode' = mode => mode' = [mode EXCEPT ![t] = mode[t]]
        /\ pending' = pending => pending' = [pending EXCEPT ![t] = pending[t]]
        /\ hasFailedRepeat' = hasFailedRepeat => hasFailedRepeat' = [hasFailedRepeat EXCEPT ![t] = hasFailedRepeat[t]]
    BY <1>1
  <1>4. /\ result' = result => \E r \in Results : result' = [result EXCEPT ![t] = r]
        /\ mode' = mode => \E m \in {"run", "skip"} : mode' = [mode EXCEPT ![t] = m]
        /\ pending' = pending => \E p \in BOOLEAN : pending' = [pending EXCEPT ![t] = p]
        /\ hasFailedRepeat' = hasFailedRepeat =>
             \E f \in BOOLEAN : hasFailedRepeat' = [hasFailedRepeat EXCEPT ![t] = f]
    BY <1>2, <1>3
  <1>5. reported' = reported =>
          reported' \in [Tests -> Nat] /\ \A u \in Tests : reported'[u] >= reported[u]
    BY <1>1
  <1>6. Report({t}) =>
          /\ reported' \in [Tests -> Nat] /\ reported'[t] >= 1
          /\ \A u \in Tests : reported'[u] >= reported[u]
    BY ReportsMore
  <1>7. CASE TestStarts(t)
    <2>1. TestMoves(t, "test")
      <3>1. /\ phase' = [phase EXCEPT ![t] = "test"] /\ Turn(t) /\ result' = [result EXCEPT ![t] = "run"]
            /\ UNCHANGED <<group, mode, loops, cancelRun, cancels, hookFailed, reported>>
        BY <1>7 DEF TestStarts
      <3>2. phase[t] # "done" /\ \E r \in Results : result' = [result EXCEPT ![t] = r]
        BY <3>1 DEF Turn, Results
      <3> QED BY <1>4, <1>5, <3>1, <3>2 DEF TestMoves, loops
    <2> QED BY <2>1
  <1>8. CASE TestIsSkipped(t)
    <2>1. TestMoves(t, "done")
      BY <1>4, <1>6, <1>8 DEF TestIsSkipped, TestMoves, loops, Turn
    <2> QED BY <2>1
  <1>9. CASE TestPasses(t)
    <2>1. TestMoves(t, "after")
      BY <1>4, <1>5, <1>9 DEF TestPasses, TestMoves, Results, loops
    <2> QED BY <2>1
  <1>10. CASE DelayEnds(t)
    <2>1. TestMoves(t, "test")
      BY <1>4, <1>5, <1>10 DEF DelayEnds, TestMoves, loops
    <2> QED BY <2>1
  <1>11. CASE TestEnds(t)
    <2>1. TestMoves(t, "done")
      BY <1>4, <1>6, <1>11 DEF TestEnds, TestMoves, loops
    <2> QED BY <2>1
  <1>12. ASSUME NEW error \in {"failure", "skip", "abort"}, TestThrows(t, error)
         PROVE  TestMoves(t, "after")
    <2>1. \E r \in Results : result' = [result EXCEPT ![t] = r]
      BY <1>12 DEF TestThrows, Results
    <2>2. \E p \in BOOLEAN : pending' = [pending EXCEPT ![t] = p]
      BY <1>1, <1>2, <1>12 DEF TestThrows
    <2> QED BY <1>4, <1>5, <1>12, <2>1, <2>2 DEF TestThrows, TestMoves
  <1>13. ASSUME NEW hookError \in BOOLEAN, AttemptSkips(t, hookError)
         PROVE  TestMoves(t, "done")
    BY <1>4, <1>6, <1>13 DEF AttemptSkips, TestMoves, Results
  <1>14. ASSUME NEW hookError \in BOOLEAN, NEW syntaxError \in BOOLEAN, AttemptRetries(t, hookError, syntaxError)
         PROVE  TestMoves(t, "delay")
    BY <1>4, <1>5, <1>14 DEF AttemptRetries, TestMoves, Results
  <1>15. ASSUME NEW hookError \in BOOLEAN, NEW syntaxError \in BOOLEAN, RepeatEnds(t, hookError, syntaxError)
         PROVE  \E v : TestMoves(t, v)
    <2> DEFINE state == Flipped(t, AfterHooks(t, hookError), syntaxError)
               again == repeatCount[t] < Repeats[t]
               failed == FailedRepeat(t, state)
    <2>1. state \in Results
      BY <1>2 DEF Flipped, AfterHooks, Results
    <2>2. failed \in BOOLEAN BY <1>2 DEF FailedRepeat
    <2>3. hasFailedRepeat' = [hasFailedRepeat EXCEPT ![t] = failed] BY <1>15 DEF RepeatEnds
    <2>4. result' = [result EXCEPT ![t] = IF again THEN "run" ELSE IF hasFailedRepeat'[t] THEN "fail" ELSE state]
      BY <1>15 DEF RepeatEnds
    <2> HIDE DEF state, again, failed
    <2>5. \E r \in Results : result' = [result EXCEPT ![t] = r]
      <3>1. (IF again THEN "run" ELSE IF hasFailedRepeat'[t] THEN "fail" ELSE state) \in Results
        BY <2>1 DEF Results
      <3> QED BY <2>4, <3>1
    <2>6. TestMoves(t, IF again THEN "test" ELSE "ending")
      BY <1>4, <1>5, <1>15, <2>2, <2>3, <2>5 DEF RepeatEnds, TestMoves, again
    <2> QED BY <2>6
  <1> QED BY <1>7, <1>8, <1>9, <1>10, <1>11, <1>12, <1>13, <1>14, <1>15 DEF Test

LEMMA TestMovesTypes ==
  ASSUME IInv', TypeOK, NEW t \in Tests, NEW v, TestMoves(t, v)
  PROVE  TypeOK'
  <1>1. /\ phase' \in [Tasks -> Phases] /\ mode' \in [Tasks -> {"run", "skip"}]
        /\ result' \in [Tasks -> Results]
        /\ pending' \in [Tests -> BOOLEAN] /\ hasFailedRepeat' \in [Tests -> BOOLEAN]
    BY ZenonT(60) DEF TestMoves, TypeOK, Phases, Results
  <1>2. \A u \in Tests : repeatCount'[u] \in 0..Repeats[u] /\ retryCount'[u] \in 0..Retry[u]
    BY DEF IInv, Sound, LoopsBounded
  <1>3. UNCHANGED <<group, cancelRun, cancels, hookFailed>> /\ reported' \in [Tests -> Nat] BY DEF TestMoves
  <1> QED BY <1>1, <1>2, <1>3 DEF TypeOK, Phases, Results

LEMMA TestKeepsTree ==
  ASSUME IInv, IInv', TreeInv, NEW t \in Tests, Test(t)
  PROVE  TreeInv'
  <1>1. t \in Tasks /\ t \notin Suites /\ t # File BY SuiteAssumption DEF Tasks
  <1>2. TypeOK /\ result \in [Tasks -> Results] /\ mode \in [Tasks -> {"run", "skip"}]
        /\ phase \in [Tasks -> Phases] /\ hookFailed \subseteq Suites
    BY DEF TreeInv, TypeOK, Results, Phases
  <1>3. PICK v : TestMoves(t, v) BY <1>2, TestStep
  <1>4. TypeOK' BY <1>2, <1>3, TestMovesTypes
  <1>5. Moves(t, v) BY <1>1, <1>3 DEF TestMoves, Moves
  <1>6. \A d \in Tasks : d # t => result'[d] = result[d] /\ mode'[d] = mode[d]
    BY <1>2, <1>3 DEF TestMoves
  <1>7. GroupsInOrder'
    <2>1. phase[t] # "done" /\ phase' = [phase EXCEPT ![t] = v] /\ group' = group BY <1>3 DEF TestMoves
    <2>2. \A d \in Tasks : phase[d] = "done" => phase'[d] = "done" BY <1>2, <2>1
    <2>3. \A s \in Suites : s \in Tasks /\ phase'[s] = phase[s] BY <1>1, <1>2, <2>1 DEF Tasks
    <2>4. \A s \in Suites : group[s] \in 1..Len(Groups[s]) BY <1>2 DEF TypeOK
    <2>5. \A s \in Suites : \A g \in 1..(group[s] - 1) : Groups[s][g] \subseteq Tasks
      <3> SUFFICES ASSUME NEW s \in Suites, NEW g \in 1..(group[s] - 1) PROVE Groups[s][g] \subseteq Tasks
        OBVIOUS
      <3>1. Groups[s] \in Seq(SUBSET (Tasks \ {File})) BY ChildrenAre
      <3>2. g \in 1..Len(Groups[s]) BY <2>4, <3>1
      <3> QED BY <3>1, <3>2
    <2> QED BY <2>1, <2>2, <2>3, <2>5 DEF TreeInv, GroupsInOrder
  <1>8. hookFailed' = hookFailed /\ t \notin hookFailed BY <1>1, <1>2, <1>3 DEF TestMoves
  <1>9. /\ \A u \in Tests : reported'[u] >= reported[u]
        /\ v = "done" => reported'[t] >= 1
    BY <1>3 DEF TestMoves
  <1> QED BY <1>1, <1>4, <1>5, <1>6, <1>7, <1>8, <1>9, MovesKeepTree

\* Steps of suites but BeforeAllFails: those that change no phase but that of the suite.
LEMMA SuiteStepTypes ==
  ASSUME TypeOK, NEW s \in Suites, NEW p \in Phases, NEW r \in Results, NEW m \in {"run", "skip"},
         phase' = [phase EXCEPT ![s] = p], result' = [result EXCEPT ![s] = r],
         mode' = [mode EXCEPT ![s] = m], hookFailed' \subseteq Suites, reported' \in [Tests -> Nat],
         \A q \in Suites : group'[q] \in 1..Len(Groups[q]), UNCHANGED <<loops, cancelRun, cancels>>
  PROVE  TypeOK'
  <1>1. /\ phase' \in [Tasks -> Phases] /\ mode' \in [Tasks -> {"run", "skip"}]
        /\ result' \in [Tasks -> Results]
    BY DEF TypeOK, Phases, Results
  <1> QED BY <1>1 DEF TypeOK, Phases, Results, loops

\* The groups are in order if none is opened.
LEMMA MovesGroups ==
  ASSUME TreeInv, NEW s \in Suites, NEW v, phase' = [phase EXCEPT ![s] = v], phase[s] # "done", group' = group,
         v \in {"idle", "before", "children"} => phase[s] \in {"idle", "before"}
  PROVE  GroupsInOrder'
  <1>1. s \in Tasks /\ DOMAIN phase = Tasks BY DEF TreeInv, TypeOK, Tasks
  <1>2. phase'[s] = v /\ \A d \in Tasks : d # s => phase'[d] = phase[d] BY <1>1
  <1>3. \A d \in Tasks : phase[d] = "done" => phase'[d] = "done" BY <1>2
  <1>4. DOMAIN group' = Suites BY DEF TreeInv, GroupsInOrder
  <1>5. \A q \in Suites : phase'[q] \in {"idle", "before"} => group'[q] = 1
    <2>1. \A q \in Suites : q \in Tasks BY DEF Tasks
    <2> QED BY <1>2, <2>1 DEF TreeInv, GroupsInOrder
  <1>6. ASSUME NEW q \in Suites, phase'[q] = "children",
               NEW g \in 1..(group[q] - 1), NEW d \in Groups[q][g]
        PROVE  phase'[d] = "done"
    <2>1. CASE q = s
      <3>1. group[q] = 1 BY <1>2, <1>6, <2>1 DEF TreeInv, GroupsInOrder
      <3> QED BY <1>6, <3>1
    <2>2. CASE q # s
      <3>1. phase[q] = "children" BY <1>2, <1>6, <2>2 DEF Tasks
      <3>2. phase[d] = "done" BY <1>6, <3>1 DEF TreeInv, GroupsInOrder
      <3>3. d \in Tasks
        <4>1. Groups[q] \in Seq(SUBSET (Tasks \ {File})) BY ChildrenAre
        <4>2. group[q] \in 1..Len(Groups[q]) BY DEF TreeInv, TypeOK
        <4>3. g \in 1..Len(Groups[q]) BY <4>1, <4>2
        <4> QED BY <4>1, <4>3
      <3> QED BY <1>3, <3>2, <3>3
    <2> QED BY <2>1, <2>2
  <1> QED BY <1>4, <1>5, <1>6 DEF GroupsInOrder

LEMMA SuiteFacts ==
  ASSUME TreeInv, NEW s \in Suites
  PROVE  /\ s \in Tasks /\ s \notin Tests /\ result[s] \in Results /\ mode[s] \in {"run", "skip"}
         /\ DOMAIN phase = Tasks /\ DOMAIN result = Tasks /\ DOMAIN mode = Tasks
         /\ result = [result EXCEPT ![s] = result[s]] /\ mode = [mode EXCEPT ![s] = mode[s]]
         /\ \A q \in Suites : group[q] \in 1..Len(Groups[q])
         /\ hookFailed \subseteq Suites /\ reported \in [Tests -> Nat]
         /\ \A t \in Tests : reported[t] >= reported[t]
         /\ phase[s] \notin {"after", "done"} => s \notin hookFailed
  <1>1. /\ result \in [Tasks -> Results] /\ mode \in [Tasks -> {"run", "skip"}]
        /\ reported \in [Tests -> Nat] /\ DOMAIN phase = Tasks
    BY DEF TreeInv, TypeOK, Results
  <1>2. s \in Tasks /\ s \notin Tests BY SuiteAssumption DEF Tasks
  <1> QED BY <1>1, <1>2 DEF TreeInv, TypeOK, HooksFail

LEMMA SuiteStartsKeeps == ASSUME TreeInv, NEW s \in Suites, SuiteStarts(s) PROVE TreeInv'
  <1>1. /\ Turn(s) /\ phase[s] = "idle" /\ phase' = [phase EXCEPT ![s] = "before"]
        /\ result' = [result EXCEPT ![s] = "run"]
        /\ UNCHANGED <<group, mode, loops, cancelRun, cancels, hookFailed, reported>>
    BY DEF SuiteStarts, Turn
  <1>2. s \notin hookFailed BY <1>1, SuiteFacts
  <1>3. TypeOK'
    <2>1. "before" \in Phases /\ "run" \in Results BY DEF Phases, Results
    <2> QED BY <1>1, <2>1, SuiteFacts, SuiteStepTypes DEF TreeInv
  <1>4. GroupsInOrder' BY <1>1, MovesGroups
  <1>5. Moves(s, "before") BY <1>1 DEF Moves
  <1>6. result'[s] # "fail" /\ \A d \in Tasks : d # s => result'[d] = result[d]
    BY <1>1, SuiteFacts
  <1>7. s = File => mode'[File] = "run" BY <1>1 DEF TreeInv, FileFails
  <1>8. s \in Tasks /\ s \notin Tests /\ \A t \in Tests : reported'[t] >= reported[t] BY <1>1, SuiteFacts
  <1> QED BY <1>1, <1>2, <1>3, <1>4, <1>5, <1>6, <1>7, <1>8, MovesKeepTree

LEMMA SuiteIsSkippedKeeps == ASSUME TreeInv, NEW s \in Suites, SuiteIsSkipped(s) PROVE TreeInv'
  <1>1. /\ Turn(s) /\ phase[s] = "idle" /\ phase' = [phase EXCEPT ![s] = "done"]
        /\ result' = [result EXCEPT ![s] = "skip"] /\ mode' = [mode EXCEPT ![s] = "skip"]
        /\ Report(Below[s] \cap Tests)
        /\ UNCHANGED <<group, loops, cancelRun, cancels, hookFailed>>
    BY DEF SuiteIsSkipped, Turn, ReportedWith
  <1>2. s \notin hookFailed BY <1>1, SuiteFacts
  <1>3. /\ reported' \in [Tests -> Nat] /\ \A t \in Tests : reported'[t] >= reported[t]
        /\ \A t \in Below[s] \cap Tests : reported'[t] >= 1
    BY <1>1, ReportsMore DEF TreeInv
  <1>4. TypeOK'
    <2>1. "done" \in Phases /\ "skip" \in Results BY DEF Phases, Results
    <2> QED BY <1>1, <1>3, <2>1, SuiteFacts, SuiteStepTypes DEF TreeInv
  <1>5. GroupsInOrder' BY <1>1, MovesGroups
  <1>6. \A d \in Below[s] : phase[d] = "idle" BY <1>1 DEF TreeInv, Untouched
  <1>7. Moves(s, "done") BY <1>1, <1>6 DEF Moves
  <1>8. result'[s] # "fail" /\ \A d \in Tasks : d # s => result'[d] = result[d] /\ mode'[d] = mode[d]
    BY <1>1, SuiteFacts
  <1>9. s = File => hookFailed = {} /\ \A t \in Tests : result[t] # "fail"
    <2> SUFFICES ASSUME s = File PROVE hookFailed = {} /\ \A t \in Tests : result[t] # "fail" OBVIOUS
    <2>1. \A d \in Tasks : phase[d] = "idle" BY <1>1, <1>6, AllBelowFile
    <2>2. \A d \in Tasks : result[d] # "fail" BY <2>1 DEF TreeInv, IdleResults
    <2> QED BY <2>2, SuiteFacts DEF TreeInv, HooksFail, Tasks
  <1>10. s \in Tasks /\ s \notin Tests BY SuiteFacts
  <1> QED BY <1>1, <1>2, <1>3, <1>4, <1>5, <1>7, <1>8, <1>9, <1>10, MovesKeepTree

LEMMA BeforeAllPassesKeeps == ASSUME TreeInv, NEW s \in Suites, BeforeAllPasses(s) PROVE TreeInv'
  <1>1. /\ phase[s] = "before" /\ phase' = [phase EXCEPT ![s] = "children"]
        /\ UNCHANGED <<group, mode, result, loops, cancelRun, cancels, hookFailed, reported>>
    BY DEF BeforeAllPasses
  <1>2. s \notin hookFailed BY <1>1, SuiteFacts
  <1>3. TypeOK'
    <2>1. "children" \in Phases BY DEF Phases
    <2> QED BY <1>1, <2>1, SuiteFacts, SuiteStepTypes DEF TreeInv
  <1>4. GroupsInOrder' BY <1>1, MovesGroups
  <1>5. Moves(s, "children") BY <1>1 DEF Moves
  <1>6. result'[s] = "fail" => hookFailed' # {} \/ \E t \in Tests : phase[t] = "done" /\ result[t] = "fail"
    BY <1>1 DEF TreeInv, FailuresTold
  <1>7. s = File => mode'[File] = "run" BY <1>1 DEF TreeInv, FileFails
  <1>8. s \in Tasks /\ s \notin Tests /\ \A t \in Tests : reported'[t] >= reported[t] BY <1>1, SuiteFacts
  <1> QED BY <1>1, <1>2, <1>3, <1>4, <1>5, <1>6, <1>7, <1>8, MovesKeepTree

LEMMA GroupEndsKeeps == ASSUME TreeInv, NEW s \in Suites, GroupEnds(s) PROVE TreeInv'
  <1>1. /\ phase[s] = "children" /\ GroupIsOver(s)
        /\ UNCHANGED <<mode, result, loops, cancelRun, cancels, hookFailed, reported>>
    BY DEF GroupEnds
  <1>2. group[s] \in 1..Len(Groups[s]) /\ Len(Groups[s]) \in Nat /\ DOMAIN group = Suites
    BY ChildrenAre DEF TreeInv, TypeOK, GroupsInOrder
  <1>3. \A g \in 1..group[s] : \A d \in Groups[s][g] : phase[d] = "done"
    <2> SUFFICES ASSUME NEW g \in 1..group[s], NEW d \in Groups[s][g] PROVE phase[d] = "done" OBVIOUS
    <2>1. CASE g = group[s] BY <1>1, <2>1 DEF GroupIsOver
    <2>2. CASE g # group[s]
      <3>1. g \in 1..(group[s] - 1) BY <1>2, <2>2
      <3> QED BY <1>1, <3>1 DEF TreeInv, GroupsInOrder
    <2> QED BY <2>1, <2>2
  <1>4. CASE IsLastGroup(s)
    <2>1. phase' = [phase EXCEPT ![s] = "after"] /\ group' = group BY <1>4 DEF GroupEnds
    <2>2. \A d \in Children(s) : phase[d] = "done" BY <1>3, <1>4, ChildrenAre DEF IsLastGroup
    <2>3. \A d \in Below[s] : phase[d] \in {"idle", "done"}
      BY <2>2, BelowIs DEF TreeInv, AtRest
    <2>4. \A t \in Below[s] \cap Tests : reported[t] >= 1
      BY <2>2, BelowIs DEF TreeInv, Heard
    <2>5. s \notin hookFailed BY <1>1, SuiteFacts
    <2>6. TypeOK'
      <3>1. "after" \in Phases BY DEF Phases
      <3> QED BY <1>1, <2>1, <3>1, SuiteFacts, SuiteStepTypes DEF TreeInv
    <2>7. GroupsInOrder' BY <1>1, <2>1, MovesGroups
    <2>8. Moves(s, "after") BY <1>1, <2>1, <2>3 DEF Moves
    <2>9. result'[s] = "fail" => hookFailed' # {} \/ \E t \in Tests : phase[t] = "done" /\ result[t] = "fail"
      BY <1>1 DEF TreeInv, FailuresTold
    <2>10. s = File => mode'[File] = "run" BY <1>1 DEF TreeInv, FileFails
    <2>11. s \in Tasks /\ s \notin Tests /\ \A t \in Tests : reported'[t] >= reported[t] BY <1>1, SuiteFacts
    <2> QED BY <1>1, <2>4, <2>5, <2>6, <2>7, <2>8, <2>9, <2>10, <2>11, MovesKeepTree
  <1>5. CASE ~IsLastGroup(s)
    <2>1. phase' = phase /\ group' = [group EXCEPT ![s] = @ + 1] BY <1>5 DEF GroupEnds
    <2>2. group'[s] = group[s] + 1 /\ \A q \in Suites : q # s => group'[q] = group[q] BY <1>2, <2>1
    <2>3. group'[s] \in 1..Len(Groups[s]) BY <1>2, <1>5, <2>2 DEF IsLastGroup
    <2>4. TypeOK'
      <3>1. \A q \in Suites : group'[q] \in 1..Len(Groups[q]) BY <2>2, <2>3, SuiteFacts
      <3> QED BY <1>1, <2>1, <3>1 DEF TreeInv, TypeOK, loops
    <2>5. GroupsInOrder'
      <3>1. DOMAIN group' = Suites BY <1>2, <2>1
      <3>2. group'[s] - 1 = group[s] BY <1>2, <2>2
      <3>3. ASSUME NEW q \in Suites, phase[q] = "children",
                   NEW g \in 1..(group'[q] - 1), NEW d \in Groups[q][g]
            PROVE  phase[d] = "done"
        <4>1. CASE q = s BY <1>3, <3>2, <3>3, <4>1
        <4>2. CASE q # s BY <2>2, <3>3, <4>2 DEF TreeInv, GroupsInOrder
        <4> QED BY <4>1, <4>2
      <3>4. \A q \in Suites : phase[q] \in {"idle", "before"} => group'[q] = 1
        BY <1>1, <2>2 DEF TreeInv, GroupsInOrder
      <3> QED BY <2>1, <3>1, <3>3, <3>4 DEF GroupsInOrder
    <2> QED BY <1>1, <2>1, <2>4, <2>5
         DEF TreeInv, Untouched, AtRest, IdleResults, Heard, HooksFail, FailuresTold, FileFails
  <1> QED BY <1>4, <1>5

LEMMA SuiteEndsKeeps ==
  ASSUME TreeInv, NEW s \in Suites, NEW hookError \in BOOLEAN, SuiteEnds(s, hookError)
  PROVE  TreeInv'
  <1> DEFINE before == IF hookError THEN "fail" ELSE result[s]
             state == EndState(s, before)
  <1>1. /\ phase[s] = "after" /\ phase' = [phase EXCEPT ![s] = "done"]
        /\ hookFailed' = (IF hookError THEN hookFailed \cup {s} ELSE hookFailed)
        /\ result' = [result EXCEPT ![s] = state]
        /\ Report(ReportedWith(s, state))
        /\ UNCHANGED <<group, mode, loops, cancelRun, cancels>>
    BY DEF SuiteEnds
  <1>2. /\ s \in Tasks /\ s \notin Tests /\ result[s] \in Results
        /\ hookFailed \subseteq Suites /\ hookFailed' \subseteq Suites
    BY <1>1, SuiteFacts
  <1>3. state \in Results BY <1>2 DEF EndState, Results
  <1>4. before = "fail" => state = "fail" BY DEF EndState
  <1>5. state = "fail" => before = "fail" \/ HasFailed(s, result)
    BY DEF EndState, SuiteHasFailed
  <1>6. mode[s] = "run" /\ HasFailed(s, result) => state = "fail" BY DEF EndState, SuiteHasFailed
  <1>7. result'[s] = state /\ \A d \in Tasks : d # s => result'[d] = result[d] /\ mode'[d] = mode[d]
    BY <1>1, <1>2, SuiteFacts
  <1>8. /\ reported' \in [Tests -> Nat] /\ reported \in [Tests -> Nat]
        /\ \A t \in Tests : reported'[t] >= reported[t]
    BY <1>1, ReportsMore DEF TreeInv, TypeOK
  <1>9. \A t \in Below[s] \cap Tests : reported'[t] >= 1
    <2>1. \A t \in Below[s] \cap Tests : reported[t] >= 1 BY <1>1 DEF TreeInv, Heard
    <2> SUFFICES ASSUME NEW t \in Below[s] \cap Tests PROVE reported'[t] >= 1 OBVIOUS
    <2>2. reported[t] >= 1 /\ reported'[t] >= reported[t] /\ reported[t] \in Nat /\ reported'[t] \in Nat
      BY <1>8, <2>1
    <2> QED BY <2>2
  <1>10. TypeOK'
    <2>1. "done" \in Phases BY DEF Phases
    <2> HIDE DEF state
    <2> QED BY <1>1, <1>2, <1>3, <1>8, <2>1, SuiteFacts, SuiteStepTypes DEF TreeInv
  <1>11. GroupsInOrder' BY <1>1, MovesGroups
  <1>12. \A d \in Below[s] : phase[d] \in {"idle", "done"} BY <1>1 DEF TreeInv, AtRest
  <1>13. Moves(s, "done") BY <1>1, <1>12 DEF Moves
  <1>14. s \in hookFailed' => before = "fail" BY <1>1 DEF TreeInv, HooksFail
  <1>15. state = "fail" => hookFailed' # {} \/ \E t \in Tests : phase[t] = "done" /\ result[t] = "fail"
    <2>1. CASE hookError BY <1>1, <2>1
    <2>2. CASE result[s] = "fail" BY <1>1, <2>2 DEF TreeInv, FailuresTold
    <2>3. CASE HasFailed(s, result)
      <3>1. PICK c \in Below[s] \cup {s} : result[c] = "fail" BY <2>3 DEF HasFailed
      <3>2. CASE c \in Suites BY <1>1, <3>1, <3>2 DEF TreeInv, FailuresTold
      <3>3. CASE c \notin Suites
        <4>1. c \in Tests /\ c \in Below[s] BY <3>1, <3>3, TreeFacts DEF Tasks
        <4>2. phase[c] # "idle" BY <3>1, <4>1 DEF TreeInv, IdleResults, Tasks
        <4> QED BY <1>12, <3>1, <4>1, <4>2
      <3> QED BY <3>2, <3>3
    <2> QED BY <1>5, <2>1, <2>2, <2>3
  <1>16. s = File /\ (hookFailed' # {} \/ \E t \in Tests : result[t] = "fail") => state = "fail"
    <2> SUFFICES ASSUME s = File, hookFailed' # {} \/ \E t \in Tests : result[t] = "fail", before # "fail"
                 PROVE  HasFailed(s, result) /\ mode[s] = "run"
      BY <1>4, <1>6
    <2>1. mode[s] = "run" BY <1>1 DEF TreeInv, FileFails
    <2>2. \E c \in Tasks : result[c] = "fail"
      <3>1. CASE hookFailed' # {}
        <4>1. hookFailed # {} BY <1>1, <3>1
        <4> QED BY <1>2, <4>1 DEF TreeInv, HooksFail, Tasks
      <3>2. CASE \E t \in Tests : result[t] = "fail" BY <3>2 DEF Tasks
      <3> QED BY <3>1, <3>2
    <2>3. Tasks \subseteq Below[s] \cup {s} BY AllBelowFile
    <2> QED BY <2>1, <2>2, <2>3 DEF HasFailed
  <1> HIDE DEF state, before
  <1>17. hookFailed' = hookFailed \/ hookFailed' = hookFailed \cup {s} BY <1>1
  <1>18. s \in hookFailed' => result'[s] = "fail" BY <1>4, <1>7, <1>14
  <1> QED BY ONLY TreeInv, s \in Suites, <1>2, <1>7, <1>8, <1>9, <1>10, <1>11, <1>13, <1>15, <1>16, <1>17, <1>18,
                  MovesKeepTree

LEMMA BeforeAllFailsKeeps == ASSUME TreeInv, NEW s \in Suites, BeforeAllFails(s) PROVE TreeInv'
  <1>1. /\ phase[s] = "before" /\ phase' = [phase EXCEPT ![s] = "after"]
        /\ hookFailed' = hookFailed \cup {s}
        /\ mode' = [c \in Tasks |-> IF c \in Below[s] THEN "skip" ELSE mode[c]]
        /\ result' = [c \in Tasks |-> IF c = s THEN "fail" ELSE IF c \in Below[s] THEN "skip" ELSE result[c]]
        /\ Report(Below[s] \cap Tests)
        /\ UNCHANGED <<group, loops, cancelRun, cancels>>
    BY DEF BeforeAllFails
  <1>2. \A d \in Below[s] : phase[d] = "idle" BY <1>1 DEF TreeInv, Untouched
  <1>3. /\ reported' \in [Tests -> Nat] /\ reported \in [Tests -> Nat]
        /\ \A t \in Tests : reported'[t] >= reported[t]
        /\ \A t \in Below[s] \cap Tests : reported'[t] >= 1
    BY <1>1, ReportsMore DEF TreeInv, TypeOK
  <1>4. s \in Tasks /\ DOMAIN phase = Tasks /\ phase'[s] = "after" /\ \A d \in Tasks : d # s => phase'[d] = phase[d]
    BY <1>1, SuiteFacts
  <1>5. Suites \subseteq Tasks /\ Tests \subseteq Tasks /\ File \in Suites /\ s \notin Tests
    BY SuiteAssumption DEF Tasks
  <1>6. TypeOK'
    <2>1. /\ phase \in [Tasks -> Phases] /\ mode \in [Tasks -> {"run", "skip"}]
          /\ result \in [Tasks -> Results]
      BY DEF TreeInv, TypeOK, Phases, Results
    <2>2. /\ phase' \in [Tasks -> Phases] /\ mode' \in [Tasks -> {"run", "skip"}]
          /\ result' \in [Tasks -> Results]
      BY <1>1, <2>1 DEF Phases, Results
    <2>3. hookFailed' \subseteq Suites BY <1>1 DEF TreeInv, TypeOK
    <2> QED BY <1>1, <1>3, <2>2, <2>3 DEF TreeInv, TypeOK, Phases, Results, loops
  <1>7. Untouched' /\ AtRest'
    <2>1. Moves(s, "after") BY <1>1, <1>2 DEF Moves
    <2> QED BY <1>4, <2>1, MovesKeep DEF TreeInv
  <1>8. IdleResults' BY <1>1, <1>4 DEF TreeInv, IdleResults
  <1>9. GroupsInOrder' BY <1>1, MovesGroups
  <1>10. Heard'
    <2>1. ASSUME NEW t \in Tests, reported[t] >= 1 PROVE reported'[t] >= 1
      <3>1. reported[t] \in Nat /\ reported'[t] \in Nat /\ reported'[t] >= reported[t] BY <1>3
      <3> QED BY <2>1, <3>1
    <2>2. \A t \in Tests : phase'[t] = "done" => reported'[t] >= 1
      BY <1>4, <1>5, <2>1 DEF TreeInv, Heard
    <2>3. ASSUME NEW q \in Suites, phase'[q] \in {"after", "done"}, NEW t \in Below[q] \cap Tests
          PROVE  reported'[t] >= 1
      <3>1. CASE q = s BY <1>3, <3>1
      <3>2. CASE q # s BY <1>4, <1>5, <2>1, <2>3, <3>2 DEF TreeInv, Heard
      <3> QED BY <3>1, <3>2
    <2> QED BY <2>2, <2>3 DEF Heard
  <1>11. HooksFail'
    <2> SUFFICES ASSUME NEW q \in hookFailed' PROVE result'[q] = "fail" /\ phase'[q] \in {"after", "done"}
      BY DEF HooksFail
    <2>1. CASE q = s BY <1>1, <1>4, <2>1
    <2>2. CASE q # s
      <3>1. q \in Tasks /\ result[q] = "fail" /\ phase[q] \in {"after", "done"}
        BY <1>1, <1>5, <2>2 DEF TreeInv, HooksFail, TypeOK
      <3> QED BY <1>1, <1>2, <1>4, <2>2, <3>1
    <2> QED BY <2>1, <2>2
  <1>12. FailuresTold' BY <1>1 DEF FailuresTold
  <1>13. FileFails'
    <2>1. phase[File] # "done" BY <1>1, <1>4, FileIsLast
    <2>2. File \notin Below[s] BY TreeFacts
    <2> QED BY <1>1, <1>4, <1>5, <2>1, <2>2 DEF TreeInv, FileFails
  <1> QED BY <1>6, <1>7, <1>8, <1>9, <1>10, <1>11, <1>12, <1>13 DEF TreeInv

LEMMA CancelKeeps == ASSUME TreeInv, Cancel PROVE TreeInv'
  <1>0. PICK marked : marked = {c \in Below[File] : Running # {} /\ IsMarked(c)} OBVIOUS
  <1>1. /\ cancels < MaxCancels /\ cancels' = cancels + 1 /\ cancelRun' = TRUE
        /\ mode' = [c \in Tasks |-> IF c \in marked THEN "skip" ELSE mode[c]]
        /\ result' = [c \in Tasks |-> IF c \in marked THEN "skip" ELSE result[c]]
        /\ phase[File] # "done"
        /\ UNCHANGED <<phase, group, loops, hookFailed, reported>>
    BY <1>0 DEF Cancel
  <1>2. Suites \subseteq Tasks /\ Tests \subseteq Tasks /\ File \in Suites /\ File \notin marked
    BY <1>0, SuiteAssumption, AllBelowFile DEF Tasks
  <1>3. \A c \in Tasks : result[c] = "fail" => result'[c] = "fail" BY <1>0, <1>1 DEF IsMarked
  <1>4. \A c \in Tasks : result'[c] \in {result[c], "skip"} BY <1>1
  <1>5. TypeOK'
    <2>1. mode \in [Tasks -> {"run", "skip"}] /\ result \in [Tasks -> Results]
          /\ cancels \in 0..MaxCancels /\ MaxCancels \in Nat
      BY SuiteAssumption DEF TreeInv, TypeOK, Results
    <2>2. mode' \in [Tasks -> {"run", "skip"}] /\ result' \in [Tasks -> Results]
      BY <1>1, <2>1 DEF Results
    <2>3. cancels' \in 0..MaxCancels /\ cancelRun' \in BOOLEAN BY <1>1, <2>1
    <2> QED BY <1>1, <2>2, <2>3 DEF TreeInv, TypeOK, Results, loops
  <1>6. Untouched' /\ AtRest' /\ GroupsInOrder' /\ Heard'
    BY <1>1 DEF TreeInv, Untouched, AtRest, GroupsInOrder, Heard
  <1>7. IdleResults' BY <1>1, <1>4 DEF TreeInv, IdleResults
  <1>8. HooksFail' BY <1>1, <1>2, <1>3 DEF TreeInv, HooksFail, TypeOK
  <1>9. FailuresTold'
    <2>1. \A q \in Suites : result'[q] = "fail" => result[q] = "fail" BY <1>2, <1>4
    <2> QED BY <1>1, <1>2, <1>3, <2>1 DEF TreeInv, FailuresTold
  <1>10. FileFails' BY <1>1, <1>2 DEF TreeInv, FileFails
  <1> QED BY <1>5, <1>6, <1>7, <1>8, <1>9, <1>10 DEF TreeInv

LEMMA InitTree == Init => TreeInv
  <1> SUFFICES ASSUME Init PROVE TreeInv OBVIOUS
  <1>1. /\ phase = [c \in Tasks |-> "idle"] /\ group = [s \in Suites |-> 1]
        /\ mode = [c \in Tasks |-> IF c \in Skipped THEN "skip" ELSE "run"]
        /\ result = [c \in Tasks |-> "none"] /\ hookFailed = {} /\ reported = [t \in Tests |-> 0]
    BY DEF Init
  <1>2. File \in Tasks /\ File \notin Skipped /\ Suites \subseteq Tasks /\ Tests \subseteq Tasks
    BY SuiteAssumption DEF Tasks
  <1>3. TypeOK
    <2>1. \A s \in Suites : 1 \in 1..Len(Groups[s]) BY ChildrenAre
    <2>2. \A t \in Tests : 0 \in 0..Retry[t] /\ 0 \in 0..Repeats[t] BY SuiteAssumption
    <2>3. \A t \in Tests : repeatCount[t] \in 0..Repeats[t] /\ retryCount[t] \in 0..Retry[t]
      BY <2>2 DEF Init
    <2>4. cancelRun \in BOOLEAN /\ cancels \in 0..MaxCancels
      <3>1. cancelRun \in BOOLEAN BY DEF Init
      <3>2. MaxCancels \in Nat BY SuiteAssumption
      <3>3. cancels = 0 BY DEF Init
      <3>4. cancels \in 0..MaxCancels BY ONLY <3>2, <3>3
      <3> QED BY <3>1, <3>4
    <2>5. pending = [t \in Tests |-> FALSE] /\ hasFailedRepeat = [t \in Tests |-> FALSE] BY DEF Init
    <2>6. hasFailedRepeat \in [Tests -> BOOLEAN] /\ pending \in [Tests -> BOOLEAN] BY ONLY <2>5
    <2> QED BY <1>1, <2>1, <2>3, <2>4, <2>6 DEF TypeOK
  <1>4. Untouched
    <2>1. \A s \in Suites : Below[s] \subseteq Tasks BY TreeFacts
    <2> QED BY <1>1, <2>1 DEF Untouched
  <1>5. AtRest /\ Heard /\ FailuresTold /\ HooksFail
    BY <1>1, <1>2 DEF AtRest, Heard, FailuresTold, HooksFail
  <1>6. IdleResults BY <1>1 DEF IdleResults
  <1>7. GroupsInOrder BY <1>1, <1>2 DEF GroupsInOrder
  <1>8. FileFails BY <1>1, <1>2 DEF FileFails
  <1> QED BY <1>3, <1>4, <1>5, <1>6, <1>7, <1>8 DEF TreeInv

LEMMA NextTree == IInv /\ IInv' /\ TreeInv /\ [Next]_vars => TreeInv'
  <1> SUFFICES ASSUME IInv, IInv', TreeInv, [Next]_vars PROVE TreeInv' OBVIOUS
  <1>1. ASSUME NEW s \in Suites, Suite(s) PROVE TreeInv'
    BY <1>1, SuiteStartsKeeps, SuiteIsSkippedKeeps, BeforeAllPassesKeeps, BeforeAllFailsKeeps,
       GroupEndsKeeps, SuiteEndsKeeps DEF Suite
  <1>2. ASSUME NEW t \in Tests, Test(t) PROVE TreeInv' BY <1>2, TestKeepsTree
  <1>3. CASE Cancel BY <1>3, CancelKeeps
  <1>4. CASE UNCHANGED vars
    BY <1>4, ZenonT(60) DEF vars, loops, TreeInv, TypeOK, Untouched, AtRest, IdleResults, GroupsInOrder, Heard,
                HooksFail, FailuresTold, FileFails
  <1> QED BY <1>1, <1>2, <1>3, <1>4 DEF Next

LEMMA TreeInvariant == Spec => []TreeInv
  <1>1. Init => TreeInv BY InitTree
  <1>2. IInv /\ IInv' /\ TreeInv /\ [Next]_vars => TreeInv' BY NextTree
  <1> QED BY <1>1, <1>2, SuiteInvariant, PTL DEF Spec

-----------------------------------------------------------------------------
(* Without a cancel, no test is reported twice.                            *)

\* The test is over, or a suite around it.
Covered(t) == phase[t] = "done" \/ \E s \in Suites : t \in Below[s] /\ phase[s] \in {"after", "done"}

RunningSuites == \A s \in Suites : phase[s] \in {"before", "children", "after"} => mode[s] = "run"
OnceInv ==
  cancels = 0 =>
    /\ RunningSuites
    /\ \A t \in Tests : reported[t] = 0 \/ (reported[t] = 1 /\ Covered(t))

\* Of two suites around a task one is in the other.
LEMMA Nested ==
  ASSUME NEW s \in Suites, NEW q \in Suites, NEW c \in Below[s] \cap Below[q]
  PROVE  s = q \/ s \in Below[q] \/ q \in Below[s]
  <1> SUFFICES ASSUME s # q, s \notin Below[q], q \notin Below[s] PROVE FALSE OBVIOUS
  <1> DEFINE Both == Below[s] \cap Below[q]  Q == Both \cap Suites
  <1>1. ASSUME NEW d \in Both PROVE Parent(d) \in Q
    <2>1. /\ Parent(d) = s \/ Parent(d) \in Below[s]
          /\ Parent(d) = q \/ Parent(d) \in Below[q]
          /\ d \in Tasks \ {File}
      BY TreeFacts
    <2>2. Parent(d) \in Suites BY <2>1, ChildrenAre
    <2> QED BY <2>1, <2>2
  <1>2. Q \in SUBSET (Suites \ {File}) BY TreeFacts
  <1>3. Q # {} BY <1>1
  <1>4. PICK d \in Q : Parent(d) \notin Q BY <1>2, <1>3, Rooted
  <1> QED BY <1>1, <1>4

\* The tests below a suite that has not run its children are over with none.
LEMMA UncoveredBelow ==
  ASSUME TreeInv, NEW s \in Suites, phase[s] \in {"idle", "before"}, phase[s] = "idle" => Turn(s),
         NEW t \in Below[s] \cap Tests
  PROVE  ~Covered(t)
  <1>1. phase[t] = "idle" BY DEF TreeInv, Untouched
  <1>2. ASSUME NEW q \in Suites, t \in Below[q], phase[q] \in {"after", "done"} PROVE FALSE
    <2>1. s = q \/ s \in Below[q] \/ q \in Below[s] BY <1>2, Nested
    <2>2. CASE q \in Below[s] BY <1>2, <2>2 DEF TreeInv, Untouched
    <2>3. CASE s \in Below[q]
      <3>1. phase[s] = "idle" BY <1>2, <2>3 DEF TreeInv, AtRest
      <3> QED BY <1>2, <2>3, <3>1, NoTurnBelow DEF TreeInv
    <2> QED BY <1>2, <2>1, <2>2, <2>3
  <1> QED BY <1>1, <1>2 DEF Covered

\* Neither is a test that is under way, or begins.
LEMMA UncoveredTest ==
  ASSUME TreeInv, NEW t \in Tests, phase[t] # "done", phase[t] = "idle" => Turn(t)
  PROVE  ~Covered(t)
  <1>1. ASSUME NEW q \in Suites, t \in Below[q], phase[q] \in {"after", "done"} PROVE FALSE
    <2>1. phase[t] = "idle" BY <1>1 DEF TreeInv, AtRest
    <2> QED BY <1>1, <2>1, NoTurnBelow DEF TreeInv
  <1> QED BY <1>1 DEF Covered

\* A task that moves on covers what it covered.
LEMMA CoverKept ==
  ASSUME TreeInv, NEW c \in Tasks, NEW v, phase' = [phase EXCEPT ![c] = v],
         phase[c] # "done", c \in Suites /\ phase[c] = "after" => v = "done"
  PROVE  \A t \in Tests : Covered(t) => Covered(t)'
  <1> SUFFICES ASSUME NEW t \in Tests, Covered(t) PROVE Covered(t)' OBVIOUS
  <1>1. DOMAIN phase = Tasks BY DEF TreeInv, TypeOK
  <1>2. \A d \in Tasks : phase'[d] = IF d = c THEN v ELSE phase[d] BY <1>1
  <1>3. t \in Tasks /\ Suites \subseteq Tasks BY DEF Tasks
  <1>4. phase[t] = "done" => phase'[t] = "done" BY <1>2, <1>3
  <1>5. \A s \in Suites : phase[s] \in {"after", "done"} => phase'[s] \in {"after", "done"} BY <1>2, <1>3
  <1> QED BY <1>4, <1>5 DEF Covered

\* A step that reports nothing.
LEMMA QuietKept ==
  ASSUME OnceInv, cancels' = cancels, reported' = reported, cancels = 0 => RunningSuites',
         \A t \in Tests : Covered(t) => Covered(t)'
  PROVE  OnceInv'
  <1> SUFFICES ASSUME cancels = 0, NEW t \in Tests
               PROVE  reported'[t] = 0 \/ (reported'[t] = 1 /\ Covered(t)')
    BY DEF OnceInv
  <1> QED BY DEF OnceInv

\* A step that reports tests of which none was over, and all of which are then.
LEMMA OnceKept ==
  ASSUME TreeInv, OnceInv, cancels' = cancels, cancels = 0 => RunningSuites',
         \A t \in Tests : Covered(t) => Covered(t)', NEW S, Report(S),
         \A t \in S \cap Tests : ~Covered(t) /\ Covered(t)'
  PROVE  OnceInv'
  <1> SUFFICES ASSUME cancels = 0, NEW t \in Tests
               PROVE  reported'[t] = 0 \/ (reported'[t] = 1 /\ Covered(t)')
    BY DEF OnceInv
  <1>1. reported[t] = 0 \/ (reported[t] = 1 /\ Covered(t)) BY DEF OnceInv
  <1>2. reported[t] \in Nat BY DEF TreeInv, TypeOK
  <1>3. reported'[t] = reported[t] + IF t \in S THEN 1 ELSE 0 BY DEF Report
  <1>4. CASE t \in S
    <2>1. reported[t] = 0 /\ Covered(t)' BY <1>1, <1>4
    <2> QED BY <1>3, <1>4, <2>1
  <1>5. CASE t \notin S
    <2>1. reported'[t] = reported[t] BY <1>2, <1>3, <1>5
    <2> QED BY <1>1, <2>1
  <1> QED BY <1>4, <1>5

\* The phase of a suite after the step, and of the tests below.
LEMMA CoveredBy ==
  ASSUME NEW s \in Suites, phase'[s] \in {"after", "done"}
  PROVE  \A t \in Below[s] \cap Tests : Covered(t)'
  BY DEF Covered

LEMMA SuiteOnce ==
  ASSUME TreeInv, TreeInv', OnceInv, NEW s \in Suites, Suite(s) PROVE OnceInv'
  <1>1. /\ DOMAIN phase = Tasks /\ DOMAIN mode = Tasks /\ s \in Tasks /\ Suites \subseteq Tasks
        /\ cancels = 0 => RunningSuites
    BY DEF TreeInv, TypeOK, Tasks, OnceInv
  <1>2. CASE SuiteStarts(s)
    <2>1. /\ phase' = [phase EXCEPT ![s] = "before"] /\ mode' = mode /\ reported' = reported /\ cancels' = cancels
          /\ phase[s] = "idle" /\ mode[s] # "skip"
      BY <1>2 DEF SuiteStarts, Skips, Turn
    <2>2. mode[s] = "run" BY <2>1, SuiteFacts
    <2>3. cancels = 0 => RunningSuites' BY <1>1, <2>1, <2>2 DEF RunningSuites
    <2>4. \A t \in Tests : Covered(t) => Covered(t)' BY <1>1, <2>1, CoverKept
    <2> QED BY <2>1, <2>3, <2>4, QuietKept
  <1>3. CASE SuiteIsSkipped(s)
    <2>1. /\ phase' = [phase EXCEPT ![s] = "done"] /\ mode' = [mode EXCEPT ![s] = "skip"]
          /\ Report(Below[s] \cap Tests) /\ cancels' = cancels /\ phase[s] = "idle" /\ Turn(s)
      BY <1>3 DEF SuiteIsSkipped, Turn, ReportedWith
    <2>2. cancels = 0 => RunningSuites' BY <1>1, <2>1 DEF RunningSuites
    <2>3. phase'[s] = "done" BY <1>1, <2>1
    <2>4. \A t \in (Below[s] \cap Tests) \cap Tests : ~Covered(t) /\ Covered(t)'
      BY <2>1, <2>3, UncoveredBelow, CoveredBy
    <2>5. \A t \in Tests : Covered(t) => Covered(t)' BY <1>1, <2>1, CoverKept
    <2> QED BY <2>1, <2>2, <2>4, <2>5, OnceKept
  <1>4. CASE BeforeAllPasses(s)
    <2>1. /\ phase' = [phase EXCEPT ![s] = "children"] /\ mode' = mode /\ reported' = reported
          /\ cancels' = cancels /\ phase[s] = "before"
      BY <1>4 DEF BeforeAllPasses
    <2>2. cancels = 0 => RunningSuites' BY <1>1, <2>1 DEF RunningSuites
    <2>3. \A t \in Tests : Covered(t) => Covered(t)' BY <1>1, <2>1, CoverKept
    <2> QED BY <2>1, <2>2, <2>3, QuietKept
  <1>5. CASE BeforeAllFails(s)
    <2>1. /\ phase' = [phase EXCEPT ![s] = "after"] /\ cancels' = cancels /\ phase[s] = "before"
          /\ mode' = [c \in Tasks |-> IF c \in Below[s] THEN "skip" ELSE mode[c]]
          /\ Report(Below[s] \cap Tests)
      BY <1>5 DEF BeforeAllFails
    <2>2. cancels = 0 => RunningSuites'
      <3> SUFFICES ASSUME cancels = 0, NEW q \in Suites, phase'[q] \in {"before", "children", "after"}
                   PROVE  mode'[q] = "run"
        BY DEF RunningSuites
      <3>1. q \notin Below[s]
        <4> SUFFICES ASSUME q \in Below[s] PROVE FALSE OBVIOUS
        <4>1. phase[q] = "idle" BY <2>1 DEF TreeInv, Untouched
        <4>2. q # s BY NotBelowItself
        <4> QED BY <1>1, <2>1, <4>1, <4>2
      <3>2. mode[q] = "run" BY <1>1, <2>1 DEF RunningSuites
      <3> QED BY <1>1, <2>1, <3>1, <3>2
    <2>3. phase'[s] = "after" BY <1>1, <2>1
    <2>4. \A t \in (Below[s] \cap Tests) \cap Tests : ~Covered(t) /\ Covered(t)'
      BY <2>1, <2>3, UncoveredBelow, CoveredBy
    <2>5. \A t \in Tests : Covered(t) => Covered(t)' BY <1>1, <2>1, CoverKept
    <2> QED BY <2>1, <2>2, <2>4, <2>5, OnceKept
  <1>6. CASE GroupEnds(s)
    <2>1. /\ mode' = mode /\ reported' = reported /\ cancels' = cancels /\ phase[s] = "children"
          /\ phase' = [phase EXCEPT ![s] = "after"] \/ phase' = phase
      BY <1>6 DEF GroupEnds
    <2>2. cancels = 0 => RunningSuites' BY <1>1, <2>1 DEF RunningSuites
    <2>3. \A t \in Tests : Covered(t) => Covered(t)'
      <3>1. CASE phase' = phase BY <3>1 DEF Covered
      <3>2. CASE phase' = [phase EXCEPT ![s] = "after"] BY <1>1, <2>1, <3>2, CoverKept
      <3> QED BY <2>1, <3>1, <3>2
    <2> QED BY <2>1, <2>2, <2>3, QuietKept
  <1>7. ASSUME NEW hookError \in BOOLEAN, SuiteEnds(s, hookError) PROVE OnceInv'
    <2> DEFINE state == EndState(s, IF hookError THEN "fail" ELSE result[s])
    <2>1. /\ phase' = [phase EXCEPT ![s] = "done"] /\ mode' = mode /\ cancels' = cancels /\ phase[s] = "after"
          /\ Report(ReportedWith(s, state))
      BY <1>7 DEF SuiteEnds
    <2>2. cancels = 0 => RunningSuites' BY <1>1, <2>1 DEF RunningSuites
    <2>3. cancels = 0 => ReportedWith(s, state) = {}
      <3>1. cancels = 0 => mode[s] = "run" BY <1>1, <2>1 DEF RunningSuites
      <3> QED BY <3>1 DEF EndState, ReportedWith
    <2> HIDE DEF state
    <2>4. CASE cancels = 0
      <3>1. \A t \in Tests : Covered(t) => Covered(t)' BY <1>1, <2>1, CoverKept
      <3>2. Report({}) BY <2>1, <2>3, <2>4
      <3>3. \A t \in {} \cap Tests : ~Covered(t) /\ Covered(t)' OBVIOUS
      <3> QED BY <2>1, <2>2, <3>1, <3>2, <3>3, OnceKept
    <2>5. CASE cancels # 0 BY <2>1, <2>5 DEF OnceInv
    <2> QED BY <2>4, <2>5
  <1> QED BY <1>2, <1>3, <1>4, <1>5, <1>6, <1>7 DEF Suite

LEMMA TestReports ==
  ASSUME NEW t \in Tests, Test(t), DOMAIN phase = Tasks
  PROVE  reported' = reported \/ (Report({t}) /\ phase'[t] = "done")
  <1>1. t \in Tasks BY DEF Tasks
  <1> QED BY <1>1 DEF Test, TestStarts, TestIsSkipped, TestPasses, DelayEnds, TestEnds, TestThrows,
                      AttemptSkips, AttemptRetries, RepeatEnds

LEMMA TestOnce ==
  ASSUME IInv, TreeInv, OnceInv, NEW t \in Tests, Test(t) PROVE OnceInv'
  <1>1. t \in Tasks /\ t \notin Suites /\ Suites \subseteq Tasks BY SuiteAssumption DEF Tasks
  <1>2. DOMAIN phase = Tasks /\ DOMAIN mode = Tasks BY DEF TreeInv, TypeOK
  <1>3. PICK v : TestMoves(t, v) BY TestStep DEF TreeInv
  <1>4. /\ phase' = [phase EXCEPT ![t] = v] /\ cancels' = cancels /\ phase[t] # "done"
        /\ phase[t] = "idle" => Turn(t)
    BY <1>3 DEF TestMoves
  <1>5. \A s \in Suites : mode'[s] = mode[s] BY <1>1, <1>2, <1>3 DEF TestMoves
  <1>6. cancels = 0 => RunningSuites' BY <1>1, <1>2, <1>4, <1>5 DEF OnceInv, RunningSuites
  <1>7. \A u \in Tests : Covered(u) => Covered(u)' BY <1>1, <1>4, CoverKept
  <1>8. CASE Report({t}) /\ phase'[t] = "done"
    <2>1. ~Covered(t) BY <1>4, UncoveredTest
    <2>2. Covered(t)' BY <1>8 DEF Covered
    <2> QED BY <1>4, <1>6, <1>7, <1>8, <2>1, <2>2, OnceKept
  <1>9. CASE reported' = reported BY <1>4, <1>6, <1>7, <1>9, QuietKept
  <1> QED BY <1>2, <1>8, <1>9, TestReports

LEMMA OnceInvariant == Spec => []OnceInv
  <1>1. Init => OnceInv
    <2> SUFFICES ASSUME Init PROVE OnceInv OBVIOUS
    <2>1. (\A s \in Suites : phase[s] = "idle") /\ \A t \in Tests : reported[t] = 0 BY DEF Init, Tasks
    <2> QED BY <2>1 DEF OnceInv, RunningSuites
  <1>2. IInv /\ TreeInv /\ TreeInv' /\ OnceInv /\ [Next]_vars => OnceInv'
    <2> SUFFICES ASSUME IInv, TreeInv, TreeInv', OnceInv, [Next]_vars PROVE OnceInv' OBVIOUS
    <2>1. CASE \E s \in Suites : Suite(s) BY <2>1, SuiteOnce
    <2>2. CASE \E t \in Tests : Test(t) BY <2>2, TestOnce
    <2>3. CASE Cancel
      <3>1. cancels \in 0..MaxCancels /\ cancels' = cancels + 1 BY <2>3 DEF Cancel, TreeInv, TypeOK
      <3>2. cancels' # 0 BY <3>1
      <3> QED BY <3>2 DEF OnceInv
    <2>4. CASE UNCHANGED vars BY <2>4 DEF vars, OnceInv, RunningSuites, Covered
    <2> QED BY <2>1, <2>2, <2>3, <2>4 DEF Next
  <1> QED BY <1>1, <1>2, SuiteInvariant, TreeInvariant, PTL DEF Spec

-----------------------------------------------------------------------------
(* Theorems.                                                               *)

\* Every variable has a value of its kind, and repeats, retries and groups keep their bounds.
THEOREM SuiteTypeOK == Spec => []TypeOK
  BY TreeInvariant, PTL DEF TreeInv

\* A file that is over fails exactly if a test in it ended as failed or a hook of a suite in it
\* failed, at any depth, and reporters have heard of every test, once if there was no cancel, for
\* every tree of suites.
THEOREM SuiteFileTellsAll == Spec => []FileTellsAll
  <1>1. TreeInv /\ OnceInv => FileTellsAll
    <2> SUFFICES ASSUME TreeInv, OnceInv, phase[File] = "done"
                 PROVE  /\ result[File] = "fail" <=> hookFailed # {} \/ \E t \in Tests : result[t] = "fail"
                        /\ \A t \in Tests : reported[t] >= 1 /\ (cancels = 0 => reported[t] = 1)
      BY DEF FileTellsAll
    <2>1. File \in Suites /\ \A t \in Tests : t \in Below[File]
      BY SuiteAssumption, AllBelowFile DEF Tasks
    <2>2. \A t \in Tests : reported[t] >= 1 BY <2>1 DEF TreeInv, Heard
    <2>3. result[File] = "fail" => hookFailed # {} \/ \E t \in Tests : result[t] = "fail"
      BY <2>1 DEF TreeInv, FailuresTold
    <2>4. cancels = 0 => \A t \in Tests : reported[t] = 1
      <3> SUFFICES ASSUME cancels = 0, NEW t \in Tests PROVE reported[t] = 1 OBVIOUS
      <3>1. reported[t] = 0 \/ reported[t] = 1 BY DEF OnceInv
      <3>2. reported[t] >= 1 BY <2>2
      <3> QED BY <3>1, <3>2
    <2> QED BY <2>2, <2>3, <2>4 DEF TreeInv, FileFails
  <1> QED BY <1>1, TreeInvariant, OnceInvariant, PTL

\* The result a test ends with is never taken back: not by a cancel, nor by a hook that fails.
THEOREM SuiteResultIsFinal == Spec => ResultIsFinal
  <1>1. TreeInv /\ [Next]_vars =>
          [\A t \in Tests : result[t] \in {"pass", "fail", "skip"} /\ phase[t] \in {"ending", "done"} =>
             result'[t] = result[t]]_vars
    <2> SUFFICES ASSUME TreeInv, Next, NEW t \in Tests,
                        result[t] \in {"pass", "fail", "skip"}, phase[t] \in {"ending", "done"}
                 PROVE  result'[t] = result[t]
      OBVIOUS
    <2>1. t \in Tasks /\ t \notin Suites /\ result \in [Tasks -> Results]
      BY SuiteAssumption DEF TreeInv, TypeOK, Tasks, Results
    <2>2. ASSUME NEW s \in Suites, Suite(s) PROVE result'[t] = result[t]
      <3>1. CASE BeforeAllFails(s)
        <4>1. t \notin Below[s] BY <3>1 DEF BeforeAllFails, TreeInv, Untouched
        <4> QED BY <2>1, <3>1, <4>1 DEF BeforeAllFails
      <3>2. CASE SuiteStarts(s) \/ SuiteIsSkipped(s) \/ BeforeAllPasses(s) \/ GroupEnds(s)
        BY <2>1, <3>2 DEF SuiteStarts, SuiteIsSkipped, BeforeAllPasses, GroupEnds
      <3>3. ASSUME NEW hookError \in BOOLEAN, SuiteEnds(s, hookError) PROVE result'[t] = result[t]
        BY <2>1, <3>3 DEF SuiteEnds
      <3> QED BY <2>2, <3>1, <3>2, <3>3 DEF Suite
    <2>3. ASSUME NEW u \in Tests, Test(u) PROVE result'[t] = result[t]
      <3>1. CASE u = t
        BY <2>3, <3>1 DEF Test, TestStarts, TestIsSkipped, TestPasses, DelayEnds, TestEnds, TestThrows,
                          AttemptSkips, AttemptRetries, RepeatEnds, Turn
      <3>2. CASE u # t
        BY <2>1, <2>3, <3>2 DEF Test, TestStarts, TestIsSkipped, TestPasses, DelayEnds, TestEnds, TestThrows,
                          AttemptSkips, AttemptRetries, RepeatEnds
      <3> QED BY <3>1, <3>2
    <2>4. CASE Cancel BY <2>1, <2>4 DEF Cancel, IsMarked
    <2> QED BY <2>2, <2>3, <2>4 DEF Next
  <1> QED BY <1>1, TreeInvariant, PTL DEF Spec, ResultIsFinal
=============================================================================
