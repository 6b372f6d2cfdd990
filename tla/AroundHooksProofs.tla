--------------------------- MODULE AroundHooksProofs ---------------------------
(***************************************************************************)
(* The limiter and the hooks that take their slots from it.                *)
(*                                                                         *)
(* First the limiter: it keeps its limit, wastes no slot and implements    *)
(* the semaphore, for every number of callers and every limit.  Then the   *)
(* hooks: they nest, hold a slot in each phase and leave none behind, for  *)
(* any number of tests and hooks and any limit, as long as a hook waits    *)
(* for its use() (~Abandons): it may hang, throw, time out, or call use()  *)
(* twice or never.                                                         *)
(***************************************************************************)
EXTENDS AroundHooks, ConcurrencyLimiter, FiniteSetTheorems, TLAPS

-----------------------------------------------------------------------------
(* The limiter (ConcurrencyLimiter).                                       *)

\* The counter is what the name says: the slots taken and the calls waiting.
CountIsActivePlusPending == count = Cardinality(Active) + Len(pending)

\* The linked list holds exactly the calls whose promise is pending, once each.
PendingIsTheList ==
  /\ \A i \in 1..Len(pending) : status[pending[i]] = "pending"
  /\ \A i, j \in 1..Len(pending) : pending[i] = pending[j] => i = j

\* `released` is set exactly in the callers that have given their slot back.
ReleasedIsDone == \A c \in Callers : releaseCalls[c] > 0 <=> status[c] = "done"

LimiterIInv ==
  /\ LimiterTypeInvariant
  /\ CountIsActivePlusPending
  /\ PendingIsTheList
  /\ ReleasedIsDone
  /\ AtMostConcurrency
  /\ NoIdleSlot

\* The callers that own a slot are finitely many, so they can be counted.
LEMMA ActiveFinite == IsFiniteSet(Active) /\ Cardinality(Active) \in Nat
  BY CallersAssumption, FS_Subset, FS_CardinalityType, Active \subseteq Callers DEF Active

\* No call has been made: every part of the invariant is empty.
THEOREM InitLimiterIInv == LimiterInit => LimiterIInv
  <1> SUFFICES ASSUME LimiterInit PROVE LimiterIInv OBVIOUS
  <1>1. Active = {} BY DEF LimiterInit, Active
  <1>2. Cardinality(Active) = 0 BY <1>1, FS_EmptySet
  <1> QED BY <1>2, ConcurrencyAssumption
        DEF LimiterInit, LimiterIInv, LimiterTypeInvariant, Statuses, MaxReleaseCalls,
            CountIsActivePlusPending, PendingIsTheList,
            ReleasedIsDone, AtMostConcurrency, NoIdleSlot

\* A call either takes a free slot or joins the end of the list.
LEMMA AcquireIInv == ASSUME LimiterIInv, NEW c \in Callers, Acquire(c) PROVE LimiterIInv'
  <1> USE ConcurrencyAssumption, ActiveFinite DEF LimiterIInv
  <1>0. status[c] = "idle" /\ c \notin Active /\ \A i \in 1..Len(pending) : pending[i] # c
    BY DEF Acquire, Active, PendingIsTheList, LimiterTypeInvariant
  <1>1. CASE count < Concurrency
    <2>1. status' = [status EXCEPT ![c] = "running"] /\ UNCHANGED <<pending, releaseCalls>>
          /\ count' = count + 1
      BY <1>1 DEF Acquire
    <2>2. Active' = Active \cup {c}
      BY <2>1, <1>0 DEF Active, LimiterTypeInvariant
    <2>3. Cardinality(Active') = Cardinality(Active) + 1
      BY <2>2, <1>0, FS_AddElement
    <2>4. LimiterTypeInvariant' BY <2>1 DEF LimiterTypeInvariant, Statuses
    <2>5. Len(pending) \in Nat /\ count \in Int BY DEF LimiterTypeInvariant
    <2>6. pending = <<>>
      BY <1>1, <2>5 DEF CountIsActivePlusPending, NoIdleSlot
    <2>7. ReleasedIsDone' BY <2>1, <1>0 DEF ReleasedIsDone, LimiterTypeInvariant
    <2>8. PendingIsTheList' BY <2>1, <2>6 DEF PendingIsTheList
    <2>9. CountIsActivePlusPending' /\ AtMostConcurrency' /\ NoIdleSlot'
      BY <2>1, <2>3, <2>5, <2>6, <1>1 DEF CountIsActivePlusPending, AtMostConcurrency, NoIdleSlot
    <2> QED BY <2>4, <2>7, <2>8, <2>9
  <1>2. CASE ~(count < Concurrency)
    <2>1. status' = [status EXCEPT ![c] = "pending"] /\ pending' = Append(pending, c)
          /\ UNCHANGED releaseCalls /\ count' = count + 1
      BY <1>2 DEF Acquire
    <2>2. Active' = Active
      BY <2>1, <1>0 DEF Active, LimiterTypeInvariant
    <2>4. LimiterTypeInvariant' BY <2>1 DEF LimiterTypeInvariant, Statuses
    <2>5. Len(pending) \in Nat /\ count \in Int /\ Len(pending') = Len(pending) + 1 /\ pending' # <<>>
      BY <2>1 DEF LimiterTypeInvariant
    <2>6. Cardinality(Active) = Concurrency
      BY <1>2, <2>5 DEF CountIsActivePlusPending, NoIdleSlot, AtMostConcurrency
    <2>7. ReleasedIsDone' BY <2>1, <1>0 DEF ReleasedIsDone, LimiterTypeInvariant
    <2>8. PendingIsTheList' BY <2>1, <1>0 DEF PendingIsTheList, LimiterTypeInvariant
    <2>9. CountIsActivePlusPending' /\ AtMostConcurrency' /\ NoIdleSlot'
      BY <2>1, <2>2, <2>5, <2>6 DEF CountIsActivePlusPending, AtMostConcurrency, NoIdleSlot
    <2> QED BY <2>4, <2>7, <2>8, <2>9
  <1> QED BY <1>1, <1>2

\* A resumed call runs with the slot that was passed on to it.
LEMMA ResumeIInv == ASSUME LimiterIInv, NEW c \in Callers, Resume(c) PROVE LimiterIInv'
  <1>1. Active' = Active BY DEF Resume, Active, LimiterIInv, LimiterTypeInvariant
  <1>2. LimiterTypeInvariant' BY DEF Resume, LimiterIInv, LimiterTypeInvariant, Statuses
  <1>3. PendingIsTheList' BY DEF Resume, LimiterIInv, LimiterTypeInvariant, PendingIsTheList
  <1>4. ReleasedIsDone' BY DEF Resume, LimiterIInv, LimiterTypeInvariant, ReleasedIsDone
  <1> QED BY <1>1, <1>2, <1>3, <1>4
        DEF Resume, LimiterIInv, CountIsActivePlusPending, AtMostConcurrency, NoIdleSlot

\* The first release passes the slot on; a second one finds `released` set.
LEMMA ReleaseIInv == ASSUME LimiterIInv, NEW c \in Callers, Release(c) PROVE LimiterIInv'
  <1> USE ConcurrencyAssumption, ActiveFinite DEF LimiterIInv
  <1>1. CASE releaseCalls[c] > 0
    <2>1. UNCHANGED <<count, pending, status>> /\ releaseCalls' = [releaseCalls EXCEPT ![c] = @ + 1]
      BY <1>1 DEF Release
    <2>2. LimiterTypeInvariant' BY <2>1, <1>1 DEF LimiterTypeInvariant, Release, MaxReleaseCalls
    <2>3. ReleasedIsDone' BY <2>1, <1>1 DEF ReleasedIsDone, LimiterTypeInvariant
    <2> QED BY <2>1, <2>2, <2>3
          DEF CountIsActivePlusPending, PendingIsTheList, AtMostConcurrency, NoIdleSlot, Active
  <1>2. CASE releaseCalls[c] = 0 /\ status[c] = "running"
    <2>0. Finish(c) /\ releaseCalls' = [releaseCalls EXCEPT ![c] = @ + 1] /\ count' = count - 1
      BY <1>2 DEF Release, Finish
    <2>1. c \in Active /\ \A i \in 1..Len(pending) : pending[i] # c
      BY <1>2 DEF Active, PendingIsTheList
    <2>2. Len(pending) \in Nat /\ count \in Int BY DEF LimiterTypeInvariant
    <2>3. IsFiniteSet(Active \ {c}) /\ Cardinality(Active \ {c}) = Cardinality(Active) - 1
      BY <2>1, FS_RemoveElement
    <2>7. count' \in Nat
      BY <2>0, <2>2, <2>3, FS_CardinalityType DEF CountIsActivePlusPending
    <2>4. releaseCalls' \in [Callers -> 0..MaxReleaseCalls]
      BY <2>0, <1>2 DEF LimiterTypeInvariant, MaxReleaseCalls
    <2>5. CASE pending = <<>>
      <3>1. status' = [status EXCEPT ![c] = "done"] /\ pending' = pending
        BY <2>0, <2>5 DEF Finish
      <3>2. Active' = Active \ {c} BY <3>1 DEF Active, LimiterTypeInvariant
      <3>3. LimiterTypeInvariant' BY <2>4, <2>7, <3>1 DEF LimiterTypeInvariant, Statuses
      <3>4. ReleasedIsDone' BY <2>0, <3>1, <1>2 DEF ReleasedIsDone, LimiterTypeInvariant
      <3>5. PendingIsTheList' BY <3>1, <2>5 DEF PendingIsTheList
      <3>6. CountIsActivePlusPending' /\ AtMostConcurrency' /\ NoIdleSlot'
        BY <2>0, <2>2, <2>3, <2>5, <3>1, <3>2
           DEF CountIsActivePlusPending, AtMostConcurrency, NoIdleSlot
      <3> QED BY <3>3, <3>4, <3>5, <3>6
    <2>6. CASE pending # <<>>
      <3> DEFINE h == Head(pending)
      <3>1. status' = [status EXCEPT ![c] = "done", ![h] = "granted"] /\ pending' = Tail(pending)
        BY <2>0, <2>6 DEF Finish
      <3>2. h = pending[1] /\ h \in Callers /\ Len(pending) \in Nat \ {0} /\ 1 \in 1..Len(pending)
            /\ Len(pending') = Len(pending) - 1 /\ \A i \in 1..Len(pending') : pending'[i] = pending[i+1]
        BY <2>6, <3>1 DEF LimiterTypeInvariant
      <3>3. h # c /\ status[h] = "pending" /\ h \notin Active
        BY <3>2, <2>1 DEF PendingIsTheList, Active
      <3>4. Active' = (Active \ {c}) \cup {h}
        BY <3>1, <3>2, <3>3 DEF Active, LimiterTypeInvariant
      <3>5. Cardinality(Active') = Cardinality(Active)
        <4>1. h \notin Active \ {c} BY <3>3
        <4>2. Cardinality((Active \ {c}) \cup {h}) = Cardinality(Active \ {c}) + 1
          BY <4>1, <2>3, FS_AddElement
        <4> QED BY <4>2, <3>4, <2>3
      <3>6. status' \in [Callers -> Statuses] BY <3>1 DEF LimiterTypeInvariant, Statuses
      <3>7. LimiterTypeInvariant' BY <2>4, <2>7, <3>1, <3>6, <2>6 DEF LimiterTypeInvariant
      <3>8. ReleasedIsDone' BY <2>0, <3>1, <3>2, <3>3, <1>2 DEF ReleasedIsDone, LimiterTypeInvariant
      <3>9. PendingIsTheList'
        <4>1. \A i \in 1..Len(pending') : i + 1 \in 1..Len(pending) /\ pending'[i] = pending[i+1]
          BY <3>2
        <4>2. \A i \in 1..Len(pending') : pending'[i] # h /\ pending'[i] # c
          BY <4>1, <3>2, <2>1 DEF PendingIsTheList
        <4>3. \A i \in 1..Len(pending') : pending'[i] \in Callers
          BY <3>7 DEF LimiterTypeInvariant
        <4>4. \A i \in 1..Len(pending') : status'[pending'[i]] = "pending"
          BY <4>1, <4>2, <4>3, <3>1 DEF PendingIsTheList, LimiterTypeInvariant
        <4>5. \A i, j \in 1..Len(pending') : pending'[i] = pending'[j] => i = j
          BY <4>1 DEF PendingIsTheList
        <4> QED BY <4>4, <4>5 DEF PendingIsTheList
      <3>10. CountIsActivePlusPending' /\ AtMostConcurrency' /\ NoIdleSlot'
        BY <2>0, <2>2, <2>6, <3>2, <3>5 DEF CountIsActivePlusPending, AtMostConcurrency, NoIdleSlot
      <3> QED BY <3>7, <3>8, <3>9, <3>10
    <2> QED BY <2>5, <2>6
  <1>3. releaseCalls[c] \in Nat /\ status[c] \in {"running", "done"}
    BY DEF Release, LimiterTypeInvariant, MaxReleaseCalls
  <1>4. releaseCalls[c] > 0 \/ (releaseCalls[c] = 0 /\ status[c] = "running")
    BY <1>3 DEF ReleasedIsDone
  <1> QED BY <1>1, <1>2, <1>4

\* Every operation of the limiter, acquire, the microtask that resumes a call and release,
\* preserves the invariant.
THEOREM NextLimiterIInv == LimiterIInv /\ [LimiterNext]_limiterVars => LimiterIInv'
  <1> SUFFICES ASSUME LimiterIInv, [LimiterNext]_limiterVars PROVE LimiterIInv' OBVIOUS
  <1>1. ASSUME NEW c \in Callers, Acquire(c) PROVE LimiterIInv' BY <1>1, AcquireIInv
  <1>2. ASSUME NEW c \in Callers, Resume(c) PROVE LimiterIInv' BY <1>2, ResumeIInv
  <1>3. ASSUME NEW c \in Callers, Release(c) PROVE LimiterIInv' BY <1>3, ReleaseIInv
  <1>4. CASE UNCHANGED limiterVars
    BY <1>4 DEF limiterVars, LimiterIInv, LimiterTypeInvariant, CountIsActivePlusPending,
                PendingIsTheList, ReleasedIsDone,
                AtMostConcurrency, NoIdleSlot, Active
  <1> QED BY <1>1, <1>2, <1>3, <1>4 DEF LimiterNext

\* The variables keep their types in every behaviour of the limiter.
THEOREM LimiterTypeOK == LimiterSpec => []LimiterTypeInvariant
  <1>1. LimiterIInv => LimiterTypeInvariant BY DEF LimiterIInv
  <1> QED BY <1>1, InitLimiterIInv, NextLimiterIInv, PTL DEF LimiterSpec

\* The limit holds, whatever the number of callers, the limit and the order of calls,
\* microtasks and releases.
THEOREM LimiterSafe == LimiterSpec => []AtMostConcurrency
  <1>1. LimiterIInv => AtMostConcurrency BY DEF LimiterIInv
  <1> QED BY <1>1, InitLimiterIInv, NextLimiterIInv, PTL DEF LimiterSpec

\* No slot is idle while a call waits: a release wakes a call, also a release that comes
\* between the wake-up of another one and its microtask.
THEOREM LimiterWakes == LimiterSpec => []NoIdleSlot
  <1>1. LimiterIInv => NoIdleSlot BY DEF LimiterIInv
  <1> QED BY <1>1, InitLimiterIInv, NextLimiterIInv, PTL DEF LimiterSpec

\* The semaphore counts its holders with the same operator.
LEMMA SameCardinality == \A S : Abstract!Cardinality(S) = Cardinality(S)
  BY DEF Abstract!Cardinality, Cardinality

\* A call that finds count < concurrency enters the semaphore, any other one waits in line.
LEMMA AcquireRefines ==
  ASSUME LimiterIInv, NEW c \in Callers, Acquire(c)
  PROVE  Abstract!Enter(c) \/ Abstract!Wait(c)
  <1> USE ConcurrencyAssumption, ActiveFinite DEF LimiterIInv
  <1>0. /\ status[c] = "idle" /\ c \notin Active
        /\ Len(pending) \in Nat /\ count \in Int
    BY DEF Acquire, Active, LimiterTypeInvariant
  <1>1. CASE count < Concurrency
    <2>1. status' = [status EXCEPT ![c] = "running"] /\ pending' = pending
      BY <1>1 DEF Acquire
    <2>2. Active' = Active \cup {c}
      BY <2>1, <1>0 DEF Active, LimiterTypeInvariant
    <2>3. pending = <<>> /\ Cardinality(Active) < Concurrency
      BY <1>0, <1>1 DEF CountIsActivePlusPending, NoIdleSlot
    <2> QED BY <2>1, <2>2, <2>3, SameCardinality DEF Abstract!Enter
  <1>2. CASE ~(count < Concurrency)
    <2>1. status' = [status EXCEPT ![c] = "pending"] /\ pending' = Append(pending, c)
      BY <1>2 DEF Acquire
    <2>2. Active' = Active
      BY <2>1, <1>0 DEF Active, LimiterTypeInvariant
    <2>3. Cardinality(Active) = Concurrency
      BY <1>0, <1>2 DEF CountIsActivePlusPending, NoIdleSlot, AtMostConcurrency
    <2> QED BY <2>1, <2>2, <2>3, SameCardinality DEF Abstract!Wait
  <1> QED BY <1>1, <1>2

\* The first release of a call hands its slot to the call that waits longest; the semaphore
\* does not see a second one, nor the microtask of the call that was given the slot.
LEMMA ReleaseRefines ==
  ASSUME LimiterIInv, NEW c \in Callers, Release(c)
  PROVE  Abstract!Leave(c) \/ UNCHANGED <<Active, pending>>
  <1> USE DEF LimiterIInv
  <1>1. CASE releaseCalls[c] > 0
    BY <1>1 DEF Release, Active
  <1>2. CASE releaseCalls[c] = 0 /\ status[c] = "running"
    <2>1. Finish(c) /\ c \in Active
      BY <1>2 DEF Release, Active
    <2>2. CASE pending = <<>>
      <3>1. status' = [status EXCEPT ![c] = "done"] /\ pending' = pending
        BY <2>1, <2>2 DEF Finish
      <3>2. Active' = Active \ {c}
        BY <3>1 DEF Active, LimiterTypeInvariant
      <3> QED BY <2>1, <2>2, <3>1, <3>2 DEF Abstract!Leave
    <2>3. CASE pending # <<>>
      <3> DEFINE h == Head(pending)
      <3>1. status' = [status EXCEPT ![c] = "done", ![h] = "granted"] /\ pending' = Tail(pending)
        BY <2>1, <2>3 DEF Finish
      <3>2. h = pending[1] /\ h \in Callers /\ 1 \in 1..Len(pending)
        BY <2>3 DEF LimiterTypeInvariant
      <3>3. status[h] = "pending" /\ h # c
        BY <3>2, <1>2 DEF PendingIsTheList
      <3>4. Active' = (Active \ {c}) \cup {h}
        BY <3>1, <3>2, <3>3 DEF Active, LimiterTypeInvariant
      <3> QED BY <2>1, <2>3, <3>1, <3>4 DEF Abstract!Leave
    <2> QED BY <2>2, <2>3
  <1>3. releaseCalls[c] \in Nat /\ status[c] \in {"running", "done"}
    BY DEF Release, LimiterTypeInvariant, MaxReleaseCalls
  <1>4. releaseCalls[c] > 0 \/ (releaseCalls[c] = 0 /\ status[c] = "running")
    BY <1>3 DEF ReleasedIsDone
  <1> QED BY <1>1, <1>2, <1>4

\* The counter and the linked list implement the semaphore: first come, first served, with
\* no slot handed out twice, for every number of calls and every limit.
THEOREM LimiterImplements == LimiterSpec => Implements
  <1>1. LimiterInit => Abstract!SemInit
    BY DEF LimiterInit, Abstract!SemInit, Active
  <1>2. LimiterIInv /\ [LimiterNext]_limiterVars => [Abstract!SemNext]_<<Active, pending>>
    <2> SUFFICES ASSUME LimiterIInv, [LimiterNext]_limiterVars PROVE [Abstract!SemNext]_<<Active, pending>>
      OBVIOUS
    <2>1. ASSUME NEW c \in Callers, Acquire(c) PROVE Abstract!SemNext
      BY <2>1, AcquireRefines DEF Abstract!SemNext
    <2>2. ASSUME NEW c \in Callers, Resume(c) PROVE UNCHANGED <<Active, pending>>
      BY <2>2 DEF Resume, Active, LimiterIInv, LimiterTypeInvariant
    <2>3. ASSUME NEW c \in Callers, Release(c) PROVE [Abstract!SemNext]_<<Active, pending>>
      BY <2>3, ReleaseRefines DEF Abstract!SemNext
    <2>4. CASE UNCHANGED limiterVars
      BY <2>4 DEF limiterVars, Active
    <2> QED BY <2>1, <2>2, <2>3, <2>4 DEF LimiterNext
  <1> QED BY <1>1, <1>2, InitLimiterIInv, NextLimiterIInv, PTL
        DEF LimiterSpec, Implements, Abstract!SemSpec, Abstract!semVars

-----------------------------------------------------------------------------
(* The hooks (AroundHooks): names of frames and claims.                     *)

\* A hook is a frame, and so is the next one inside, another one.
LEMMA InnerFrame ==
  ASSUME NEW h \in Hooks
  PROVE  /\ h \in Frames /\ Inner(h) \in Frames /\ Inner(h) # h
         /\ Inner(h)[1] = h[1] /\ Inner(h)[2] = h[2] + 1 /\ h[2] \in Nat
         /\ h[2] # Inside
         /\ \A f \in Frames : f[1] = h[1] /\ f[2] = h[2] + 1 => f = Inner(h)
  BY AroundAssumption DEF Hooks, Frames, Inner, Levels, Inside

\* A frame that is not what is inside is a hook, and levels are numbers.
LEMMA FrameLevels ==
  ASSUME NEW f \in Frames
  PROVE  /\ f[1] \in Tests /\ f[2] \in Nat
         /\ f[2] # Inside => f \in Hooks
         /\ f[2] <= Inside
  BY AroundAssumption DEF Hooks, Frames, Levels, Inside

\* Frames at different levels are different.
LEMMA InnerInjective ==
  ASSUME NEW g \in Hooks, NEW h \in Hooks, Inner(g) = Inner(h) PROVE g = h
  BY AroundAssumption DEF Hooks, Inner, Levels

\* A frame's claim names the frame and the phase.
LEMMA ClaimsDiffer ==
  ASSUME NEW f, NEW g
  PROVE  /\ Setup(f) = Setup(g) => f = g
         /\ Teardown(f) = Teardown(g) => f = g
         /\ Setup(f) # Teardown(g)
         /\ Setup(f)[1] = f /\ Teardown(f)[1] = f
  BY DEF Setup, Teardown

-----------------------------------------------------------------------------
(* The limiter as a value, as the hooks see it.                            *)

SlotsOK(s) ==
  /\ s \in [holders : SUBSET Claims, waiting : Seq(Claims)]
  /\ IsFiniteSet(s.holders) /\ Cardinality(s.holders) <= MaxConcurrency
  /\ s.holders \cap Range(s.waiting) = {}
  /\ \A i, j \in 1..Len(s.waiting) : s.waiting[i] = s.waiting[j] => i = j

\* Who has a slot or waits for one.
Asked(s) == s.holders \cup Range(s.waiting)

\* Who asks for a slot has it or waits for it, and takes it from nobody.
LEMMA AcquireSlots ==
  ASSUME NEW s, SlotsOK(s), NEW c \in Claims, c \notin Asked(s)
  PROVE  /\ SlotsOK(Acquired(s, c))
         /\ Asked(Acquired(s, c)) = Asked(s) \cup {c}
         /\ s.holders \subseteq Acquired(s, c).holders
<1>1. CASE Cardinality(s.holders) < MaxConcurrency
  <2>1. Acquired(s, c) = [holders |-> s.holders \cup {c}, waiting |-> s.waiting]
    BY <1>1 DEF Acquired, SlotsOK
  <2>2. IsFiniteSet(s.holders \cup {c}) /\ Cardinality(s.holders \cup {c}) = Cardinality(s.holders) + 1
    BY FS_AddElement DEF SlotsOK, Asked
  <2>3. Cardinality(s.holders) \in Nat BY FS_CardinalityType DEF SlotsOK
  <2> QED BY <1>1, <2>1, <2>2, <2>3, AroundAssumption DEF SlotsOK, Asked
<1>2. CASE ~(Cardinality(s.holders) < MaxConcurrency)
  <2>1. Acquired(s, c) = [holders |-> s.holders, waiting |-> Append(s.waiting, c)]
    BY <1>2 DEF Acquired, SlotsOK
  <2>2. Append(s.waiting, c) \in Seq(Claims) /\ s.waiting \in Seq(Claims) BY DEF SlotsOK
  <2>3. Range(Append(s.waiting, c)) = Range(s.waiting) \cup {c}
    <3>1. DOMAIN s.waiting = 1..Len(s.waiting) /\ Len(s.waiting) \in Nat BY <2>2
    <3>2. DOMAIN Append(s.waiting, c) = 1..Len(s.waiting) + 1
          /\ \A i \in 1..Len(s.waiting) : Append(s.waiting, c)[i] = s.waiting[i]
          /\ Append(s.waiting, c)[Len(s.waiting) + 1] = c
      BY <2>2
    <3> QED BY <3>1, <3>2 DEF Range
  <2>4. \A i \in 1..Len(s.waiting) : s.waiting[i] # c BY <2>2 DEF Asked, Range
  <2>5. \A i, j \in 1..Len(Append(s.waiting, c)) :
            Append(s.waiting, c)[i] = Append(s.waiting, c)[j] => i = j
    BY <2>2, <2>4 DEF SlotsOK
  <2> QED BY <2>1, <2>2, <2>3, <2>5 DEF SlotsOK, Asked
<1> QED BY <1>1, <1>2

\* The head of a queue without duplicates is not in its tail.
LEMMA HeadOrTail ==
  ASSUME NEW W \in Seq(Claims), W # <<>>,
         \A i, j \in 1..Len(W) : W[i] = W[j] => i = j
  PROVE  /\ Head(W) \in Claims /\ Tail(W) \in Seq(Claims)
         /\ Range(W) = {Head(W)} \cup Range(Tail(W)) /\ Head(W) \notin Range(Tail(W))
         /\ \A i, j \in 1..Len(Tail(W)) : Tail(W)[i] = Tail(W)[j] => i = j
<1>1. Len(W) \in Nat /\ Len(W) >= 1 /\ DOMAIN W = 1..Len(W) /\ Head(W) = W[1] OBVIOUS
<1>2. Tail(W) \in Seq(Claims) /\ Len(Tail(W)) = Len(W) - 1 /\ DOMAIN Tail(W) = 1..Len(W) - 1
      /\ \A i \in 1..Len(W) - 1 : Tail(W)[i] = W[i + 1]
  BY <1>1
<1>3. Range(Tail(W)) = {W[i] : i \in 2..Len(W)}
  <2>1. ASSUME NEW i \in 1..Len(W) - 1 PROVE i + 1 \in 2..Len(W) /\ Tail(W)[i] = W[i + 1] BY <1>1, <1>2
  <2>2. ASSUME NEW i \in 2..Len(W) PROVE i - 1 \in 1..Len(W) - 1 /\ Tail(W)[i - 1] = W[i] BY <1>1, <1>2
  <2>3. Range(Tail(W)) = {Tail(W)[i] : i \in 1..Len(W) - 1} BY <1>2 DEF Range
  <2>4. Range(Tail(W)) \subseteq {W[i] : i \in 2..Len(W)} BY <2>1, <2>3
  <2>5. {W[i] : i \in 2..Len(W)} \subseteq Range(Tail(W))
    <3> SUFFICES ASSUME NEW i \in 2..Len(W) PROVE W[i] \in Range(Tail(W)) OBVIOUS
    <3> QED BY <2>2, <2>3
  <2> QED BY <2>4, <2>5
<1>4. Range(W) = {Head(W)} \cup Range(Tail(W)) BY <1>1, <1>3 DEF Range
<1>5. Head(W) \notin Range(Tail(W)) BY <1>1, <1>3
<1>6. \A i, j \in 1..Len(Tail(W)) : Tail(W)[i] = Tail(W)[j] => i = j BY <1>1, <1>2
<1> QED BY <1>1, <1>2, <1>4, <1>5, <1>6

\* Who gives a slot back has it no more, and nobody else loses one; who waits may have it.
LEMMA ReleaseSlots ==
  ASSUME NEW s, SlotsOK(s), NEW c
  PROVE  /\ SlotsOK(Released(s, c))
         /\ Asked(Released(s, c)) = IF c \in s.holders THEN Asked(s) \ {c} ELSE Asked(s)
         /\ s.holders \ {c} \subseteq Released(s, c).holders
<1>1. CASE c \notin s.holders BY <1>1 DEF Released
<1>2. CASE c \in s.holders /\ s.waiting = <<>>
  <2>1. Released(s, c) = [holders |-> s.holders \ {c}, waiting |-> s.waiting]
    BY <1>2 DEF Released, SlotsOK
  <2>2. IsFiniteSet(s.holders \ {c}) /\ Cardinality(s.holders \ {c}) = Cardinality(s.holders) - 1
    BY <1>2, FS_RemoveElement DEF SlotsOK
  <2>3. Cardinality(s.holders) \in Nat BY FS_CardinalityType DEF SlotsOK
  <2>4. Range(s.waiting) = {} BY <1>2 DEF Range
  <2> QED BY <1>2, <2>1, <2>2, <2>3, <2>4, AroundAssumption DEF SlotsOK, Asked
<1>3. CASE c \in s.holders /\ s.waiting # <<>>
  <2> DEFINE next == Head(s.waiting)
  <2>1. Released(s, c) = [holders |-> (s.holders \ {c}) \cup {next}, waiting |-> Tail(s.waiting)]
    BY <1>3 DEF Released, SlotsOK
  <2>2. /\ next \in Claims /\ Tail(s.waiting) \in Seq(Claims)
        /\ Range(s.waiting) = {next} \cup Range(Tail(s.waiting)) /\ next \notin Range(Tail(s.waiting))
        /\ \A i, j \in 1..Len(Tail(s.waiting)) : Tail(s.waiting)[i] = Tail(s.waiting)[j] => i = j
    BY <1>3, HeadOrTail DEF SlotsOK
  <2>3. next \notin s.holders BY <2>2 DEF SlotsOK
  <2>4. IsFiniteSet(s.holders \ {c}) /\ Cardinality(s.holders \ {c}) = Cardinality(s.holders) - 1
    BY <1>3, FS_RemoveElement DEF SlotsOK
  <2>5. IsFiniteSet((s.holders \ {c}) \cup {next})
        /\ Cardinality((s.holders \ {c}) \cup {next}) = Cardinality(s.holders \ {c}) + 1
    BY <2>3, <2>4, FS_AddElement
  <2>6. Cardinality(s.holders) \in Nat BY FS_CardinalityType DEF SlotsOK
  <2>7. Cardinality((s.holders \ {c}) \cup {next}) <= MaxConcurrency
    BY <2>4, <2>5, <2>6, AroundAssumption DEF SlotsOK
  <2> HIDE DEF next
  <2> QED BY <1>3, <2>1, <2>2, <2>3, <2>5, <2>7 DEF SlotsOK, Asked
<1> QED BY <1>1, <1>2, <1>3

\* What SetSlots leaves is the slots it was given.
LEMMA SetSlotsIs ==
  ASSUME NEW s, SlotsOK(s), SetSlots(s) PROVE Slots' = s
  BY DEF SlotsOK, SetSlots, Slots

\* A step that asks for a slot, and one that gives one back.
LEMMA AcquireStep ==
  ASSUME SlotsOK(Slots), NEW c \in Claims, c \notin Asked(Slots), SetSlots(Acquired(Slots, c))
  PROVE  SlotsOK(Slots)' /\ Asked(Slots)' = Asked(Slots) \cup {c} /\ holders \subseteq holders'
<1>1. /\ SlotsOK(Acquired(Slots, c)) /\ Asked(Acquired(Slots, c)) = Asked(Slots) \cup {c}
      /\ Slots.holders \subseteq Acquired(Slots, c).holders
  BY AcquireSlots
<1>2. Slots' = Acquired(Slots, c) BY <1>1, SetSlotsIs
<1>3. Slots.holders = holders /\ Slots'.holders = holders' BY DEF Slots
<1> QED BY <1>1, <1>2, <1>3

LEMMA ReleaseStep ==
  ASSUME SlotsOK(Slots), NEW c, SetSlots(Released(Slots, c))
  PROVE  /\ SlotsOK(Slots)' /\ holders \ {c} \subseteq holders'
         /\ Asked(Slots)' = IF c \in holders THEN Asked(Slots) \ {c} ELSE Asked(Slots)
<1>1. /\ SlotsOK(Released(Slots, c)) /\ Slots.holders \ {c} \subseteq Released(Slots, c).holders
      /\ Asked(Released(Slots, c)) = IF c \in Slots.holders THEN Asked(Slots) \ {c} ELSE Asked(Slots)
  BY ReleaseSlots
<1>2. Slots' = Released(Slots, c) BY <1>1, SetSlotsIs
<1>3. Slots.holders = holders /\ Slots'.holders = holders' BY DEF Slots
<1> QED BY <1>1, <1>2, <1>3

-----------------------------------------------------------------------------
(* The invariant.                                                          *)

UnderWay(f) == frame[f] \notin {"idle", "done"}

\* While use() runs, runNextHook waits for it and the hook has not ended.
UseInHook ==
  \A h \in Hooks : use[h] \in {"inner", "acquiring"} => frame[h] = "inner" /\ hook[h] = "running"

\* The next frame exists once use() has been called.
UseStartsInner == \A h \in Hooks : frame[Inner(h)] = "idle" <=> use[h] = "no"

\* runNextHook knows where its hook is.
FrameKnowsHook ==
  \A h \in Hooks :
    /\ frame[h] \in {"idle", "acquiring"} => hook[h] = "idle"
    /\ hook[h] = "idle" => use[h] = "no"
    /\ frame[h] = "setup" => hook[h] = "running" /\ use[h] = "no" /\ setupTimer[h] # "fired"
    /\ frame[h] = "inner" => use[h] \in {"inner", "acquiring"}
    /\ frame[h] = "teardown" => hook[h] = "running" /\ use[h] = "returned"
    /\ hook[h] = "running" /\ use[h] = "no" /\ setupTimer[h] # "fired" => frame[h] = "setup"

\* A timer that runs has a frame to reject.
TimersHaveFrames ==
  \A h \in Hooks : /\ setupTimer[h] = "on" => frame[h] = "setup"
                   /\ teardownTimer[h] = "on" => frame[h] = "teardown"

\* While a frame is active, use() runs in every hook around it.
UnderWayInside ==
  \A h \in Hooks, f \in Frames : h[1] = f[1] /\ h[2] < f[2] /\ UnderWay(f) => use[h] = "inner"

\* A slot is asked for by a phase that begins or runs, and held by one that runs.
ClaimsArePhases ==
  /\ \A f \in Frames :
       /\ Setup(f) \in Asked(Slots) =>
            frame[f] \in {"acquiring", "setup"} \/ (f[2] = Inside /\ frame[f] = "inner")
       /\ frame[f] = "setup" \/ (f[2] = Inside /\ frame[f] = "inner") => Setup(f) \in holders
  /\ \A h \in Hooks :
       /\ Teardown(h) \in Asked(Slots) => use[h] = "acquiring" \/ frame[h] = "teardown"
       /\ frame[h] = "teardown" => Teardown(h) \in holders

Types ==
  /\ frame \in [Frames -> {"idle", "acquiring", "setup", "inner", "teardown", "done"}]
  /\ hook \in [Hooks -> {"idle", "running", "ended"}]
  /\ use \in [Hooks -> {"no", "inner", "acquiring", "returned"}]
  /\ setupTimer \in [Hooks -> {"off", "on", "fired"}]
  /\ teardownTimer \in [Hooks -> {"off", "on", "fired"}]
  /\ hookErrors \subseteq Frames /\ unhandled = {}

Nest == UseInHook /\ UseStartsInner /\ FrameKnowsHook /\ TimersHaveFrames /\ UnderWayInside
IInv == Types /\ SlotsOK(Slots) /\ Nest /\ ClaimsArePhases

\* Nobody has asked for anything.
LEMMA InitIInv == Init => IInv
<1> SUFFICES ASSUME Init PROVE IInv OBVIOUS
<1>1. Types BY InnerFrame DEF Init, Types
<1>2. SlotsOK(Slots) /\ Asked(Slots) = {}
  <2>1. Range(<<>>) = {} BY DEF Range
  <2> QED BY <2>1, FS_EmptySet, AroundAssumption DEF Init, SlotsOK, Slots, Asked
<1>3. Nest
  BY InnerFrame
     DEF Init, Nest, UseInHook, UseStartsInner, FrameKnowsHook, TimersHaveFrames, UnderWayInside, UnderWay
<1>4. ClaimsArePhases BY <1>2, InnerFrame DEF Init, ClaimsArePhases
<1> QED BY <1>1, <1>2, <1>3, <1>4 DEF IInv

\* The claim of a frame is a claim.
LEMMA AreClaims ==
  /\ \A f \in Frames : Setup(f) \in Claims
  /\ \A h \in Hooks : Teardown(h) \in Claims
  BY DEF Claims

-----------------------------------------------------------------------------
(* What the invariant says of the properties.                              *)

THEOREM InvariantTypes == IInv => TypeOK
<1> SUFFICES ASSUME IInv PROVE TypeOK OBVIOUS
<1>1. holders \subseteq Claims /\ waiting \in Seq(Claims) /\ Cardinality(holders) <= MaxConcurrency
      /\ holders \cap Range(waiting) = {}
  BY DEF IInv, SlotsOK, Slots
<1>2. Range(waiting) \subseteq Claims BY <1>1 DEF Range
<1> QED BY <1>1, <1>2 DEF IInv, Types, Nest, TimersHaveFrames, TypeOK

THEOREM InvariantNests == IInv => InsideAllHooks /\ NothingLeft
<1> SUFFICES ASSUME IInv PROVE InsideAllHooks /\ NothingLeft OBVIOUS
<1>1. ASSUME NEW t \in Tests, frame[<<t, Inside>>] = "inner", NEW i \in Levels
      PROVE  frame[<<t, i>>] = "inner" /\ hook[<<t, i>>] = "running"
  <2>1. <<t, i>> \in Hooks /\ <<t, Inside>> \in Frames /\ i < Inside
    BY AroundAssumption DEF Hooks, Frames, Levels, Inside
  <2>2. use[<<t, i>>] = "inner" BY <1>1, <2>1 DEF IInv, Nest, UnderWayInside, UnderWay
  <2> QED BY <2>1, <2>2 DEF IInv, Nest, UseInHook
<1>2. ASSUME NEW t \in Tests, Over(t), NEW f \in Frames, f[1] = t PROVE frame[f] \in {"idle", "done"}
  <2>1. <<t, 1>> \in Hooks BY AroundAssumption DEF Hooks, Levels
  <2>2. use[<<t, 1>>] # "inner" BY <1>2, <2>1 DEF Over, IInv, Nest, UseInHook
  <2>3. f = <<t, 1>> \/ 1 < f[2] BY <1>2, AroundAssumption DEF Frames, Levels, Inside
  <2> QED BY <1>2, <2>1, <2>2, <2>3 DEF Over, IInv, Nest, UnderWayInside, UnderWay
<1>3. ASSUME NEW t \in Tests, Over(t), NEW c \in holders \cup Range(waiting) PROVE c[1][1] # t
  <2>1. c \in Asked(Slots) /\ c \in Claims
    BY <1>3, InvariantTypes DEF TypeOK, Asked, Slots
  <2>2. CASE \E f \in Frames : c = Setup(f)
    <3>1. PICK f \in Frames : c = Setup(f) BY <2>2
    <3>2. frame[f] \notin {"idle", "done"} BY <2>1, <3>1 DEF IInv, ClaimsArePhases
    <3> QED BY <1>2, <1>3, <3>1, <3>2, ClaimsDiffer
  <2>3. CASE \E h \in Hooks : c = Teardown(h)
    <3>1. PICK h \in Hooks : c = Teardown(h) BY <2>3
    <3>2. frame[h] \notin {"idle", "done"}
      BY <2>1, <3>1 DEF IInv, ClaimsArePhases, Nest, UseInHook
    <3> QED BY <1>2, <1>3, <3>1, <3>2, ClaimsDiffer, InnerFrame
  <2> QED BY <2>1, <2>2, <2>3 DEF Claims
<1> QED BY <1>1, <1>2, <1>3 DEF InsideAllHooks, NothingLeft

THEOREM InvariantHolds == IInv => PhasesHoldSlots /\ NothingUnhandled
<1> SUFFICES ASSUME IInv PROVE PhasesHoldSlots /\ NothingUnhandled OBVIOUS
<1>1. holders \subseteq Asked(Slots) BY DEF Asked, Slots
<1>2. ASSUME NEW h \in Hooks
      PROVE  /\ frame[h] = "setup" => Setup(h) \in holders
             /\ frame[h] = "teardown" => Teardown(h) \in holders
             /\ frame[h] \in {"inner", "done"} => Setup(h) \notin holders
             /\ frame[h] = "inner" /\ use[h] = "inner" => Teardown(h) \notin holders
  BY <1>1, InnerFrame DEF IInv, ClaimsArePhases
<1> QED BY <1>2 DEF PhasesHoldSlots, NothingUnhandled, IInv, Types

-----------------------------------------------------------------------------
(* Every step keeps it.  Frames and claims are compared by name from here. *)

\* The first frame of a nest is a hook that no other frame precedes.
LEMMA FirstFrame ==
  ASSUME NEW t \in Tests
  PROVE  <<t, 1>> \in Hooks /\ \A h \in Hooks : Inner(h) # <<t, 1>> /\ ~(h[2] < 1)
  BY AroundAssumption DEF Hooks, Levels, Inner

\* runNextHook(0) begins.
LEMMA StartKeeps == ASSUME IInv, NEW t \in Tests, Start(t) PROVE IInv'
<1> DEFINE f == <<t, 1>>
<1>1. f \in Hooks /\ f \in Frames /\ frame[f] = "idle" /\ frame' = [frame EXCEPT ![f] = "acquiring"]
      /\ (\A h \in Hooks : Inner(h) # f) /\ UNCHANGED <<hook, use, timers, hookErrors, unhandled>>
  BY FirstFrame, InnerFrame DEF Start
<1>0. \A h \in Hooks : ~(h[1] = f[1] /\ h[2] < f[2]) BY FirstFrame
<1> HIDE DEF f
<1>2. Setup(f) \notin Asked(Slots) BY <1>1, InnerFrame DEF IInv, ClaimsArePhases
<1>3. SlotsOK(Slots)' /\ Asked(Slots)' = Asked(Slots) \cup {Setup(f)} /\ holders \subseteq holders'
  BY <1>1, <1>2, AreClaims, AcquireStep DEF IInv, Start, f
<1>4. Types' BY <1>1 DEF IInv, Types, timers
<1>5. Nest'
  <2>1. UseInHook' /\ UseStartsInner' /\ FrameKnowsHook' /\ TimersHaveFrames'
    BY <1>1, InnerFrame DEF IInv, Types, Nest, UseInHook, UseStartsInner, FrameKnowsHook, TimersHaveFrames, timers
  <2>2. UnderWayInside' BY <1>0, <1>1 DEF IInv, Types, Nest, UnderWayInside, UnderWay
  <2> QED BY <2>1, <2>2 DEF Nest
<1>6. ClaimsArePhases'
  BY <1>1, <1>3, ClaimsDiffer, InnerFrame DEF IInv, Types, ClaimsArePhases
<1> QED BY <1>3, <1>4, <1>5, <1>6 DEF IInv

\* A setup phase gets its slot; nobody else's frame changes.
LEMMA SetupBeginsKeeps == ASSUME IInv, NEW h \in Hooks, SetupBegins(h) PROVE IInv'
<1>1. h \in Frames /\ frame[h] = "acquiring" /\ Setup(h) \in holders
      /\ frame' = [frame EXCEPT ![h] = "setup"] /\ hook' = [hook EXCEPT ![h] = "running"]
      /\ setupTimer' = [setupTimer EXCEPT ![h] = "on"]
      /\ UNCHANGED <<use, teardownTimer, limiter, hookErrors, unhandled>>
  BY InnerFrame DEF SetupBegins
<1>2. UNCHANGED <<holders, Slots>> BY <1>1 DEF limiter, Slots
<1>3. SlotsOK(Slots)' /\ Asked(Slots)' = Asked(Slots) BY <1>2 DEF IInv
<1>4. Types' BY <1>1 DEF IInv, Types
<1>5. Nest'
  <2>1. UseInHook' /\ UseStartsInner' /\ FrameKnowsHook' /\ TimersHaveFrames'
    BY <1>1, InnerFrame DEF IInv, Types, Nest, UseInHook, UseStartsInner, FrameKnowsHook, TimersHaveFrames
  <2>2. UnderWayInside' BY <1>1 DEF IInv, Types, Nest, UnderWayInside, UnderWay
  <2> QED BY <2>1, <2>2 DEF Nest
<1>6. ClaimsArePhases' BY <1>1, <1>2, <1>3, InnerFrame DEF IInv, Types, ClaimsArePhases, Nest, UseInHook
<1> QED BY <1>3, <1>4, <1>5, <1>6 DEF IInv

\* use() ends the setup phase and lets the frame inside ask for a slot.
LEMMA CallUseKeeps == ASSUME IInv, NEW h \in Hooks, CallUse(h) PROVE IInv'
<1>1. hook[h] = "running" /\ use[h] = "no" /\ setupTimer[h] # "fired" /\ frame[h] = "setup"
  BY DEF CallUse, MayCallInside, IInv, Nest, FrameKnowsHook
<1> DEFINE g == Inner(h)
<1>2. h \in Frames /\ g \in Frames /\ g # h /\ frame[g] = "idle"
      /\ (\A k \in Hooks : Inner(k) = g => k = h)
      /\ g[1] = h[1] /\ g[2] = h[2] + 1 /\ h[2] \in Nat
  BY <1>1, InnerFrame, InnerInjective DEF IInv, Nest, UseStartsInner
<1>3. /\ use' = [use EXCEPT ![h] = "inner"]
      /\ frame' = [frame EXCEPT ![h] = "inner", ![g] = "acquiring"]
      /\ setupTimer' = [setupTimer EXCEPT ![h] = Cleared(setupTimer[h])]
      /\ UNCHANGED <<hook, teardownTimer, hookErrors, unhandled>>
  <2>1. frame \in [Frames -> {"idle", "acquiring", "setup", "inner", "teardown", "done"}]
    BY DEF IInv, Types
  <2> QED BY <1>1, <1>2, <2>1 DEF CallUse
<1>4. Cleared(setupTimer[h]) = "off" BY <1>1 DEF Cleared, IInv, Types
<1> HIDE DEF g
<1>5. /\ SlotsOK(Slots)' /\ holders \ {Setup(h)} \subseteq holders'
      /\ Asked(Slots)' = (Asked(Slots) \ {Setup(h)}) \cup {Setup(g)}
  <2> DEFINE s == Released(Slots, Setup(h))
  <2>1. SlotsOK(Slots) /\ Setup(h) \in holders /\ holders \subseteq Asked(Slots) /\ Slots.holders = holders
    BY <1>1, <1>2 DEF IInv, ClaimsArePhases, Asked, Slots
  <2>2. SlotsOK(s) /\ Asked(s) = Asked(Slots) \ {Setup(h)} /\ holders \ {Setup(h)} \subseteq s.holders
    BY <2>1, ReleaseSlots
  <2>3. Setup(g) \in Claims /\ Setup(g) \notin Asked(Slots)
    BY <1>2, AreClaims DEF IInv, ClaimsArePhases
  <2>4. SetSlots(Acquired(s, Setup(g))) BY DEF CallUse, SlotsForInside, g
  <2> HIDE DEF s
  <2>5. /\ SlotsOK(Acquired(s, Setup(g))) /\ Asked(Acquired(s, Setup(g))) = Asked(s) \cup {Setup(g)}
        /\ s.holders \subseteq Acquired(s, Setup(g)).holders
    BY <2>2, <2>3, AcquireSlots
  <2>6. Slots' = Acquired(s, Setup(g)) BY <2>4, <2>5, SetSlotsIs
  <2>7. Slots'.holders = holders' BY DEF Slots
  <2> QED BY <2>2, <2>5, <2>6, <2>7
<1>6. Types' BY <1>2, <1>3, <1>4 DEF IInv, Types
<1>7. Nest'
  <2>1. UseInHook' /\ UseStartsInner' /\ FrameKnowsHook' /\ TimersHaveFrames'
    BY <1>1, <1>2, <1>3, <1>4, InnerFrame
       DEF IInv, Types, Nest, UseInHook, UseStartsInner, FrameKnowsHook, TimersHaveFrames
  <2>2. UnderWayInside'
    <3> SUFFICES ASSUME NEW k \in Hooks, NEW f \in Frames, k[1] = f[1], k[2] < f[2], UnderWay(f)'
                 PROVE  use'[k] = "inner"
      BY DEF UnderWayInside
    <3>1. CASE k = h BY <1>3, <3>1 DEF IInv, Types
    <3>2. CASE k # h /\ f # g
      BY <1>1, <1>2, <1>3, <3>2 DEF IInv, Types, Nest, UnderWayInside, UnderWay
    <3>3. CASE k # h /\ f = g
      <4>1. k[2] \in Nat /\ (k[2] = h[2] => Inner(k) = g)
        BY <1>2, <3>3, InnerFrame DEF Inner, g
      <4>2. k[2] < h[2] /\ k[1] = h[1] BY <1>2, <3>3, <4>1
      <4>3. use[k] = "inner" BY <1>1, <1>2, <4>2 DEF IInv, Nest, UnderWayInside, UnderWay
      <4> QED BY <1>3, <3>3, <4>3 DEF IInv, Types
    <3> QED BY <3>1, <3>2, <3>3
  <2> QED BY <2>1, <2>2 DEF Nest
<1>8. ClaimsArePhases'
  BY <1>1, <1>2, <1>3, <1>5, ClaimsDiffer, InnerFrame DEF IInv, Types, ClaimsArePhases, Nest, FrameKnowsHook
<1> QED BY <1>5, <1>6, <1>7, <1>8 DEF IInv

\* What is inside begins with its slot.
LEMMA InsideBeginsKeeps == ASSUME IInv, NEW t \in Tests, InsideBegins(t) PROVE IInv'
<1> DEFINE f == <<t, Inside>>
<1>1. /\ f \in Frames /\ f \notin Hooks /\ f[2] = Inside /\ frame[f] = "acquiring" /\ Setup(f) \in holders
      /\ frame' = [frame EXCEPT ![f] = "inner"]
      /\ UNCHANGED <<use, hook, timers, limiter, hookErrors, unhandled>>
  BY AroundAssumption DEF InsideBegins, Frames, Hooks, Levels, Inside
<1> HIDE DEF f
<1>2. UNCHANGED <<holders, Slots, setupTimer, teardownTimer>> BY <1>1 DEF limiter, timers, Slots
<1>3. SlotsOK(Slots)' /\ Asked(Slots)' = Asked(Slots) BY <1>2 DEF IInv
<1>4. Types' BY <1>1, <1>2 DEF IInv, Types
<1>5. Nest'
  <2>1. UseInHook' /\ UseStartsInner' /\ FrameKnowsHook' /\ TimersHaveFrames'
    BY <1>1, <1>2, InnerFrame
       DEF IInv, Types, Nest, UseInHook, UseStartsInner, FrameKnowsHook, TimersHaveFrames
  <2>2. UnderWayInside' BY <1>1 DEF IInv, Types, Nest, UnderWayInside, UnderWay
  <2> QED BY <2>1, <2>2 DEF Nest
<1>6. ClaimsArePhases' BY <1>1, <1>2, <1>3, InnerFrame DEF IInv, Types, ClaimsArePhases
<1> QED BY <1>3, <1>4, <1>5, <1>6 DEF IInv

\* It ends and gives its slot back.
LEMMA InsideEndsKeeps ==
  ASSUME IInv, NEW t \in Tests, NEW errors \in {{}, {"error"}}, InsideEnds(t, errors) PROVE IInv'
<1> DEFINE f == <<t, Inside>>
<1>1. /\ f \in Frames /\ f \notin Hooks /\ f[2] = Inside /\ frame[f] = "inner"
      /\ frame' = [frame EXCEPT ![f] = "done"] /\ SetSlots(Released(Slots, Setup(f)))
      /\ UNCHANGED <<use, hook, timers, unhandled>> /\ hookErrors' \subseteq Frames
  BY AroundAssumption DEF InsideEnds, Frames, Hooks, Levels, Inside, IInv, Types
<1> HIDE DEF f
<1>2. Setup(f) \in holders BY <1>1 DEF IInv, ClaimsArePhases
<1>3. /\ SlotsOK(Slots)' /\ holders \ {Setup(f)} \subseteq holders'
      /\ Asked(Slots)' = Asked(Slots) \ {Setup(f)}
  BY <1>1, <1>2, ReleaseStep DEF IInv
<1>4. Types' BY <1>1 DEF IInv, Types, timers
<1>5. Nest'
  <2>1. UseInHook' /\ UseStartsInner' /\ FrameKnowsHook' /\ TimersHaveFrames'
    BY <1>1, InnerFrame
       DEF IInv, Types, Nest, UseInHook, UseStartsInner, FrameKnowsHook, TimersHaveFrames, timers
  <2>2. UnderWayInside' BY <1>1 DEF IInv, Types, Nest, UnderWayInside, UnderWay
  <2> QED BY <2>1, <2>2 DEF Nest
<1>6. ClaimsArePhases' BY <1>1, <1>3, ClaimsDiffer, InnerFrame DEF IInv, Types, ClaimsArePhases
<1> QED BY <1>3, <1>4, <1>5, <1>6 DEF IInv

\* use() asks for the slot of the teardown phase: every frame inside is over.
LEMMA TeardownAcquiresKeeps == ASSUME IInv, NEW h \in Hooks, TeardownAcquires(h) PROVE IInv'
<1>1. /\ h \in Frames /\ use[h] = "inner" /\ frame[Inner(h)] = "done"
      /\ frame[h] = "inner" /\ hook[h] = "running"
      /\ use' = [use EXCEPT ![h] = "acquiring"] /\ SetSlots(Acquired(Slots, Teardown(h)))
      /\ UNCHANGED <<frame, hook, timers, hookErrors, unhandled>>
  BY InnerFrame DEF TeardownAcquires, InsideIsDone, IInv, Nest, UseInHook
<1>2. Teardown(h) \notin Asked(Slots) BY <1>1 DEF IInv, ClaimsArePhases
<1>3. /\ SlotsOK(Slots)' /\ holders \subseteq holders'
      /\ Asked(Slots)' = Asked(Slots) \cup {Teardown(h)}
  BY <1>1, <1>2, AreClaims, AcquireStep DEF IInv
<1>4. Types' BY <1>1 DEF IInv, Types, timers
<1>5. Nest'
  <2>1. UseInHook' /\ UseStartsInner' /\ FrameKnowsHook' /\ TimersHaveFrames'
    BY <1>1, InnerFrame
       DEF IInv, Types, Nest, UseInHook, UseStartsInner, FrameKnowsHook, TimersHaveFrames, timers
  <2>2. ASSUME NEW f \in Frames, h[1] = f[1], h[2] < f[2] PROVE ~UnderWay(f)
    <3>1. h[2] \in Nat /\ f[2] \in Nat /\ Inner(h) \in Frames
          /\ Inner(h)[1] = f[1] /\ Inner(h)[2] = h[2] + 1
      BY <2>2, InnerFrame, FrameLevels
    <3>2. CASE f[2] = h[2] + 1
      <4>1. f = Inner(h) BY <2>2, <3>2, InnerFrame
      <4> QED BY <1>1, <4>1 DEF UnderWay
    <3>3. CASE f[2] # h[2] + 1
      <4>1. Inner(h)[2] < f[2] /\ f[2] <= Inside BY <2>2, <3>1, <3>3, FrameLevels
      <4>2. Inside \in Nat BY AroundAssumption DEF Inside
      <4>3. Inner(h) \in Hooks BY <3>1, <4>1, <4>2, FrameLevels
      <4>4. use[Inner(h)] # "inner" BY <1>1, <4>3 DEF IInv, Nest, UseInHook
      <4> QED BY <3>1, <4>1, <4>3, <4>4 DEF IInv, Nest, UnderWayInside
    <3> QED BY <3>2, <3>3
  <2>3. UnderWayInside' BY <1>1, <2>2 DEF IInv, Types, Nest, UnderWayInside, UnderWay
  <2> QED BY <2>1, <2>3 DEF Nest
<1>6. ClaimsArePhases' BY <1>1, <1>3, ClaimsDiffer, InnerFrame DEF IInv, Types, ClaimsArePhases
<1> QED BY <1>3, <1>4, <1>5, <1>6 DEF IInv

\* With the slot, use() returns and the teardown phase begins.
LEMMA UseReturnsKeeps == ASSUME IInv, NEW h \in Hooks, UseReturns(h) PROVE IInv'
<1>1. /\ h \in Frames /\ use[h] = "acquiring" /\ frame[h] = "inner" /\ hook[h] = "running"
      /\ Teardown(h) \in holders
      /\ use' = [use EXCEPT ![h] = "returned"] /\ frame' = [frame EXCEPT ![h] = "teardown"]
      /\ teardownTimer' = [teardownTimer EXCEPT ![h] = "on"]
      /\ UNCHANGED <<hook, setupTimer, limiter, hookErrors, unhandled>>
  BY InnerFrame DEF UseReturns, IInv, Nest, UseInHook
<1>2. UNCHANGED <<holders, Slots>> BY <1>1 DEF limiter, Slots
<1>3. SlotsOK(Slots)' /\ Asked(Slots)' = Asked(Slots) BY <1>2 DEF IInv
<1>4. Types' BY <1>1 DEF IInv, Types
<1>5. Nest'
  <2>1. UseInHook' /\ UseStartsInner' /\ FrameKnowsHook' /\ TimersHaveFrames'
    BY <1>1, InnerFrame DEF IInv, Types, Nest, UseInHook, UseStartsInner, FrameKnowsHook, TimersHaveFrames
  <2>2. UnderWayInside' BY <1>1 DEF IInv, Types, Nest, UnderWayInside, UnderWay
  <2> QED BY <2>1, <2>2 DEF Nest
<1>6. ClaimsArePhases' BY <1>1, <1>2, <1>3, InnerFrame DEF IInv, Types, ClaimsArePhases
<1> QED BY <1>3, <1>4, <1>5, <1>6 DEF IInv

\* The setup phase times out and gives its slot back; the hook may go on.
LEMMA SetupTimesOutKeeps == ASSUME IInv, NEW h \in Hooks, SetupTimesOut(h) PROVE IInv'
<1>1. /\ h \in Frames /\ frame[h] = "setup" /\ setupTimer' = [setupTimer EXCEPT ![h] = "fired"]
      /\ frame' = [frame EXCEPT ![h] = "done"] /\ hookErrors' = hookErrors \cup {h}
      /\ SetSlots(Released(Slots, Setup(h)))
      /\ UNCHANGED <<hook, use, teardownTimer, unhandled>>
  BY InnerFrame DEF SetupTimesOut
<1>2. Setup(h) \in holders BY <1>1 DEF IInv, ClaimsArePhases
<1>3. /\ SlotsOK(Slots)' /\ holders \ {Setup(h)} \subseteq holders'
      /\ Asked(Slots)' = Asked(Slots) \ {Setup(h)}
  BY <1>1, <1>2, ReleaseStep DEF IInv
<1>4. Types' BY <1>1 DEF IInv, Types
<1>5. Nest'
  <2>1. UseInHook' /\ UseStartsInner' /\ FrameKnowsHook' /\ TimersHaveFrames'
    BY <1>1, InnerFrame DEF IInv, Types, Nest, UseInHook, UseStartsInner, FrameKnowsHook, TimersHaveFrames
  <2>2. UnderWayInside' BY <1>1 DEF IInv, Types, Nest, UnderWayInside, UnderWay
  <2> QED BY <2>1, <2>2 DEF Nest
<1>6. ClaimsArePhases'
  BY <1>1, <1>3, ClaimsDiffer, InnerFrame DEF IInv, Types, ClaimsArePhases, Nest, UseInHook
<1> QED BY <1>3, <1>4, <1>5, <1>6 DEF IInv

\* So does the teardown phase; its timer never outlives its frame.
LEMMA TeardownTimesOutKeeps == ASSUME IInv, NEW h \in Hooks, TeardownTimesOut(h) PROVE IInv'
<1>1. /\ h \in Frames /\ frame[h] = "teardown" /\ teardownTimer' = [teardownTimer EXCEPT ![h] = "fired"]
      /\ frame' = [frame EXCEPT ![h] = "done"] /\ hookErrors' = hookErrors \cup {h}
      /\ SetSlots(Released(Slots, Teardown(h)))
      /\ UNCHANGED <<hook, use, setupTimer, unhandled>>
  BY InnerFrame DEF TeardownTimesOut, IInv, Nest, TimersHaveFrames
<1>2. Teardown(h) \in holders BY <1>1 DEF IInv, ClaimsArePhases
<1>3. /\ SlotsOK(Slots)' /\ holders \ {Teardown(h)} \subseteq holders'
      /\ Asked(Slots)' = Asked(Slots) \ {Teardown(h)}
  BY <1>1, <1>2, ReleaseStep DEF IInv
<1>4. Types' BY <1>1 DEF IInv, Types
<1>5. Nest'
  <2>1. UseInHook' /\ UseStartsInner' /\ FrameKnowsHook' /\ TimersHaveFrames'
    BY <1>1, InnerFrame DEF IInv, Types, Nest, UseInHook, UseStartsInner, FrameKnowsHook, TimersHaveFrames
  <2>2. UnderWayInside' BY <1>1 DEF IInv, Types, Nest, UnderWayInside, UnderWay
  <2> QED BY <2>1, <2>2 DEF Nest
<1>6. ClaimsArePhases'
  BY <1>1, <1>3, ClaimsDiffer, InnerFrame DEF IInv, Types, ClaimsArePhases, Nest, UseInHook, FrameKnowsHook
<1> QED BY <1>3, <1>4, <1>5, <1>6 DEF IInv

\* A hook that ends has not called use() or has come back from it: nothing inside is active,
\* and it gives back the slot of the phase it was in, if any.
LEMMA HookEndsKeeps ==
  ASSUME IInv, ~Abandons, NEW h \in Hooks, NEW outcome, HookEnds(h, outcome) PROVE IInv'
<1>1. /\ h \in Frames /\ hook[h] = "running" /\ use[h] \in {"no", "returned"}
      /\ hook' = [hook EXCEPT ![h] = "ended"] /\ UNCHANGED <<use, unhandled>>
  BY InnerFrame DEF HookEnds
<1>2. /\ frame[h] \in {"setup", "teardown", "done"}
      /\ frame' = [frame EXCEPT ![h] = "done"] /\ hookErrors' \subseteq Frames
      /\ setupTimer' = [setupTimer EXCEPT ![h] = Cleared(setupTimer[h])]
      /\ teardownTimer' = [teardownTimer EXCEPT ![h] = Cleared(teardownTimer[h])]
  <2>1. frame[h] \in {"setup", "teardown", "done"}
    BY <1>1 DEF IInv, Types, Nest, FrameKnowsHook
  <2>2. CASE frame[h] = "done"
    <3>1. Cleared(setupTimer[h]) = setupTimer[h] /\ Cleared(teardownTimer[h]) = teardownTimer[h]
      BY <2>2 DEF Cleared, IInv, Nest, TimersHaveFrames
    <3> QED BY <1>1, <2>2, <3>1 DEF HookEnds, timers, IInv, Types
  <2>3. CASE frame[h] # "done" BY <1>1, <2>1, <2>3 DEF HookEnds, IInv, Types
  <2> QED BY <2>2, <2>3
<1>3. /\ Cleared(setupTimer[h]) \in {"off", "fired"} /\ Cleared(teardownTimer[h]) \in {"off", "fired"}
      /\ setupTimer[h] = "fired" => Cleared(setupTimer[h]) = "fired"
  BY DEF Cleared, IInv, Types
<1>4. /\ SlotsOK(Slots)' /\ holders \ {Setup(h), Teardown(h)} \subseteq holders'
      /\ Asked(Slots)' = Asked(Slots) \ {Setup(h), Teardown(h)}
  <2>1. SlotsOK(Slots) /\ Slots.holders = holders /\ SetSlots(ReleasedAtEnd(h)) BY DEF IInv, Slots, HookEnds
  <2>2. /\ Setup(h) \in Asked(Slots) => Setup(h) \in holders
        /\ Teardown(h) \in Asked(Slots) => use[h] = "returned" /\ Teardown(h) \in holders
    BY <1>1, <1>2, InnerFrame DEF IInv, ClaimsArePhases, Nest, FrameKnowsHook
  <2> DEFINE s == Released(Slots, Setup(h))
  <2>3. SlotsOK(s) /\ Asked(s) = Asked(Slots) \ {Setup(h)} /\ holders \ {Setup(h)} \subseteq s.holders
    BY <2>1, <2>2, ReleaseSlots DEF Asked
  <2>4. SlotsOK(ReleasedAtEnd(h)) /\ Asked(ReleasedAtEnd(h)) = Asked(Slots) \ {Setup(h), Teardown(h)}
        /\ holders \ {Setup(h), Teardown(h)} \subseteq ReleasedAtEnd(h).holders
    <3>1. CASE use[h] = "returned"
      <4>1. ReleasedAtEnd(h) = Released(s, Teardown(h)) BY <3>1 DEF ReleasedAtEnd
      <4>2. Teardown(h) \in Asked(s) => Teardown(h) \in s.holders BY <2>2, <2>3, ClaimsDiffer
      <4> HIDE DEF s
      <4>3. /\ SlotsOK(Released(s, Teardown(h))) /\ s.holders \ {Teardown(h)} \subseteq Released(s, Teardown(h)).holders
            /\ Asked(Released(s, Teardown(h))) =
                 IF Teardown(h) \in s.holders THEN Asked(s) \ {Teardown(h)} ELSE Asked(s)
        BY <2>3, ReleaseSlots
      <4> QED BY <2>3, <4>1, <4>2, <4>3
    <3>2. CASE use[h] = "no"
      <4>1. ReleasedAtEnd(h) = Released(s, Setup(h)) BY <3>2 DEF ReleasedAtEnd
      <4>2. Setup(h) \notin s.holders BY <2>3 DEF Asked
      <4>3. Released(s, Setup(h)) = s BY <4>2 DEF Released
      <4> QED BY <2>2, <2>3, <3>2, <4>1, <4>3
    <3> QED BY <1>1, <3>1, <3>2
  <2>5. Slots' = ReleasedAtEnd(h) BY <2>1, <2>4, SetSlotsIs
  <2>6. Slots'.holders = holders' BY DEF Slots
  <2> QED BY <2>4, <2>5, <2>6
<1>5. Types' BY <1>1, <1>2, <1>3 DEF IInv, Types
<1>6. Nest'
  <2>1. UseInHook' /\ UseStartsInner' /\ FrameKnowsHook' /\ TimersHaveFrames'
    BY <1>1, <1>2, <1>3, InnerFrame
       DEF IInv, Types, Nest, UseInHook, UseStartsInner, FrameKnowsHook, TimersHaveFrames
  <2>2. UnderWayInside' BY <1>1, <1>2 DEF IInv, Types, Nest, UnderWayInside, UnderWay
  <2> QED BY <2>1, <2>2 DEF Nest
<1>7. ClaimsArePhases' BY <1>1, <1>2, <1>4, ClaimsDiffer, InnerFrame DEF IInv, Types, ClaimsArePhases
<1> QED BY <1>4, <1>5, <1>6, <1>7 DEF IInv

LEMMA StutterKeeps == ASSUME IInv, UNCHANGED vars PROVE IInv'
<1>1. UNCHANGED <<frame, hook, use, setupTimer, teardownTimer, holders, waiting, hookErrors, unhandled>>
  BY DEF vars, timers, limiter
<1>2. Slots' = Slots BY <1>1 DEF Slots
<1>3. ClaimsArePhases' BY <1>1, <1>2 DEF IInv, ClaimsArePhases
<1> QED BY <1>1, <1>2, <1>3 DEF IInv, Types, Nest, UseInHook, UseStartsInner, FrameKnowsHook, TimersHaveFrames,
                                UnderWayInside, UnderWay

-----------------------------------------------------------------------------
\* The invariant holds in every state.
THEOREM AroundInvariant == ASSUME ~Abandons PROVE Spec => []IInv
<1>1. IInv /\ [Next]_vars => IInv'
  <2> SUFFICES ASSUME IInv, [Next]_vars PROVE IInv' OBVIOUS
  <2>1. CASE UNCHANGED vars BY <2>1, StutterKeeps
  <2>2. ASSUME NEW t \in Tests, Start(t) \/ InsideBegins(t) \/ \E errors \in {{}, {"error"}} : InsideEnds(t, errors)
        PROVE  IInv'
    BY <2>2, StartKeeps, InsideBeginsKeeps, InsideEndsKeeps
  <2>3. ASSUME NEW h \in Hooks, \/ SetupBegins(h) \/ CallUse(h) \/ TeardownAcquires(h) \/ UseReturns(h)
                                \/ SetupTimesOut(h) \/ TeardownTimesOut(h)
        PROVE  IInv'
    BY <2>3, SetupBeginsKeeps, CallUseKeeps, TeardownAcquiresKeeps, UseReturnsKeeps, SetupTimesOutKeeps,
       TeardownTimesOutKeeps
  <2>4. ASSUME NEW h \in Hooks, NEW outcome \in {"returns", "throws"}, HookEnds(h, outcome) PROVE IInv'
    BY <2>4, HookEndsKeeps
  <2> QED BY <2>1, <2>2, <2>3, <2>4 DEF Next
<1> QED BY <1>1, InitIInv, PTL DEF Spec

\* Every variable has a value of its kind, and never more slots are taken than there are.
THEOREM AroundTypeOK == ASSUME ~Abandons PROVE Spec => []TypeOK
  BY AroundInvariant, InvariantTypes, PTL

\* What is inside runs only while every hook around it is between setup and teardown.
THEOREM AroundNests == ASSUME ~Abandons PROVE Spec => []InsideAllHooks
  BY AroundInvariant, InvariantNests, PTL

\* When the hooks are over nothing inside goes on and no slot is taken or waited for.
THEOREM AroundLeavesNothing == ASSUME ~Abandons PROVE Spec => []NothingLeft
  BY AroundInvariant, InvariantNests, PTL

\* A hook's code runs with a slot in each phase and holds none between them.
THEOREM AroundHoldsSlots == ASSUME ~Abandons PROVE Spec => []PhasesHoldSlots
  BY AroundInvariant, InvariantHolds, PTL

\* No timer rejects when nobody waits for it.
THEOREM AroundHandlesTimers == ASSUME ~Abandons PROVE Spec => []NothingUnhandled
  BY AroundInvariant, InvariantHolds, PTL
=============================================================================
