-------------------------- MODULE RunControlProofs --------------------------
(***************************************************************************)
(* Theorems about RunControl, for any number of runs and cancels, in       *)
(* whatever order they are called and their awaits resume.  What they say  *)
(* of the run under way holds until two calls of runFiles have awaited     *)
(* runningPromise at the same time: nothing else can make the Vitest       *)
(* instance lose track of a run.  CoreOverlap.cfg shows that this can.     *)
(***************************************************************************)
EXTENDS RunControl, TLAPS

Callees == Cancels \cup {Closer}

\* One call of runFiles at most waits for the run before it.
OneWaits == \A r, s \in Runs : pc[r] = "awaitsRun" /\ pc[s] = "awaitsRun" => r = s

\* The promise belongs to a run that is under way.
KnownIsUnderWay == runningPromise # None => UnderWay(runningPromise)

\* Who waits for its turn waits for the run under way.
WaitsForIt == \A r, s \in Runs : pc[r] = "awaitsRun" /\ UnderWay(s) => awaits[r] = s

\* What was found running is still under way, or over ...
FoundHasBegun == \A x \in Callees : found[x] # None => UnderWay(found[x]) \/ pc[found[x]] = "over"

\* ... and is waited for, though runningPromise was read again after the pool's cancel.
FoundIsAwaited ==
  \A x \in Callees : pc[x] = "awaitsRun" /\ ~RunOver(found[x]) => awaits[x] = found[x]

\* isCancelling of a run that has not handed out its files: a cancel was called in it.
FlagIsOwn ==
  \A r \in Runs : pc[r] \in {"setup", "listening"} => (isCancelling <=> \E c \in Cancels : found[c] = r)

\* The promises tell the calls what they are taken for.
Orderly ==
  /\ OneWaits /\ KnowsTheRun /\ KnownIsUnderWay /\ WaitsForIt
  /\ FoundHasBegun /\ FoundIsAwaited /\ FlagIsOwn /\ FoundRunEnds

\* The inductive invariant.
IInv == TypeOK /\ (~raced => Orderly)

\* The call has read nothing yet.
LEMMA RunFilesIInv == ASSUME IInv, NEW r \in Runs, RunFiles(r) PROVE IInv'
  <1> USE RunControlAssumption DEF IInv, TypeOK, Callers, Callees, Goes, RunFiles, IsNext, shared
  <1>1. TypeOK' BY DEF RunPlaces, CancelPlaces, ClosePlaces
  <1> SUFFICES ASSUME ~raced' PROVE Orderly' BY <1>1
  <1> USE DEF Orderly
  <1>2. OneWaits' BY DEF OneWaits
  <1>3. KnowsTheRun' BY DEF KnowsTheRun, UnderWay, WaitsForIt, RunOver
  <1>4. KnownIsUnderWay' BY DEF KnownIsUnderWay, UnderWay, KnowsTheRun
  <1>5. WaitsForIt' BY DEF WaitsForIt, UnderWay, OneWaits, KnowsTheRun, RunOver
  <1>6. FoundHasBegun' BY DEF FoundHasBegun, UnderWay, KnownIsUnderWay
  <1>7. FoundIsAwaited' BY DEF FoundIsAwaited, RunOver, UnderWay, FoundHasBegun, KnowsTheRun
  <1>8. FlagIsOwn' BY DEF FlagIsOwn, FoundHasBegun, UnderWay, KnowsTheRun
  <1>9. FoundRunEnds' BY DEF FoundRunEnds, RunOver, FoundIsAwaited, FoundHasBegun
  <1> QED BY <1>2, <1>3, <1>4, <1>5, <1>6, <1>7, <1>8, <1>9

\* The reporters have been told.
LEMMA StartedIInv == ASSUME IInv, NEW r \in Runs, Started(r) PROVE IInv'
  <1> USE RunControlAssumption DEF IInv, TypeOK, Callers, Callees, Goes, Started, shared
  <1>1. TypeOK' BY DEF RunPlaces, CancelPlaces, ClosePlaces
  <1> SUFFICES ASSUME ~raced' PROVE Orderly' BY <1>1
  <1> USE DEF Orderly
  <1>2. OneWaits' BY DEF OneWaits
  <1>3. KnowsTheRun' BY DEF KnowsTheRun, UnderWay, WaitsForIt, RunOver
  <1>4. KnownIsUnderWay' BY DEF KnownIsUnderWay, UnderWay, KnowsTheRun
  <1>5. WaitsForIt' BY DEF WaitsForIt, UnderWay, OneWaits, KnowsTheRun, RunOver
  <1>6. FoundHasBegun' BY DEF FoundHasBegun, UnderWay, KnownIsUnderWay
  <1>7. FoundIsAwaited' BY DEF FoundIsAwaited, RunOver, UnderWay, FoundHasBegun, KnowsTheRun
  <1>8. FlagIsOwn' BY DEF FlagIsOwn, FoundHasBegun, UnderWay, KnowsTheRun
  <1>9. FoundRunEnds' BY DEF FoundRunEnds, RunOver, FoundIsAwaited, FoundHasBegun
  <1> QED BY <1>2, <1>3, <1>4, <1>5, <1>6, <1>7, <1>8, <1>9

\* The call reads the promise of the run under way, if there is one.
LEMMA CancelAwaitedIInv == ASSUME IInv, NEW r \in Runs, CancelAwaited(r) PROVE IInv'
  <1> USE RunControlAssumption DEF IInv, TypeOK, Callers, Callees, Goes, CancelAwaited, PreviousRun, shared
  <1>1. TypeOK' BY DEF RunPlaces, CancelPlaces, ClosePlaces
  <1> SUFFICES ASSUME ~raced' PROVE Orderly' BY <1>1
  <1> USE DEF Orderly
  <1>2. OneWaits' BY DEF OneWaits
  <1>3. KnowsTheRun' BY DEF KnowsTheRun, UnderWay, WaitsForIt, RunOver
  <1>4. KnownIsUnderWay' BY DEF KnownIsUnderWay, UnderWay, KnowsTheRun
  <1>5. WaitsForIt' BY DEF WaitsForIt, UnderWay, OneWaits, KnowsTheRun, RunOver
  <1>6. FoundHasBegun' BY DEF FoundHasBegun, UnderWay, KnownIsUnderWay
  <1>7. FoundIsAwaited' BY DEF FoundIsAwaited, RunOver, UnderWay, FoundHasBegun, KnowsTheRun
  <1>8. FlagIsOwn' BY DEF FlagIsOwn, FoundHasBegun, UnderWay, KnowsTheRun
  <1>9. FoundRunEnds' BY DEF FoundRunEnds, RunOver, FoundIsAwaited, FoundHasBegun
  <1> QED BY <1>2, <1>3, <1>4, <1>5, <1>6, <1>7, <1>8, <1>9

\* The run that begins has waited for the one before: no other is under way.
LEMMA BeginIInv == ASSUME IInv, NEW r \in Runs, Begin(r) PROVE IInv'
  <1> USE RunControlAssumption DEF IInv, TypeOK, Callers, Callees, Goes, Begin, ResetFlag
  <1>1. TypeOK' BY DEF RunPlaces, CancelPlaces, ClosePlaces
  <1> SUFFICES ASSUME ~raced' PROVE Orderly' BY <1>1
  <1> USE DEF Orderly
  <1>2. OneWaits' BY DEF OneWaits
  <1>3. KnowsTheRun' BY DEF KnowsTheRun, UnderWay, WaitsForIt, RunOver
  <1>4. KnownIsUnderWay' BY DEF KnownIsUnderWay, UnderWay, KnowsTheRun
  <1>5. WaitsForIt' BY DEF WaitsForIt, UnderWay, OneWaits, KnowsTheRun, RunOver
  <1>6. FoundHasBegun' BY DEF FoundHasBegun, UnderWay, KnownIsUnderWay
  <1>7. FoundIsAwaited' BY DEF FoundIsAwaited, RunOver, UnderWay, FoundHasBegun, KnowsTheRun
  <1>8. FlagIsOwn' BY DEF FlagIsOwn, FoundHasBegun, UnderWay, WaitsForIt, RunOver
  <1>9. FoundRunEnds' BY DEF FoundRunEnds, RunOver, FoundIsAwaited, FoundHasBegun
  <1> QED BY <1>2, <1>3, <1>4, <1>5, <1>6, <1>7, <1>8, <1>9

\* The run under way listens to cancels, and its files are still to be handed out.
LEMMA ListenIInv == ASSUME IInv, NEW r \in Runs, Listen(r) PROVE IInv'
  <1> USE RunControlAssumption DEF IInv, TypeOK, Callers, Callees, Goes, Listen
  <1>1. TypeOK' BY DEF RunPlaces, CancelPlaces, ClosePlaces
  <1> SUFFICES ASSUME ~raced' PROVE Orderly' BY <1>1
  <1> USE DEF Orderly
  <1>2. OneWaits' BY DEF OneWaits
  <1>3. KnowsTheRun' BY DEF KnowsTheRun, UnderWay, WaitsForIt, RunOver
  <1>4. KnownIsUnderWay' BY DEF KnownIsUnderWay, UnderWay, KnowsTheRun
  <1>5. WaitsForIt' BY DEF WaitsForIt, UnderWay, OneWaits, KnowsTheRun, RunOver
  <1>6. FoundHasBegun' BY DEF FoundHasBegun, UnderWay, KnownIsUnderWay
  <1>7. FoundIsAwaited' BY DEF FoundIsAwaited, RunOver, UnderWay, FoundHasBegun, KnowsTheRun
  <1>8. FlagIsOwn' BY DEF FlagIsOwn, FoundHasBegun, UnderWay, KnowsTheRun
  <1>9. FoundRunEnds' BY DEF FoundRunEnds, RunOver, FoundIsAwaited, FoundHasBegun
  <1> QED BY <1>2, <1>3, <1>4, <1>5, <1>6, <1>7, <1>8, <1>9

\* The files are handed out.
LEMMA RunTestsIInv == ASSUME IInv, NEW r \in Runs, RunTests(r) PROVE IInv'
  <1> USE RunControlAssumption DEF IInv, TypeOK, Callers, Callees, Goes, RunTests
  <1>1. TypeOK' BY DEF RunPlaces, CancelPlaces, ClosePlaces
  <1> SUFFICES ASSUME ~raced' PROVE Orderly' BY <1>1
  <1> USE DEF Orderly
  <1>2. OneWaits' BY DEF OneWaits
  <1>3. KnowsTheRun' BY DEF KnowsTheRun, UnderWay, WaitsForIt, RunOver
  <1>4. KnownIsUnderWay' BY DEF KnownIsUnderWay, UnderWay, KnowsTheRun
  <1>5. WaitsForIt' BY DEF WaitsForIt, UnderWay, OneWaits, KnowsTheRun, RunOver
  <1>6. FoundHasBegun' BY DEF FoundHasBegun, UnderWay, KnownIsUnderWay
  <1>7. FoundIsAwaited' BY DEF FoundIsAwaited, RunOver, UnderWay, FoundHasBegun, KnowsTheRun
  <1>8. FlagIsOwn' BY DEF FlagIsOwn, FoundHasBegun, UnderWay, KnowsTheRun
  <1>9. FoundRunEnds' BY DEF FoundRunEnds, RunOver, FoundIsAwaited, FoundHasBegun
  <1> QED BY <1>2, <1>3, <1>4, <1>5, <1>6, <1>7, <1>8, <1>9

\* The files are settled.
LEMMA TestsEndIInv == ASSUME IInv, NEW r \in Runs, TestsEnd(r) PROVE IInv'
  <1> USE RunControlAssumption DEF IInv, TypeOK, Callers, Callees, Goes, TestsEnd, shared
  <1>1. TypeOK' BY DEF RunPlaces, CancelPlaces, ClosePlaces
  <1> SUFFICES ASSUME ~raced' PROVE Orderly' BY <1>1
  <1> USE DEF Orderly
  <1>2. OneWaits' BY DEF OneWaits
  <1>3. KnowsTheRun' BY DEF KnowsTheRun, UnderWay, WaitsForIt, RunOver
  <1>4. KnownIsUnderWay' BY DEF KnownIsUnderWay, UnderWay, KnowsTheRun
  <1>5. WaitsForIt' BY DEF WaitsForIt, UnderWay, OneWaits, KnowsTheRun, RunOver
  <1>6. FoundHasBegun' BY DEF FoundHasBegun, UnderWay, KnownIsUnderWay
  <1>7. FoundIsAwaited' BY DEF FoundIsAwaited, RunOver, UnderWay, FoundHasBegun, KnowsTheRun
  <1>8. FlagIsOwn' BY DEF FlagIsOwn, FoundHasBegun, UnderWay, KnowsTheRun
  <1>9. FoundRunEnds' BY DEF FoundRunEnds, RunOver, FoundIsAwaited, FoundHasBegun
  <1> QED BY <1>2, <1>3, <1>4, <1>5, <1>6, <1>7, <1>8, <1>9

\* The run forgets its own promise: it is the only one under way.
LEMMA EndIInv == ASSUME IInv, NEW r \in Runs, End(r) PROVE IInv'
  <1> USE RunControlAssumption DEF IInv, TypeOK, Callers, Callees, Goes, End
  <1>1. TypeOK' BY DEF RunPlaces, CancelPlaces, ClosePlaces
  <1> SUFFICES ASSUME ~raced' PROVE Orderly' BY <1>1
  <1> USE DEF Orderly
  <1>2. OneWaits' BY DEF OneWaits
  <1>3. KnowsTheRun' BY DEF KnowsTheRun, UnderWay, WaitsForIt, RunOver
  <1>4. KnownIsUnderWay' BY DEF KnownIsUnderWay, UnderWay, KnowsTheRun
  <1>5. WaitsForIt' BY DEF WaitsForIt, UnderWay, OneWaits, KnowsTheRun, RunOver
  <1>6. FoundHasBegun' BY DEF FoundHasBegun, UnderWay, KnownIsUnderWay
  <1>7. FoundIsAwaited' BY DEF FoundIsAwaited, RunOver, UnderWay, FoundHasBegun, KnowsTheRun
  <1>8. FlagIsOwn' BY DEF FlagIsOwn, FoundHasBegun, UnderWay, KnowsTheRun
  <1>9. FoundRunEnds' BY DEF FoundRunEnds, RunOver, FoundIsAwaited, FoundHasBegun
  <1> QED BY <1>2, <1>3, <1>4, <1>5, <1>6, <1>7, <1>8, <1>9

\* Whether workers are alive decides how long the calls wait, not for whom.
LEMMA WorkersStopIInv == ASSUME IInv, WorkersStop PROVE IInv'
  <1> USE RunControlAssumption DEF IInv, TypeOK, Callers, Callees, Goes, WorkersStop, calls
  <1>1. TypeOK' BY DEF RunPlaces, CancelPlaces, ClosePlaces
  <1> SUFFICES ASSUME ~raced' PROVE Orderly' BY <1>1
  <1> USE DEF Orderly
  <1>2. OneWaits' BY DEF OneWaits
  <1>3. KnowsTheRun' BY DEF KnowsTheRun, UnderWay, WaitsForIt, RunOver
  <1>4. KnownIsUnderWay' BY DEF KnownIsUnderWay, UnderWay, KnowsTheRun
  <1>5. WaitsForIt' BY DEF WaitsForIt, UnderWay, OneWaits, KnowsTheRun, RunOver
  <1>6. FoundHasBegun' BY DEF FoundHasBegun, UnderWay, KnownIsUnderWay
  <1>7. FoundIsAwaited' BY DEF FoundIsAwaited, RunOver, UnderWay, FoundHasBegun, KnowsTheRun
  <1>8. FlagIsOwn' BY DEF FlagIsOwn, FoundHasBegun, UnderWay, KnowsTheRun
  <1>9. FoundRunEnds' BY DEF FoundRunEnds, RunOver, FoundIsAwaited, FoundHasBegun
  <1> QED BY <1>2, <1>3, <1>4, <1>5, <1>6, <1>7, <1>8, <1>9

\* The run that is found is under way, and its flag is set.
LEMMA CancelCurrentRunIInv == ASSUME IInv, NEW c \in Cancels, CancelCurrentRun(c) PROVE IInv'
  <1> USE RunControlAssumption DEF IInv, TypeOK, Callers, Callees, Goes, CancelCurrentRun, IsNext, PoolCancel
  <1>1. TypeOK' BY DEF RunPlaces, CancelPlaces, ClosePlaces
  <1> SUFFICES ASSUME ~raced' PROVE Orderly' BY <1>1
  <1> USE DEF Orderly
  <1>2. OneWaits' BY DEF OneWaits
  <1>3. KnowsTheRun' BY DEF KnowsTheRun, UnderWay, WaitsForIt, RunOver
  <1>4. KnownIsUnderWay' BY DEF KnownIsUnderWay, UnderWay, KnowsTheRun
  <1>5. WaitsForIt' BY DEF WaitsForIt, UnderWay, OneWaits, KnowsTheRun, RunOver
  <1>6. FoundHasBegun' BY DEF FoundHasBegun, UnderWay, KnownIsUnderWay
  <1>7. FoundIsAwaited' BY DEF FoundIsAwaited, RunOver, UnderWay, FoundHasBegun, KnowsTheRun
  <1>8. FlagIsOwn' BY DEF FlagIsOwn, FoundHasBegun, UnderWay, KnowsTheRun
  <1>9. FoundRunEnds' BY DEF FoundRunEnds, RunOver, FoundIsAwaited, FoundHasBegun
  <1> QED BY <1>2, <1>3, <1>4, <1>5, <1>6, <1>7, <1>8, <1>9

\* The pool has cancelled, the call is still to read runningPromise.
LEMMA ListenersDoneIInv == ASSUME IInv, NEW c \in Cancels, ListenersDone(c) PROVE IInv'
  <1> USE RunControlAssumption DEF IInv, TypeOK, Callers, Callees, Goes, ListenersDone, PoolCancelled
  <1>1. TypeOK' BY DEF RunPlaces, CancelPlaces, ClosePlaces
  <1> SUFFICES ASSUME ~raced' PROVE Orderly' BY <1>1
  <1> USE DEF Orderly
  <1>2. OneWaits' BY DEF OneWaits
  <1>3. KnowsTheRun' BY DEF KnowsTheRun, UnderWay, WaitsForIt, RunOver
  <1>4. KnownIsUnderWay' BY DEF KnownIsUnderWay, UnderWay, KnowsTheRun
  <1>5. WaitsForIt' BY DEF WaitsForIt, UnderWay, OneWaits, KnowsTheRun, RunOver
  <1>6. FoundHasBegun' BY DEF FoundHasBegun, UnderWay, KnownIsUnderWay
  <1>7. FoundIsAwaited' BY DEF FoundIsAwaited, RunOver, UnderWay, FoundHasBegun, KnowsTheRun
  <1>8. FlagIsOwn' BY DEF FlagIsOwn, FoundHasBegun, UnderWay, KnowsTheRun
  <1>9. FoundRunEnds' BY DEF FoundRunEnds, RunOver, FoundIsAwaited, FoundHasBegun
  <1> QED BY <1>2, <1>3, <1>4, <1>5, <1>6, <1>7, <1>8, <1>9

\* Read again, the promise is the one of the run that was found, unless that is over.
LEMMA CancelSettlesIInv == ASSUME IInv, NEW c \in Cancels, CancelSettles(c) PROVE IInv'
  <1> USE RunControlAssumption DEF IInv, TypeOK, Callers, Callees, Goes, CancelSettles, PreviousRun
  <1>1. TypeOK' BY DEF RunPlaces, CancelPlaces, ClosePlaces
  <1> SUFFICES ASSUME ~raced' PROVE Orderly' BY <1>1
  <1> USE DEF Orderly
  <1>2. OneWaits' BY DEF OneWaits
  <1>3. KnowsTheRun' BY DEF KnowsTheRun, UnderWay, WaitsForIt, RunOver
  <1>4. KnownIsUnderWay' BY DEF KnownIsUnderWay, UnderWay, KnowsTheRun
  <1>5. WaitsForIt' BY DEF WaitsForIt, UnderWay, OneWaits, KnowsTheRun, RunOver
  <1>6. FoundHasBegun' BY DEF FoundHasBegun, UnderWay, KnownIsUnderWay
  <1>7. FoundIsAwaited' BY DEF FoundIsAwaited, RunOver, UnderWay, FoundHasBegun, KnowsTheRun
  <1>8. FlagIsOwn' BY DEF FlagIsOwn, FoundHasBegun, UnderWay, KnowsTheRun
  <1>9. FoundRunEnds' BY DEF FoundRunEnds, RunOver, FoundIsAwaited, FoundHasBegun
  <1> QED BY <1>2, <1>3, <1>4, <1>5, <1>6, <1>7, <1>8, <1>9

\* The run that was found was waited for.
LEMMA CancelReturnsIInv == ASSUME IInv, NEW c \in Cancels, CancelReturns(c) PROVE IInv'
  <1> USE RunControlAssumption DEF IInv, TypeOK, Callers, Callees, Goes, CancelReturns, MayGoOn, shared
  <1>1. TypeOK' BY DEF RunPlaces, CancelPlaces, ClosePlaces
  <1> SUFFICES ASSUME ~raced' PROVE Orderly' BY <1>1
  <1> USE DEF Orderly
  <1>2. OneWaits' BY DEF OneWaits
  <1>3. KnowsTheRun' BY DEF KnowsTheRun, UnderWay, WaitsForIt, RunOver
  <1>4. KnownIsUnderWay' BY DEF KnownIsUnderWay, UnderWay, KnowsTheRun
  <1>5. WaitsForIt' BY DEF WaitsForIt, UnderWay, OneWaits, KnowsTheRun, RunOver
  <1>6. FoundHasBegun' BY DEF FoundHasBegun, UnderWay, KnownIsUnderWay
  <1>7. FoundIsAwaited' BY DEF FoundIsAwaited, RunOver, UnderWay, FoundHasBegun, KnowsTheRun
  <1>8. FlagIsOwn' BY DEF FlagIsOwn, FoundHasBegun, UnderWay, KnowsTheRun
  <1>9. FoundRunEnds' BY DEF FoundRunEnds, RunOver, FoundIsAwaited, FoundHasBegun
  <1> QED BY <1>2, <1>3, <1>4, <1>5, <1>6, <1>7, <1>8, <1>9

\* close() finds and reads the same promise.
LEMMA CloseIInv == ASSUME IInv, Close PROVE IInv'
  <1> USE RunControlAssumption DEF IInv, TypeOK, Callers, Callees, Goes, Close, PreviousRun, shared
  <1>1. TypeOK' BY DEF RunPlaces, CancelPlaces, ClosePlaces
  <1> SUFFICES ASSUME ~raced' PROVE Orderly' BY <1>1
  <1> USE DEF Orderly
  <1>2. OneWaits' BY DEF OneWaits
  <1>3. KnowsTheRun' BY DEF KnowsTheRun, UnderWay, WaitsForIt, RunOver
  <1>4. KnownIsUnderWay' BY DEF KnownIsUnderWay, UnderWay, KnowsTheRun
  <1>5. WaitsForIt' BY DEF WaitsForIt, UnderWay, OneWaits, KnowsTheRun, RunOver
  <1>6. FoundHasBegun' BY DEF FoundHasBegun, UnderWay, KnownIsUnderWay
  <1>7. FoundIsAwaited' BY DEF FoundIsAwaited, RunOver, UnderWay, FoundHasBegun, KnowsTheRun
  <1>8. FlagIsOwn' BY DEF FlagIsOwn, FoundHasBegun, UnderWay, KnowsTheRun
  <1>9. FoundRunEnds' BY DEF FoundRunEnds, RunOver, FoundIsAwaited, FoundHasBegun
  <1> QED BY <1>2, <1>3, <1>4, <1>5, <1>6, <1>7, <1>8, <1>9

\* The run that close() found was waited for.
LEMMA TearDownIInv == ASSUME IInv, TearDown PROVE IInv'
  <1> USE RunControlAssumption DEF IInv, TypeOK, Callers, Callees, Goes, TearDown, MayGoOn, shared
  <1>1. TypeOK' BY DEF RunPlaces, CancelPlaces, ClosePlaces
  <1> SUFFICES ASSUME ~raced' PROVE Orderly' BY <1>1
  <1> USE DEF Orderly
  <1>2. OneWaits' BY DEF OneWaits
  <1>3. KnowsTheRun' BY DEF KnowsTheRun, UnderWay, WaitsForIt, RunOver
  <1>4. KnownIsUnderWay' BY DEF KnownIsUnderWay, UnderWay, KnowsTheRun
  <1>5. WaitsForIt' BY DEF WaitsForIt, UnderWay, OneWaits, KnowsTheRun, RunOver
  <1>6. FoundHasBegun' BY DEF FoundHasBegun, UnderWay, KnownIsUnderWay
  <1>7. FoundIsAwaited' BY DEF FoundIsAwaited, RunOver, UnderWay, FoundHasBegun, KnowsTheRun
  <1>8. FlagIsOwn' BY DEF FlagIsOwn, FoundHasBegun, UnderWay, KnowsTheRun
  <1>9. FoundRunEnds' BY DEF FoundRunEnds, RunOver, FoundIsAwaited, FoundHasBegun
  <1> QED BY <1>2, <1>3, <1>4, <1>5, <1>6, <1>7, <1>8, <1>9

\* The pool is closed by a close() that has waited.
LEMMA ClosePoolIInv == ASSUME IInv, ClosePool PROVE IInv'
  <1> USE RunControlAssumption DEF IInv, TypeOK, Callers, Callees, Goes, ClosePool, PoolCancel
  <1>1. TypeOK' BY DEF RunPlaces, CancelPlaces, ClosePlaces
  <1> SUFFICES ASSUME ~raced' PROVE Orderly' BY <1>1
  <1> USE DEF Orderly
  <1>2. OneWaits' BY DEF OneWaits
  <1>3. KnowsTheRun' BY DEF KnowsTheRun, UnderWay, WaitsForIt, RunOver
  <1>4. KnownIsUnderWay' BY DEF KnownIsUnderWay, UnderWay, KnowsTheRun
  <1>5. WaitsForIt' BY DEF WaitsForIt, UnderWay, OneWaits, KnowsTheRun, RunOver
  <1>6. FoundHasBegun' BY DEF FoundHasBegun, UnderWay, KnownIsUnderWay
  <1>7. FoundIsAwaited' BY DEF FoundIsAwaited, RunOver, UnderWay, FoundHasBegun, KnowsTheRun
  <1>8. FlagIsOwn' BY DEF FlagIsOwn, FoundHasBegun, UnderWay, KnowsTheRun
  <1>9. FoundRunEnds' BY DEF FoundRunEnds, RunOver, FoundIsAwaited, FoundHasBegun
  <1> QED BY <1>2, <1>3, <1>4, <1>5, <1>6, <1>7, <1>8, <1>9

\* close() returns after that.
LEMMA CloseServersIInv == ASSUME IInv, CloseServers PROVE IInv'
  <1> USE RunControlAssumption DEF IInv, TypeOK, Callers, Callees, Goes, CloseServers, PoolCancelled
  <1>1. TypeOK' BY DEF RunPlaces, CancelPlaces, ClosePlaces
  <1> SUFFICES ASSUME ~raced' PROVE Orderly' BY <1>1
  <1> USE DEF Orderly
  <1>2. OneWaits' BY DEF OneWaits
  <1>3. KnowsTheRun' BY DEF KnowsTheRun, UnderWay, WaitsForIt, RunOver
  <1>4. KnownIsUnderWay' BY DEF KnownIsUnderWay, UnderWay, KnowsTheRun
  <1>5. WaitsForIt' BY DEF WaitsForIt, UnderWay, OneWaits, KnowsTheRun, RunOver
  <1>6. FoundHasBegun' BY DEF FoundHasBegun, UnderWay, KnownIsUnderWay
  <1>7. FoundIsAwaited' BY DEF FoundIsAwaited, RunOver, UnderWay, FoundHasBegun, KnowsTheRun
  <1>8. FlagIsOwn' BY DEF FlagIsOwn, FoundHasBegun, UnderWay, KnowsTheRun
  <1>9. FoundRunEnds' BY DEF FoundRunEnds, RunOver, FoundIsAwaited, FoundHasBegun
  <1> QED BY <1>2, <1>3, <1>4, <1>5, <1>6, <1>7, <1>8, <1>9

-----------------------------------------------------------------------------
\* No call has been made.
LEMMA InitIInv == Init => IInv
  BY RunControlAssumption
     DEF Init, IInv, Orderly, TypeOK, Callers, Callees, RunPlaces, CancelPlaces, ClosePlaces, OneWaits,
         KnowsTheRun, KnownIsUnderWay, WaitsForIt, UnderWay, FoundHasBegun, FoundIsAwaited,
         RunOver, FlagIsOwn, FoundRunEnds

\* Every step of every call preserves the invariant.
LEMMA NextIInv == IInv /\ [Next]_vars => IInv'
  <1> SUFFICES ASSUME IInv, [Next]_vars PROVE IInv'
    OBVIOUS
  <1>1. CASE Resumed
    BY <1>1, CancelAwaitedIInv, BeginIInv, CancelSettlesIInv, CancelReturnsIInv, ListenersDoneIInv,
       TearDownIInv, CloseServersIInv DEF Resumed
  <1>2. ASSUME NEW r \in Runs, RunFiles(r) \/ Proceeds(r) PROVE IInv'
    BY <1>2, RunFilesIInv, StartedIInv, ListenIInv, RunTestsIInv, TestsEndIInv, EndIInv DEF Proceeds
  <1>3. CASE Close \/ ClosePool \/ WorkersStop \/ \E c \in Cancels : CancelCurrentRun(c)
    BY <1>3, CloseIInv, ClosePoolIInv, WorkersStopIInv, CancelCurrentRunIInv
  <1>4. CASE UNCHANGED vars
    BY <1>4 DEF vars, shared, calls, IInv, Orderly, TypeOK, OneWaits, KnowsTheRun, KnownIsUnderWay,
                WaitsForIt, UnderWay, FoundHasBegun, FoundIsAwaited, RunOver, FlagIsOwn, FoundRunEnds
  <1> QED BY <1>1, <1>2, <1>3, <1>4 DEF Next

\* The inductive invariant holds in every behaviour.
THEOREM ControlInv == Spec => []IInv
  BY InitIInv, NextIInv, PTL DEF Spec

\* Types, with the places every kind of call can be in.
THEOREM ControlTypeOK == Spec => []TypeOK
  <1>1. IInv => TypeOK BY DEF IInv
  <1> QED BY <1>1, ControlInv, PTL

\* runningPromise is the run under way, so there is never more than one, for any number of
\* reruns, cancels and a close, in whatever order their awaits resume, unless two calls of
\* runFiles have awaited runningPromise at the same time: no other overlap of calls, at
\* cancelPromise, in the reporters or with a cancel or the close, makes two runs.
THEOREM ControlRunIsKnown == Spec => []RunIsKnown
  <1>1. IInv => RunIsKnown BY DEF IInv, Orderly, RunIsKnown
  <1> QED BY <1>1, ControlInv, PTL

\* cancelCurrentRun and close go on when the run they were called in is over.
THEOREM ControlFoundRunEnds == Spec => []FoundRunEnds
  <1>1. IInv => FoundRunEnds BY DEF IInv, Orderly, FoundRunEnds
  <1> QED BY <1>1, ControlInv, PTL

\* A cancel keeps its own run, and no other, from handing out its files.
THEOREM ControlCancelSticks == Spec => CancelSticks
  <1> DEFINE Sticks ==
        \A r \in Runs : pc[r] = "listening" /\ pc'[r] # "listening" /\ ~poolCancelling /\ ~raced
          => (pc'[r] = "finishing" <=> \E c \in Cancels : found[c] = r)
  <1>1. ASSUME IInv, Next, NEW r \in Runs, pc[r] = "listening", pc'[r] # "listening"
        PROVE  RunTests(r)
    <2> USE RunControlAssumption DEF Goes, IInv, TypeOK, Callers
    <2>1. CASE Resumed
      BY <1>1, <2>1 DEF Resumed, CancelAwaited, Begin, CancelSettles, CancelReturns, ListenersDone,
                        PoolCancelled, TearDown, CloseServers
    <2>2. ASSUME NEW s \in Runs, RunFiles(s) \/ Proceeds(s) PROVE RunTests(r)
      BY <1>1, <2>2 DEF RunFiles, IsNext, Proceeds, Started, Listen, RunTests, TestsEnd, End
    <2>3. CASE Close \/ ClosePool \/ WorkersStop \/ \E c \in Cancels : CancelCurrentRun(c)
      BY <1>1, <2>3 DEF Close, ClosePool, WorkersStop, calls, CancelCurrentRun, IsNext, PoolCancel
    <2> QED BY <1>1, <2>1, <2>2, <2>3 DEF Next
  <1>2. ASSUME IInv, NEW r \in Runs, RunTests(r), ~poolCancelling, ~raced
        PROVE  pc'[r] = "finishing" <=> \E c \in Cancels : found[c] = r
    BY <1>2 DEF IInv, Orderly, TypeOK, FlagIsOwn, Callers, Goes, RunTests, FilesSkipped
  <1>3. IInv /\ [Next]_vars => [Sticks]_vars BY <1>1, <1>2
  <1> QED BY <1>3, ControlInv, PTL DEF Spec, CancelSticks
=============================================================================
