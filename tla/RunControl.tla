----------------------------- MODULE RunControl -----------------------------
(***************************************************************************)
(* When a test run may begin, and what may end it: runFiles,               *)
(* cancelCurrentRun and close of class Vitest                              *)
(* (packages/vitest/src/node/core.ts) with the part of executeTests        *)
(* (packages/vitest/src/node/pool.ts) that listens to cancels.             *)
(*                                                                         *)
(* The three methods know of each other through runningPromise,            *)
(* cancelPromise, isCancelling and the set of cancel listeners only.  Each *)
(* of them reads a promise, awaits it, and does not look again.  The pool  *)
(* is seen from outside, module Pool models what is in it.                 *)
(*                                                                         *)
(* Resumed awaits (microtasks) run before other events, as in Pool.  The   *)
(* calls of a method are numbered in the order they are made in.           *)
(***************************************************************************)
EXTENDS Naturals

CONSTANTS
  Runs,       \* the calls of runFiles: reruns of the watcher, of a key, of the UI, of the API
  Cancels,    \* the calls of cancelCurrentRun
  Closer,     \* the call of close()
  None

Callers == Runs \cup Cancels \cup {Closer}

ASSUME RunControlAssumption ==
  /\ Runs \cup Cancels \subseteq Nat
  /\ Runs \cap Cancels = {} /\ Closer \notin Runs \cup Cancels /\ None \notin Callers

VARIABLES
  runningPromise, cancelPromise,   \* the call the promise belongs to, or None
  isCancelling,
  listeners,        \* _onCancelListeners: the runs whose executeTests has registered one
  poolCancelling,   \* Pool._isCancelling
  workers,          \* a worker of the pool runs a file or has not stopped yet
  pc,               \* where each call is
  awaits,           \* the call whose promise it awaits, or None
  found,            \* the run a cancel or the close was called in, or None
  refused,          \* pool.run() was called while the pool was cancelling
  raced             \* two calls of runFiles have awaited runningPromise at the same time

shared == <<runningPromise, cancelPromise, isCancelling, listeners, poolCancelling, workers>>
calls == <<pc, awaits, found, refused, raced>>
vars == <<shared, calls>>

UnderWay(r) == pc[r] \in {"setup", "listening", "tests", "finishing"}

\* A promise that was read as undefined is nothing to wait for.
RunOver(r) == r # None => pc[r] = "over"
CancelSettled(c) == c # None => pc[c] \in {"awaitsRun", "over"}

\* The next of the calls of a method.
IsNext(x, S) == pc[x] = "none" /\ \A y \in S : y < x => pc[y] # "none"

Goes(x, where) == pc' = [pc EXCEPT ![x] = where]

-----------------------------------------------------------------------------
\* Mutated forms of definitions below, for the properties to catch.
AwaitsNothing(r) == None
AwaitsItself(r) == r
LeavesAtOnce(x) == TRUE
FlagStays == isCancelling

-----------------------------------------------------------------------------
Init ==
  /\ runningPromise = None /\ cancelPromise = None
  /\ isCancelling = FALSE /\ listeners = {} /\ poolCancelling = FALSE /\ workers = FALSE
  /\ pc = [x \in Callers |-> "none"]
  /\ awaits = [x \in Callers |-> None]
  /\ found = [x \in Callers |-> None]
  /\ refused = FALSE /\ raced = FALSE

\* No await can resume.
Quiescent ==
  /\ \A x \in Callers : pc[x] # "settled" /\ (pc[x] = "pool" => workers)
  /\ \A r \in Runs : pc[r] = "awaitsCancel" => ~CancelSettled(awaits[r])
  /\ \A x \in Callers : pc[x] = "awaitsRun" => ~RunOver(awaits[x])

-----------------------------------------------------------------------------
\* runFiles

RunFiles(r) ==
  /\ Quiescent
  /\ IsNext(r, Runs) /\ pc[Closer] = "none"
  /\ Goes(r, "starting")
  /\ UNCHANGED <<shared, awaits, found, refused, raced>>

\* The reporters have been told: `await this.cancelPromise` ...
Started(r) ==
  /\ Quiescent
  /\ pc[r] = "starting"
  /\ Goes(r, "awaitsCancel")
  /\ awaits' = [awaits EXCEPT ![r] = cancelPromise]
  /\ UNCHANGED <<shared, found, refused, raced>>

\* ... `await this.runningPromise` ...
PreviousRun(r) == runningPromise

CancelAwaited(r) ==
  /\ pc[r] = "awaitsCancel" /\ CancelSettled(awaits[r])
  /\ Goes(r, "awaitsRun")
  /\ awaits' = [awaits EXCEPT ![r] = PreviousRun(r)]
  /\ raced' = (raced \/ \E s \in Runs : pc[s] = "awaitsRun")
  /\ UNCHANGED <<shared, found, refused>>

\* ... and the run begins, whatever has happened since these were read.
ResetFlag == FALSE

Begin(r) ==
  /\ pc[r] = "awaitsRun" /\ RunOver(awaits[r])
  /\ Goes(r, "setup")
  /\ runningPromise' = r
  /\ listeners' = {} /\ isCancelling' = ResetFlag
  /\ awaits' = [awaits EXCEPT ![r] = None]
  /\ UNCHANGED <<cancelPromise, poolCancelling, workers, found, refused, raced>>

\* executeTests: `ctx.onCancel(() => pool.cancel())`, then it reads the files' options.
Listen(r) ==
  /\ Quiescent
  /\ pc[r] = "setup"
  /\ Goes(r, "listening")
  /\ listeners' = listeners \cup {r}
  /\ UNCHANGED <<runningPromise, cancelPromise, isCancelling, poolCancelling, workers, awaits, found, refused, raced>>

\* Every file is skipped, or refused by the pool, or runs.
FilesSkipped == isCancelling

RunTests(r) ==
  /\ Quiescent
  /\ pc[r] = "listening"
  /\ Goes(r, IF FilesSkipped \/ poolCancelling THEN "finishing" ELSE "tests")
  /\ refused' = (refused \/ (~FilesSkipped /\ poolCancelling))
  /\ workers' = (workers \/ (~FilesSkipped /\ ~poolCancelling))
  /\ UNCHANGED <<runningPromise, cancelPromise, isCancelling, listeners, poolCancelling, awaits, found, raced>>

\* All files are settled.
TestsEnd(r) ==
  /\ Quiescent
  /\ pc[r] = "tests"
  /\ Goes(r, "finishing")
  /\ UNCHANGED <<shared, awaits, found, refused, raced>>

\* Files of the same run have their workers stopped behind them; the last ones have stopped.
WorkersStop ==
  /\ Quiescent
  /\ workers /\ \A r \in Runs : pc[r] # "tests"
  /\ workers' = FALSE
  /\ UNCHANGED <<runningPromise, cancelPromise, isCancelling, listeners, poolCancelling, calls>>

\* Coverage and reporters are done; the promise is forgotten, its own or a later one.
End(r) ==
  /\ Quiescent
  /\ pc[r] = "finishing"
  /\ Goes(r, "over")
  /\ runningPromise' = None
  /\ UNCHANGED <<cancelPromise, isCancelling, listeners, poolCancelling, workers, awaits, found, refused, raced>>

-----------------------------------------------------------------------------
\* pool.cancel(): files that run come to their end, and their workers stop, before it returns.

PoolCancel(x) ==
  /\ Goes(x, "pool")
  /\ poolCancelling' = TRUE

PoolCancelled(x) ==
  /\ pc[x] = "pool" /\ ~workers
  /\ poolCancelling' = FALSE

-----------------------------------------------------------------------------
\* cancelCurrentRun

CancelCurrentRun(c) ==
  /\ Quiescent
  /\ IsNext(c, Cancels)
  /\ isCancelling' = TRUE
  /\ cancelPromise' = c
  /\ found' = [found EXCEPT ![c] = runningPromise]
  /\ \/ listeners # {} /\ PoolCancel(c)
     \/ listeners = {} /\ Goes(c, "settled") /\ UNCHANGED poolCancelling
  /\ UNCHANGED <<runningPromise, listeners, workers, awaits, refused, raced>>

ListenersDone(c) ==
  /\ PoolCancelled(c)
  /\ Goes(c, "settled")
  /\ UNCHANGED <<runningPromise, cancelPromise, isCancelling, listeners, workers, awaits, found, refused, raced>>

\* `finally(() => (this.cancelPromise = undefined))`, then `await this.runningPromise`.
CancelSettles(c) ==
  /\ pc[c] = "settled"
  /\ Goes(c, "awaitsRun")
  /\ cancelPromise' = None
  /\ awaits' = [awaits EXCEPT ![c] = PreviousRun(c)]
  /\ UNCHANGED <<runningPromise, isCancelling, listeners, poolCancelling, workers, found, refused, raced>>

\* The run read last is over.
MayGoOn(x) == RunOver(awaits[x])

CancelReturns(c) ==
  /\ pc[c] = "awaitsRun" /\ MayGoOn(c)
  /\ Goes(c, "over")
  /\ awaits' = [awaits EXCEPT ![c] = None]
  /\ UNCHANGED <<shared, found, refused, raced>>

-----------------------------------------------------------------------------
\* close

Close ==
  /\ Quiescent
  /\ pc[Closer] = "none"
  /\ Goes(Closer, "awaitsRun")
  /\ found' = [found EXCEPT ![Closer] = runningPromise]
  /\ awaits' = [awaits EXCEPT ![Closer] = PreviousRun(Closer)]
  /\ UNCHANGED <<shared, refused, raced>>

\* The global setup is torn down ...
TearDown ==
  /\ pc[Closer] = "awaitsRun" /\ MayGoOn(Closer)
  /\ Goes(Closer, "teardown")
  /\ awaits' = [awaits EXCEPT ![Closer] = None]
  /\ UNCHANGED <<shared, found, refused, raced>>

\* ... then the pool, which the first run has created, is closed ...
HasPool == \E r \in Runs : UnderWay(r) \/ pc[r] = "over"

ClosePool ==
  /\ Quiescent
  /\ pc[Closer] = "teardown"
  /\ \/ HasPool /\ PoolCancel(Closer)
     \/ ~HasPool /\ Goes(Closer, "over") /\ UNCHANGED poolCancelling
  /\ UNCHANGED <<runningPromise, cancelPromise, isCancelling, listeners, workers, awaits, found, refused, raced>>

\* ... and the servers are.
CloseServers ==
  /\ PoolCancelled(Closer)
  /\ Goes(Closer, "over")
  /\ UNCHANGED <<runningPromise, cancelPromise, isCancelling, listeners, workers, awaits, found, refused, raced>>

-----------------------------------------------------------------------------
Resumed ==
  \/ \E r \in Runs : CancelAwaited(r) \/ Begin(r)
  \/ \E c \in Cancels : CancelSettles(c) \/ CancelReturns(c) \/ ListenersDone(c)
  \/ TearDown \/ CloseServers

Proceeds(r) == Started(r) \/ Listen(r) \/ RunTests(r) \/ TestsEnd(r) \/ End(r)

Next ==
  \/ Resumed
  \/ \E r \in Runs : RunFiles(r) \/ Proceeds(r)
  \/ \E c \in Cancels : CancelCurrentRun(c)
  \/ Close \/ ClosePool \/ WorkersStop

\* Promises resolve, reporters return, files end and workers stop.  Nobody has to call.
Spec ==
  /\ Init /\ [][Next]_vars
  /\ WF_vars(Resumed)
  /\ \A r \in Runs : WF_vars(Proceeds(r))
  /\ WF_vars(ClosePool) /\ WF_vars(WorkersStop)

-----------------------------------------------------------------------------
RunPlaces == {"none", "starting", "awaitsCancel", "awaitsRun", "setup", "listening", "tests",
              "finishing", "over"}
CancelPlaces == {"none", "pool", "settled", "awaitsRun", "over"}
ClosePlaces == {"none", "awaitsRun", "teardown", "pool", "over"}

TypeOK ==
  /\ runningPromise \in Runs \cup {None} /\ cancelPromise \in Cancels \cup {None}
  /\ isCancelling \in BOOLEAN /\ poolCancelling \in BOOLEAN
  /\ workers \in BOOLEAN /\ refused \in BOOLEAN /\ raced \in BOOLEAN
  /\ listeners \subseteq Runs
  /\ pc \in [Callers -> RunPlaces \cup CancelPlaces \cup ClosePlaces]
  /\ \A r \in Runs : pc[r] \in RunPlaces
  /\ \A c \in Cancels : pc[c] \in CancelPlaces
  /\ pc[Closer] \in ClosePlaces
  /\ awaits \in [Callers -> Runs \cup Cancels \cup {None}]
  /\ found \in [Callers -> Runs \cup {None}]

\* The run under way is the one runningPromise stands for, so there is only one.
KnowsTheRun == \A r \in Runs : UnderWay(r) => runningPromise = r

\* However many calls of runFiles are made, and whatever they wait for before, one thing only
\* can make a run unknown: that two calls have awaited runningPromise at the same time.  They
\* both go on when it settles, which the code does not prevent (KnowsTheRun, below).
RunIsKnown == ~raced => KnowsTheRun

\* cancelCurrentRun returns, and close goes on to tear things down, when the run they were
\* called in is over, though they read runningPromise only after other awaits, as long as no
\* two runs have been let in at once.
FoundRunEnds ==
  ~raced => \A x \in Cancels \cup {Closer} :
    pc[x] \in {"teardown", "over"} \/ (x = Closer /\ pc[x] = "pool") => RunOver(found[x])

\* A run that was cancelled before its files were handed out, even before it listens to
\* cancels, runs none of them; and a cancel of an earlier run does not keep it from them.  A
\* run let in with another resets the flag of that one, which is left out (raced).
CancelSticks ==
  [][\A r \in Runs : pc[r] = "listening" /\ pc'[r] # "listening" /\ ~poolCancelling /\ ~raced
       => (pc'[r] = "finishing" <=> \E c \in Cancels : found[c] = r)]_vars

\* Every call of runFiles, cancelCurrentRun and close returns, also if two runs were let in at
\* once: in the end none that was made still waits.  (A call that is over stays so.)
CallsReturn == <>[](\A x \in Callers : pc[x] \in {"none", "over"})

\* Disagreements between the code and its comments and tests (see README.md).

\* No "Cannot run tasks while pool is cancelling" errors should show up
\* (test/e2e/test/bail-race.test.ts, "cancels previous run before starting new one"), as long
\* as nobody closes the pool.
NoRunRefused == refused => raced \/ pc[Closer] # "none"

\* "If there is a test run happening, returns a promise that will resolve when the test run is
\* finished" (docs/api/advanced/vitest.md, waitForTestRunEnd, which returns runningPromise):
\* KnowsTheRun, with any calls.

\* "let an in-flight (re)run settle instead of tearing down under it" (core.ts, close): no
\* run is under way while the global setup is torn down, the pool and the servers close.
NoRunWhileClosing == pc[Closer] \in {"teardown", "pool", "over"} => \A r \in Runs : ~UnderWay(r)
=============================================================================
