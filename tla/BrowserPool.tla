---------------------------- MODULE BrowserPool ----------------------------
(***************************************************************************)
(* packages/vitest/src/node/pools/browser.ts: the pool of browser          *)
(* instances.  Every project (a browser instance) has at most one worker; *)
(* a worker keeps a queue of files, the promise of the run it is in, and   *)
(* the pages (sessions) it opened.  schedule() gives the slots to the      *)
(* projects of a run, closes idle browsers that are in the way, and lets   *)
(* the others open more pages when one is done.                            *)
(*                                                                         *)
(* Everything that Node runs as promise jobs comes before the next event   *)
(* (a message of a page, a timer): the events ask for ~JobsLeft.           *)
(***************************************************************************)
EXTENDS Integers, Sequences, FiniteSets, SequencesExt, FiniteSetsExt

CONSTANTS
    Projects,       \* browser instances with tests
    Exclusive,      \* those whose provider cannot share: BrowserTask.exclusive
    Headless,       \* those without a window: canEvict
    MaxPages,       \* MaxPages[p]: getThreadsCount
    Pages,          \* session ids, taken again once nothing refers to them
    Runs,           \* the runs, one after the other: [maxWorkers, files]
    Isolated,       \* those with config.isolate
    Cancels,        \* BOOLEAN: the user may cancel
    Faults,         \* subset of {"open", "close", "file", "tester"}
    MaxFaults,      \* bound on the number of faults
    None

FilesOf(r, p) == {<<p, r, i>> : i \in 1 .. Runs[r].files[p]}
AllFiles == UNION {FilesOf(r, p) : r \in 1 .. Len(Runs), p \in Projects}

ASSUME BrowserAssumption ==
    /\ Exclusive \subseteq Projects /\ Headless \subseteq Projects
    /\ MaxPages \in [Projects -> Nat \ {0}]
    /\ Isolated \subseteq Projects /\ Cancels \in BOOLEAN /\ MaxFaults \in Nat
    /\ Faults \subseteq {"open", "close", "file", "tester"}
    /\ \A i \in 1 .. Len(Runs) : /\ Runs[i].maxWorkers \in Nat \ {0}
                                 /\ Runs[i].files \in [Projects -> Nat]
    /\ Len(Runs) \in Nat /\ IsFiniteSet(Projects) /\ IsFiniteSet(Pages)
    /\ None \notin AllFiles

VARIABLES
    run,            \* index of the last run that was started
    stage,          \* "idle", "preparing" (providers start) or "running"
    cancelled,      \* isCancelled of this run, vitest.isCancelling
    result,         \* result[p]: task.result of this run
    queue,          \* projects whose task waits for a slot
    workers,        \* keys of the map, the least recently used first
    activeWorkers,  \* in the order in which they got their slot
    exclusiveRunning,
    worker,         \* worker[p]: the BrowserWorker of p
    orchestrators,  \* pages that are connected
    done,           \* files of this run that ended, however (history)
    faults          \* faults[i]: faults met in run i (history, bound)

browserVars == <<run, stage, cancelled, result, queue, workers, activeWorkers,
          exclusiveRunning, worker, orchestrators, done, faults>>
pool == <<queue, workers, activeWorkers, exclusiveRunning>>
control == <<run, stage, cancelled, result>>

maxWorkers == IF run = 0 THEN 1 ELSE Runs[run].maxWorkers
InRun(r) == {p \in Projects : Runs[r].files[p] > 0}

(***************************************************************************)
(* A worker.  `promise` says whether _promise is set, `outcome` how the    *)
(* promise of the last call of runTests ended, `call` how far that call    *)
(* came, `own` the pages it awaits in openPages, `grown` those the calls   *)
(* from grow() await, and `file` what createTesters runs in a page.        *)
(***************************************************************************)
\* op(value), the value evaluated once (TLC passes arguments by name).
Of(op(_), value) == CHOOSE r \in {op(x) : x \in {value}} : TRUE

NewWorker(p) ==
    [isolate |-> p \in Isolated,
     queue |-> <<>>, promise |-> FALSE, outcome |-> "pending", error |-> FALSE,
     started |-> FALSE, call |-> "none", own |-> {}, grown |-> {},
     sessions |-> {}, busy |-> {}, opening |-> {}, ready |-> {},
     cleaning |-> {}, file |-> [s \in Pages |-> None]]

BrowserInit ==
    /\ run = 0 /\ stage = "idle" /\ cancelled = FALSE
    /\ result = [p \in Projects |-> "none"]
    /\ queue = <<>> /\ workers = <<>> /\ activeWorkers = <<>>
    /\ exclusiveRunning = FALSE
    /\ worker = [p \in Projects |-> NewWorker(p)]
    /\ orchestrators = {} /\ done = {}
    /\ faults = [r \in 1 .. Len(Runs) |-> 0]

\* settle: the run of this worker is over, well or not.
Settle(w) ==
    [w EXCEPT !.promise = FALSE, !.error = FALSE,
              !.outcome = IF ~w.promise \/ @ # "pending" THEN @
                          ELSE IF w.error THEN "error" ELSE "ok"]

\* Mutant of SettleUnlessBusy.
SettlesAtOnce(w) == Settle(w)

SettleUnlessBusy(w) == IF w.busy = {} THEN Settle(w) ELSE w

\* Mutant of Reject.
KeepsQueue(w, isError, gone) ==
    SettleUnlessBusy([w EXCEPT !.error = @ \/ isError, !.busy = @ \ gone])

\* reject: the rest of the queue is dropped, busy pages finish their file.
Reject(w, isError, gone) ==
    SettleUnlessBusy([w EXCEPT !.error = @ \/ isError, !.busy = @ \ gone,
                               !.queue = <<>>])

FinishSession(w, s) ==
    SettleUnlessBusy([w EXCEPT !.busy = @ \ {s}, !.ready = @ \cup {s},
                               !.cleaning = @ \ {s}])

\* runNextTest throws when the run or the page is gone; the file is lost.
NextThrows(w, s, pages) ==
    IF w.queue = <<>> THEN ~w.isolate /\ s \notin pages
    ELSE ~w.promise \/ s \notin pages

RunNextTest(w, s, pages) ==
    CASE NextThrows(w, s, pages) ->
            [w EXCEPT !.queue = IF @ = <<>> THEN @ ELSE Tail(@)]
      [] w.queue # <<>> /\ ~NextThrows(w, s, pages) ->
            [w EXCEPT !.queue = Tail(@), !.busy = @ \cup {s},
                      !.ready = @ \ {s}, !.file[s] = Head(w.queue)]
      [] w.queue = <<>> /\ w.isolate -> FinishSession(w, s)
      [] OTHER -> [w EXCEPT !.cleaning = @ \cup {s}]

\* The pages nothing refers to.
Free(ws, pages) ==
    {s \in Pages \ pages :
        \A p \in Projects :
            /\ s \notin UNION {ws[p].sessions, ws[p].opening, ws[p].busy, ws[p].ready}
            /\ ws[p].file[s] = None}

\* n new session ids, or as many as the bound on Pages leaves.
NewPages(n, free) ==
    IF \E S \in SUBSET free : Cardinality(S) = n
    THEN CHOOSE S \in SUBSET free : Cardinality(S) = n ELSE free

\* getPageAllowance: the fair share of the budget of pages.
Allowance(p, ws, active) ==
    LET open == MapThenSumSet(LAMBDA q : Cardinality(ws[q].sessions), ToSet(active))
        size == Max({Len(active), 1})
        share == (maxWorkers + size - 1) \div size
        free == Max({0, maxWorkers - open})
    IN  Max({1, Min({MaxPages[p], share, Cardinality(ws[p].sessions) + free})})

\* pruneClosedSessions
Pruned(w, pages) ==
    LET gone == {s \in w.sessions \ (w.opening \cup w.busy) :
                    s \notin w.ready \cap pages}
    IN  [w EXCEPT !.sessions = @ \ gone, !.ready = @ \ gone]

\* openPages up to the promises of the pages, which `grow` does not await.
OpenPages(p, ws, active, pages, grow) ==
    LET w == Pruned(ws[p], pages)
        count == Min({Allowance(p, [ws EXCEPT ![p] = w], active) - Cardinality(w.sessions),
                      Len(w.queue) - Cardinality(w.opening)})
        new == IF count <= 0 THEN {} ELSE NewPages(count, Free(ws, pages))
    IN  [ws EXCEPT ![p] =
            [w EXCEPT !.sessions = @ \cup new, !.opening = @ \cup new,
                      !.own = IF grow THEN @ ELSE new,
                      !.grown = IF grow /\ new # {} THEN @ \cup {new} ELSE @]]

\* grow
Grow(p, ws, active, pages) ==
    IF ws[p].started /\ ws[p].promise /\ ws[p].queue # <<>>
    THEN OpenPages(p, ws, active, pages, TRUE)
    ELSE ws

\* activeWorkers.forEach(active => active.grow())
Grown(S) ==
    LET grown[n \in 0 .. Len(S.active)] ==
            LET grow(ws) == Grow(S.active[n], ws, S.active, S.pages)
            IN  IF n = 0 THEN S.worker ELSE Of(grow, grown[n - 1])
    IN  grown[Len(S.active)]

(***************************************************************************)
(* schedule                                                                *)
(***************************************************************************)
\* The set or map s without x, which is in it.
Without(s, x) == RemoveAt(s, CHOOSE i \in DOMAIN s : s[i] = x)

\* runTests of a worker up to its first await.
CallRunTests(w, p) ==
    [w EXCEPT !.promise = TRUE, !.outcome = "pending", !.call = "init",
              !.queue = @ \o [i \in 1 .. Runs[run].files[p] |-> <<p, run, i>>]]

\* nextTaskIndex: an instance whose browser is idle comes first.
NextTask(S) ==
    LET idle == {i \in 1 .. Len(S.queue) :
                    /\ S.queue[i] \in Exclusive <=> Head(S.queue) \in Exclusive
                    /\ S.queue[i] \in ToSet(S.workers) \ ToSet(S.active)}
    IN  IF idle = {} THEN 1 ELSE Min(idle)

\* Mutated form of MustEvict: the browser that is about to start is not counted.
ForgetsNewBrowser(ws, p) == Cardinality(ToSet(ws) \cap Headless) > maxWorkers

\* countEvictableWorkers() + required > maxWorkers
MustEvict(ws, p) ==
    LET required == IF p \in ToSet(ws) \/ p \notin Headless THEN 0 ELSE 1
    IN  Cardinality(ToSet(ws) \cap Headless) + required > maxWorkers

\* evictIdleWorker: the first one in the map that is idle, if there is any.
Evict(ws, active, p) ==
    LET idle == {i \in DOMAIN ws : ws[i] \in Headless \ ({p} \cup ToSet(active))}
    IN  IF MustEvict(ws, p) /\ idle # {} THEN RemoveAt(ws, Min(idle)) ELSE ws

\* The map when there is room for p, or nobody left to evict.
RoomFor(p, S) ==
    LET kept[n \in 0 .. Len(S.workers)] ==
            LET evict(ws) == Evict(ws, S.active, p)
            IN  IF n = 0 THEN S.workers ELSE Of(evict, kept[n - 1])
    IN  kept[Len(S.workers)]

MayGoOn(S, p) ==
    /\ ~S.exclusive /\ Len(S.active) < maxWorkers
    /\ p \in Exclusive => S.active = <<>>
    /\ p \notin ToSet(S.active)

GivenSlot(S, i) ==
    LET p == S.queue[i]
        kept == RoomFor(p, S)
        evicted == ToSet(S.workers) \ ToSet(kept)
    IN  [queue |-> RemoveAt(S.queue, i),
         workers |-> IF p \in ToSet(kept) THEN kept ELSE Append(kept, p),
         active |-> Append(S.active, p),
         exclusive |-> p \in Exclusive,
         pages |-> S.pages \ UNION {S.worker[q].sessions : q \in evicted},
         worker |-> [q \in Projects |->
                        CASE q \in evicted -> NewWorker(q)
                          [] q = p -> CallRunTests(S.worker[q], q)
                          [] OTHER -> S.worker[q]]]

\* One round of the loop, which ends when it is not to go on.
Round(S) ==
    IF S.queue = <<>> \/ ~MayGoOn(S, S.queue[NextTask(S)]) THEN S
    ELSE GivenSlot(S, NextTask(S))

Schedule(S) ==
    LET after[n \in 0 .. Len(S.queue)] == IF n = 0 THEN S ELSE Of(Round, after[n - 1])
    IN  after[Len(S.queue)]

Becomes(S) ==
    /\ queue' = S.queue /\ workers' = S.workers /\ activeWorkers' = S.active
    /\ exclusiveRunning' = S.exclusive
    /\ worker' = S.worker /\ orchestrators' = S.pages

(***************************************************************************)
(* Runs and cancels                                                        *)
(***************************************************************************)
\* Promise jobs: a call of runTests that is over, or goes on at once because
\* the provider of its worker is up.
CallIsOver(p) ==
    worker[p].call = "running" /\ worker[p].own = {} /\ worker[p].outcome # "pending"
JobsLeft == \E p \in Projects :
                CallIsOver(p) \/ (worker[p].call = "init" /\ worker[p].started)

Prepare ==
    /\ stage = "idle" /\ run < Len(Runs) /\ ~JobsLeft
    /\ run' = run + 1 /\ stage' = "preparing" /\ cancelled' = FALSE
    /\ result' = [p \in Projects |-> "none"] /\ done' = {}
    /\ UNCHANGED <<pool, worker, orchestrators, faults>>

\* The providers are up: the tasks are queued, the exclusive ones last.
Enqueue ==
    /\ stage = "preparing" /\ ~JobsLeft
    /\ IF cancelled THEN /\ stage' = "idle"
                         /\ UNCHANGED <<result, pool, worker, orchestrators>>
       ELSE /\ stage' = "running"
            /\ result' = [p \in Projects |-> IF p \in InRun(run) THEN "pending" ELSE "none"]
            /\ \E S \in {Schedule(
                 [queue |-> queue \o SetToSeq(InRun(run) \ Exclusive)
                                  \o SetToSeq(InRun(run) \cap Exclusive),
                  workers |-> workers, active |-> activeWorkers,
                  exclusive |-> exclusiveRunning,
                  worker |-> worker, pages |-> orchestrators])} : Becomes(S)
    /\ UNCHANGED <<run, cancelled, done, faults>>

StageAfter(res) ==
    IF stage = "running" /\ \A p \in Projects : res[p] # "pending" THEN "idle" ELSE stage

Cancel ==
    /\ Cancels /\ stage # "idle" /\ ~cancelled /\ ~JobsLeft
    /\ cancelled' = TRUE
    /\ result' = [p \in Projects |-> IF p \in ToSet(queue) THEN "ok" ELSE result[p]]
    /\ stage' = StageAfter(result')
    /\ queue' = <<>>
    /\ worker' = [p \in Projects |->
                    IF p \in ToSet(workers) THEN [worker[p] EXCEPT !.queue = <<>>]
                    ELSE worker[p]]
    /\ UNCHANGED <<run, workers, activeWorkers, exclusiveRunning, orchestrators, done, faults>>

(***************************************************************************)
(* The calls of BrowserWorker.runTests                                     *)
(***************************************************************************)
\* The pages that wait take a file each, as long as there are files.  The closed
\* ones are forgotten: those the loop does not reach by openPages(), which follows.
TakenByReady(w, pages) ==
    LET order == SetToSeq(w.ready \cap pages)
        n == Min({Len(order), Len(w.queue)})
        taking == {order[i] : i \in 1 .. n}
    IN  [w EXCEPT !.ready = (@ \cap pages) \ taking, !.busy = @ \cup taking,
                  !.sessions = (@ \ (w.ready \ pages)) \cup taking,
                  !.queue = SubSeq(@, n + 1, Len(@)),
                  !.file = [s \in Pages |-> IF s \in taking
                               THEN w.queue[CHOOSE i \in 1 .. n : order[i] = s] ELSE @[s]]]

\* _initBrowserProvider returned.  Only a cancel comes before it: the promise
\* jobs of a worker that has pages are urgent, another one has none yet.
ProviderReady(p) ==
    /\ worker[p].call = "init"
    /\ worker[p].started \/ ~JobsLeft
    /\ \/ /\ worker[p].queue = <<>>
          /\ worker' = [worker EXCEPT
                ![p].promise = FALSE, ![p].call = "running",
                ![p].outcome = IF @ = "pending" THEN "ok" ELSE @]
       \/ /\ worker[p].queue # <<>>
          /\ \E w \in {TakenByReady(worker[p], orchestrators)} :
             \E ws \in {[worker EXCEPT ![p] = [w EXCEPT !.started = TRUE, !.call = "running"]]} :
                worker' = OpenPages(p, ws, activeWorkers, orchestrators, FALSE)
    /\ UNCHANGED <<control, pool, orchestrators, done, faults>>

\* The call settles its task; then comes schedule(), then the others grow.
RunOver(p) ==
    /\ CallIsOver(p)
    /\ result' = [result EXCEPT ![p] = worker[p].outcome]
    /\ stage' = StageAfter(result')
    /\ \E S \in {Schedule([queue |-> queue,
                           workers |-> Append(Without(workers, p), p),
                           active |-> Without(activeWorkers, p), exclusive |-> FALSE,
                           worker |-> [worker EXCEPT ![p].call = "none"],
                           pages |-> orchestrators])} :
           Becomes([S EXCEPT !.worker = Grown(S)])
    /\ UNCHANGED <<run, cancelled, done, faults>>

(***************************************************************************)
(* The pages                                                               *)
(***************************************************************************)
\* Mutant of PageFails.
NobodyHears(w, s) == [w EXCEPT !.own = @ \ {s}, !.grown = {g \ {s} : g \in @} \ {{}}]

\* The Promise.all of the pages is over with the first that fails; whoever
\* awaits it rejects the run.  Nobody hears of the pages that fail later.
PageFails(w, s) ==
    LET mine == {g \in w.grown : s \in g}
        told == [w EXCEPT !.own = IF s \in @ THEN {} ELSE @, !.grown = @ \ mine]
    IN  IF s \in w.own \/ mine # {} THEN Reject(told, TRUE, {}) ELSE told

PageIsOpen(w, s) ==
    [w EXCEPT !.own = @ \ {s}, !.grown = {g \ {s} : g \in @} \ {{}}]

Opened(p, s) ==
    LET w == [worker[p] EXCEPT !.opening = @ \ {s}]
        pages == orchestrators \cup {s}
        after == RunNextTest(w, s, pages)
    IN  /\ s \in worker[p].opening /\ ~JobsLeft
        /\ orchestrators' = pages
        /\ worker' = [worker EXCEPT ![p] = IF NextThrows(w, s, pages) THEN PageFails(after, s)
                                           ELSE PageIsOpen(after, s)]
        /\ UNCHANGED <<control, pool, done, faults>>

Fault(kind) ==
    /\ ~JobsLeft /\ kind \in Faults /\ run > 0
    /\ MapThenSumSet(LAMBDA r : faults[r], DOMAIN faults) < MaxFaults
    /\ faults' = [faults EXCEPT ![run] = @ + 1]

\* The browser cannot open the page, or it does not connect in time.
OpenFails(p, s) ==
    /\ s \in worker[p].opening /\ Fault("open")
    /\ worker' = [worker EXCEPT ![p] =
            PageFails([worker[p] EXCEPT !.opening = @ \ {s}, !.sessions = @ \ {s}], s)]
    /\ UNCHANGED <<control, pool, orchestrators, done>>

\* createTesters returned: the page takes the next file.
FileRan(p, s) ==
    LET w == [worker[p] EXCEPT !.file[s] = None]
        after == RunNextTest(w, s, orchestrators)
    IN  /\ worker[p].file[s] # None /\ s \in worker[p].busy /\ ~JobsLeft
        /\ done' = done \cup {worker[p].file[s]}
        /\ worker' = [worker EXCEPT ![p] = IF NextThrows(w, s, orchestrators)
                                           THEN Reject(after, TRUE, {s}) ELSE after]
        /\ UNCHANGED <<control, pool, orchestrators, faults>>

\* createTesters failed although the page is there.
FileFails(p, s) ==
    /\ worker[p].file[s] # None /\ s \in worker[p].busy /\ Fault("file")
    /\ worker' = [worker EXCEPT ![p] = Reject([worker[p] EXCEPT !.file[s] = None], TRUE, {s})]
    /\ UNCHANGED <<control, pool, orchestrators, done>>

\* The html of the tester cannot be served: session.fail, while the page
\* waits for the iframe.
TesterFails(p, s) ==
    /\ worker[p].file[s] # None /\ s \in worker[p].busy /\ Fault("tester")
    /\ worker' = [worker EXCEPT ![p] = Reject(worker[p], TRUE, {s})]
    /\ UNCHANGED <<control, pool, orchestrators, done>>

\* The page gives up waiting, in whatever run that is.
LateAnswer(p, s) ==
    /\ worker[p].file[s] # None /\ s \notin worker[p].busy /\ ~JobsLeft
    /\ worker' = [worker EXCEPT ![p] = Reject([worker[p] EXCEPT !.file[s] = None], TRUE, {s})]
    /\ UNCHANGED <<control, pool, orchestrators, done, faults>>

Cleaned(p, s) ==
    /\ s \in worker[p].cleaning /\ ~JobsLeft
    /\ worker' = [worker EXCEPT ![p] = FinishSession(worker[p], s)]
    /\ UNCHANGED <<control, pool, orchestrators, done, faults>>

\* The page is closed or crashes.  What it was asked for is rejected with a
\* connection error, which is none after a cancel.
PageCloses(p, s) ==
    LET w == [worker[p] EXCEPT !.file[s] = None]
    IN  /\ s \in orchestrators \cap worker[p].sessions /\ Fault("close")
        /\ orchestrators' = orchestrators \ {s}
        /\ worker' = [worker EXCEPT ![p] =
                CASE worker[p].file[s] # None -> Reject(w, ~cancelled, {s})
                  [] worker[p].file[s] = None /\ s \in w.cleaning ->
                        FinishSession(Reject(w, ~cancelled, {}), s)
                  [] OTHER -> w]
        /\ UNCHANGED <<control, pool, done>>

BrowserNext ==
    \/ Prepare \/ Enqueue \/ Cancel
    \/ \E p \in Projects : ProviderReady(p) \/ RunOver(p)
    \/ \E p \in Projects, s \in Pages :
        \/ Opened(p, s) \/ OpenFails(p, s) \/ FileRan(p, s) \/ FileFails(p, s)
        \/ TesterFails(p, s) \/ LateAnswer(p, s) \/ Cleaned(p, s) \/ PageCloses(p, s)

\* Providers start, pages connect or time out, files end, and promise jobs run:
\* some of it happens as long as any is left.  Faults, cancels and new runs need
\* not come.
Progress ==
    \/ \E p \in Projects : \E s \in Pages : Cleaned(p, s)
    \/ \E p \in Projects : \E s \in worker[p].busy : FileRan(p, s)
    \/ \E p \in Projects : \E s \in worker[p].opening : Opened(p, s)
    \/ \E p \in Projects : ProviderReady(p)
    \/ \E p \in Projects : RunOver(p)
    \/ Enqueue

BrowserSpec == BrowserInit /\ [][BrowserNext]_browserVars /\ WF_browserVars(Progress)
-----------------------------------------------------------------------------
\* The pool and its workers keep their types; active workers are in the map.
BrowserTypeOK ==
    /\ run \in 0 .. Len(Runs) /\ stage \in {"idle", "preparing", "running"}
    /\ cancelled \in BOOLEAN /\ exclusiveRunning \in BOOLEAN
    /\ result \in [Projects -> {"none", "pending", "ok", "error"}]
    /\ IsInjective(queue) /\ ToSet(queue) \subseteq Projects
    /\ IsInjective(workers) /\ ToSet(workers) \subseteq Projects
    /\ IsInjective(activeWorkers) /\ ToSet(activeWorkers) \subseteq ToSet(workers)
    /\ orchestrators \subseteq Pages /\ done \subseteq AllFiles
    /\ \A p \in Projects :
        /\ ToSet(worker[p].queue) \subseteq AllFiles
        /\ worker[p].call \in {"none", "init", "running"}
        /\ worker[p].outcome \in {"pending", "ok", "error"}
        /\ \A pages \in {worker[p].sessions, worker[p].busy, worker[p].opening,
                        worker[p].ready, worker[p].cleaning, worker[p].own} :
                pages \subseteq Pages
        /\ \A s \in Pages : worker[p].file[s] \in AllFiles \cup {None}

RanAll(p) == result[p] = "ok" /\ ~cancelled => FilesOf(run, p) \subseteq done

\* A project whose task ended well, in a run nobody cancelled, ran all of its
\* files: no page that opens late, closes or comes back settles the run early.
\* The code breaks it for projects that are not isolated and have several pages,
\* or a page whose tester failed two runs before.
GoodRunRanAll == \A p \in Projects : RanAll(p)

RunsNoOther(p) ==
    \A s \in Pages :
        s \in worker[p].busy /\ worker[p].file[s] # None =>
            /\ worker[p].file[s] \in FilesOf(run, p) \ done
            /\ result[p] = "pending"
            /\ \A t \in Pages \ {s} : worker[p].file[t] # worker[p].file[s]

\* Pages run files of the run under way and of nothing before it, each file in
\* one page, and none once the task of their project is over: neither a worker
\* that is used again nor a page that opens late brings an old file, unless the
\* project is not isolated and has several pages.
FilesOfThisRun == \A p \in Projects : RunsNoOther(p)

\* Instances share the machine as they were told: an exclusive one runs its files
\* alone, and while any has a slot no more than maxWorkers headless browsers are
\* kept: idle ones are closed to make room, also when a run has fewer workers.
BrowsersBounded ==
    /\ \A p \in Exclusive : \A q \in Projects \ {p} :
        worker[p].busy # {} => worker[q].busy = {} /\ q \notin ToSet(activeWorkers)
    /\ activeWorkers # <<>> =>
        /\ Len(activeWorkers) <= maxWorkers
        /\ Cardinality(ToSet(workers) \cap Headless) <= maxWorkers

\* The pages that run files stay within the budget that the active instances
\* share, but for the one page every instance gets.  The code breaks it: pages
\* left from earlier runs take files whatever the budget.
PagesShared ==
    MapThenSumSet(LAMBDA q : Cardinality(worker[q].busy), ToSet(activeWorkers))
        <= maxWorkers + Max({0, Len(activeWorkers) - 1})

\* Every run ends: no task waits for a slot, no file for a page, for ever.
RunsEnd == stage # "idle" ~> stage = "idle"
=============================================================================
