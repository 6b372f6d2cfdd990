------------------------------ MODULE Fixtures ------------------------------
(***************************************************************************)
(* The fixtures of test.extend (packages/vitest/src/runtime/runner/        *)
(* fixture.ts) as runTest and runSuite of run.ts use them.  A hook or test *)
(* function is a call of withFixtures: it awaits its fixtures one by one,  *)
(* each of which runs up to its use() and goes on when it is cleaned up.   *)
(* Those of a test live in its context, those of the file in one that all  *)
(* its concurrent tests share.  The file is its own owner.  The slots of   *)
(* the runner are those of AroundHooks, its results those of SuiteRunner.  *)
(***************************************************************************)
EXTENDS Naturals, SequencesExt

CONSTANTS Tests, File,     \* a file and its tests, which run concurrently
          TestScoped, FileScoped,
          Deps,            \* the fixtures each fixture destructures, in order
          Uses,            \* for each test, which of its hooks use which fixtures
          Retry,           \* `retry` of each test
          Parallel,        \* sequence.hooks is "parallel"
          Timeouts,        \* calls may time out while they await a fixture
          None

Fixtures == TestScoped \cup FileScoped
Owners == Tests \cup {File}
ASSUME FixturesAssumption ==
  /\ TestScoped \cap FileScoped = {} /\ File \notin Tests /\ None \notin Fixtures
  /\ {"none", "running", "over"} \cap Fixtures = {}
  /\ Retry \in [Tests -> Nat] /\ Parallel \in BOOLEAN /\ Timeouts \in BOOLEAN

\* What makes the code throw does not run: a dependency of the file on one of a test
\* (parseUserFixtures), a circular one (resolveDeps).
ASSUME DepsAssumption ==
  /\ Deps \in [Fixtures -> Seq(Fixtures)]
  /\ \A f \in FileScoped : ToSet(Deps[f]) \subseteq FileScoped
  /\ IsFiniteSet(Fixtures)
  /\ \E rank \in [Fixtures -> 1..Cardinality(Fixtures)] :
       \A f \in Fixtures : \A d \in ToSet(Deps[f]) : rank[d] < rank[f]

Before == {"before1", "before2"}
Roles(t) == DOMAIN Uses[t]
Calls == UNION {{t} \X (0..Retry[t]) \X Roles(t) : t \in Tests}
Instances == Calls \X Fixtures
ASSUME UsesAssumption ==
  /\ None \notin Instances
  /\ \A t \in Tests : \A r \in Roles(t) :
       r \in Before \cup {"around", "fn", "after"} /\ Uses[t][r] \in Seq(Fixtures)

VARIABLES stage,           \* where runTest is, and runSuite for the file
          attempt,         \* retryCount
          checkpoint,      \* the fixtureCheckpoint of callAroundEachHooks
          at,              \* the fixture a call awaits, or where it is otherwise
          threw,           \* the calls and cleanups of the attempts that failed
          abandoned,       \* the calls that timed out: they go on all the same
          instance,        \* each run of a fixture function
          value,           \* the contexts
          cached,          \* contextHasFixturesCache
          promise,         \* scopedFixturePromiseCache
          cleanups,        \* cleanupFnArrayMap
          cleaning,        \* the functions runFixtureCleanups has not called yet
          detached         \* the calls whose array is in the map no more

runner == <<stage, attempt, checkpoint, cleaning>>
resolved == <<instance, value, cached, promise>>
vars == <<runner, at, threw, abandoned, resolved, cleanups, detached>>

Current(c) == c[2] = attempt[c[1]]
CallsOf(t, roles) == {c \in Calls : c[1] = t /\ c[2] = attempt[t] /\ c[3] \in roles}
IsOver(c) == at[c] = "over" \/ c \in abandoned
Failed(t) == \E x \in threw : x[1] = t /\ x[2] = attempt[t]

-----------------------------------------------------------------------------
\* Mutated forms of definitions below, for the properties to catch.
CleansAll(t) == 0
IgnoresCallUnderWay(f) == value[File][f] = None
TellsTheFirst(i) == {i[1]}

-----------------------------------------------------------------------------
\* resolveDeps: what a fixture depends on comes before it.  What is there already is
\* not pushed again: of several places of a fixture the first one counts.
Order[f \in Fixtures] == Append(FlattenSeq([n \in DOMAIN Deps[f] |-> Order[Deps[f][n]]]), f)
Resolved == [t \in Tests |-> [r \in Roles(t) |->
               FlattenSeq([n \in DOMAIN Uses[t][r] |-> Order[Uses[t][r][n]]])]]
Pending(c) == Resolved[c[1]][c[3]]
Place(c, f) == Min({n \in DOMAIN Pending(c) : Pending(c)[n] = f})

Init ==
  /\ stage = [o \in Owners |-> IF o = File THEN "tests" ELSE "waiting"]
  /\ attempt = [t \in Tests |-> 0] /\ checkpoint = [t \in Tests |-> 0]
  /\ at = [c \in Calls |-> "none"]
  /\ threw = {} /\ abandoned = {} /\ detached = {}
  /\ instance = [i \in Instances |-> "none"]
  /\ value = [o \in Owners |-> [f \in Fixtures |-> None]]
  /\ cached = [t \in Tests |-> {}]
  /\ promise = [f \in FileScoped |-> None]
  /\ cleanups = [o \in Owners |-> <<>>] /\ cleaning = [o \in Owners |-> <<>>]

\* resolveScopeFixtureValue: neither the value nor the promise of it is there.
MustBeCalled(f) == value[File][f] = None /\ promise[f] = None

\* withFixtures goes on after the fixture at `last`: those in the cache it takes as
\* initialized, for the next one it calls the function or awaits the call under way.
Todo(c, last) == {n \in DOMAIN Pending(c) : /\ n > last /\ n = Place(c, Pending(c)[n])
                                           /\ Pending(c)[n] \notin cached[c[1]]}
GoesOn(c, last) ==
  LET t == c[1]
      f == Pending(c)[Min(Todo(c, last))]
      starts == f \in TestScoped \/ MustBeCalled(f)
  IN  IF Todo(c, last) = {}
        THEN /\ at' = [at EXCEPT ![c] = "running"]
             /\ UNCHANGED <<cached, promise, instance>>
        ELSE /\ at' = [at EXCEPT ![c] = f]
             /\ instance' = IF starts THEN [instance EXCEPT ![<<c, f>>] = "setup"] ELSE instance
             /\ cached' = IF f \in TestScoped THEN [cached EXCEPT ![t] = @ \cup {f}] ELSE cached
             /\ promise' = IF starts /\ f \in FileScoped THEN [promise EXCEPT ![f] = <<c, f>>] ELSE promise

\* The runner calls a hook or the test function.  Hooks follow each other, unless parallel.
MayBegin(c) ==
  LET t == c[1] IN
  CASE c[3] = "around" -> stage[t] = "around"
    [] c[3] \in Before -> /\ stage[t] = "before"
                          /\ Parallel \/ (~Failed(t) /\ (c[3] = "before2" =>
                               \A b \in CallsOf(t, {"before1"}) : IsOver(b)))
    [] OTHER           -> stage[t] = c[3]

Begin(c) ==
  /\ at[c] = "none" /\ Current(c) /\ MayBegin(c)
  /\ GoesOn(c, 0)
  /\ UNCHANGED <<runner, threw, abandoned, value, cleanups, detached>>

\* The clean-up function of a call goes to the array it found, in the map or not.
Pushed(c, entry) == IF c \in detached THEN cleanups
                    ELSE [cleanups EXCEPT ![c[1]] = Append(@, entry)]

\* The await of a fixture is over.
AfterFixture(c) ==
  LET f == at[c]  t == c[1]  i == IF f \in TestScoped THEN <<c, f>> ELSE value[File][f] IN
  /\ f \in Fixtures /\ i # None /\ instance[i] # "setup"
  /\ value' = [value EXCEPT ![t][f] = i]
  /\ cleanups' = IF f \in TestScoped THEN Pushed(c, <<"uncache", f>>) ELSE cleanups
  /\ GoesOn(c, Place(c, f))
  /\ UNCHANGED <<runner, threw, abandoned, detached>>

\* The promise of a fixture of the file is out of the cache when it settles.
Settled(i) == IF i[2] \in FileScoped THEN [promise EXCEPT ![i[2]] = None] ELSE promise

\* A fixture calls use(): its clean-up can be asked for from now on.
Use(i) ==
  LET c == i[1]  f == i[2] IN
  /\ instance[i] = "setup"
  /\ instance' = [instance EXCEPT ![i] = "inUse"]
  /\ promise' = Settled(i)
  /\ IF f \in TestScoped
       THEN cleanups' = Pushed(c, <<"teardown", i>>) /\ UNCHANGED value
       ELSE /\ value' = [value EXCEPT ![File][f] = i]
            /\ cleanups' = IF stage[File] = "tests"
                             THEN [cleanups EXCEPT ![File] = Append(@, <<"teardown", i>>)]
                             ELSE cleanups
  /\ UNCHANGED <<runner, at, threw, abandoned, cached, detached>>

\* A failed fixture of a test is no longer taken as initialized.
Uncached(t, f) == [cached EXCEPT ![t] = @ \ {f}]

\* The calls that await the promise of a fixture.
WhoAwaits(i) == IF i[2] \in TestScoped THEN {i[1]} ELSE {c \in Calls : at[c] = i[2]}

\* A fixture throws, or returns without use(): all calls that await it fail.
SetupThrows(i) ==
  LET f == i[2]  waiting == WhoAwaits(i) IN
  /\ instance[i] = "setup"
  /\ instance' = [instance EXCEPT ![i] = "over"]
  /\ promise' = Settled(i)
  /\ cached' = IF f \in TestScoped THEN Uncached(i[1][1], f) ELSE cached
  /\ at' = [c \in Calls |-> IF c \in waiting THEN "over" ELSE at[c]]
  /\ threw' = threw \cup {c \in waiting : Current(c)}
  /\ UNCHANGED <<runner, abandoned, value, cleanups, detached>>

\* A hook or test function ends, the one around the test only after runTest() or when it fails.
\* withTimeout may reject while the call awaits a fixture: the call is not stopped then.
End(c, fails) ==
  LET late == at[c] \in Fixtures /\ c \notin abandoned /\ Timeouts /\ fails /\ c[3] # "around" IN
  /\ at[c] = "running" \/ late
  /\ c[3] = "around" => stage[c[1]] = "aroundEnds" \/ (stage[c[1]] = "around" /\ fails)
  /\ IF late
       THEN abandoned' = abandoned \cup {c} /\ UNCHANGED at
       ELSE at' = [at EXCEPT ![c] = "over"] /\ UNCHANGED abandoned
  /\ threw' = IF fails /\ Current(c) THEN threw \cup {c} ELSE threw
  /\ UNCHANGED <<runner, resolved, cleanups, detached>>

-----------------------------------------------------------------------------
Goes(o, where) == stage' = [stage EXCEPT ![o] = where]
Checkpoint(t) == Len(cleanups[t])

\* callAroundEachHooks: the hook around the test is called if there is one.
AttemptStarts(t) ==
  /\ stage[t] = "waiting"
  /\ IF "around" \in Roles(t)
       THEN Goes(t, "around") /\ UNCHANGED checkpoint
       ELSE Goes(t, "before") /\ checkpoint' = [checkpoint EXCEPT ![t] = Checkpoint(t)]
  /\ UNCHANGED <<attempt, cleaning, at, threw, abandoned, resolved, cleanups, detached>>

\* The hook calls runTest(): what was cleaned up so far is not the test's.
RunTestCalled(t) ==
  /\ stage[t] = "around" /\ \E c \in CallsOf(t, {"around"}) : at[c] = "running"
  /\ Goes(t, "before") /\ checkpoint' = [checkpoint EXCEPT ![t] = Checkpoint(t)]
  /\ UNCHANGED <<attempt, cleaning, at, threw, abandoned, resolved, cleanups, detached>>

\* beforeEach hooks, the function unless they failed, afterEach hooks.
NextCalls(t) ==
  /\ \/ /\ stage[t] = "before"
        /\ \/ \A c \in CallsOf(t, Before) : IsOver(c)
           \/ ~Parallel /\ Failed(t) /\ \A c \in CallsOf(t, Before) : at[c] = "none" \/ IsOver(c)
        /\ Goes(t, IF Failed(t) THEN "after" ELSE "fn")
     \/ /\ stage[t] = "fn" /\ \A c \in CallsOf(t, {"fn"}) : IsOver(c)
        /\ Goes(t, "after")
  /\ UNCHANGED <<attempt, checkpoint, cleaning, at, threw, abandoned, resolved, cleanups, detached>>

\* callFixtureCleanupFrom, which a failed afterEach hook skips.
InnerCleanup(t) ==
  /\ stage[t] = "after" /\ \A c \in CallsOf(t, {"after"}) : IsOver(c)
  /\ Goes(t, "inner")
  /\ IF CallsOf(t, {"after"}) \cap threw = {} /\ Len(cleanups[t]) > checkpoint[t]
       THEN /\ cleaning' = [cleaning EXCEPT ![t] =
                 Reverse(SubSeq(cleanups[t], checkpoint[t] + 1, Len(cleanups[t])))]
            /\ cleanups' = [cleanups EXCEPT ![t] = SubSeq(@, 1, checkpoint[t])]
       ELSE UNCHANGED <<cleaning, cleanups>>
  /\ UNCHANGED <<attempt, checkpoint, at, threw, abandoned, resolved, detached>>

RunTestReturns(t) ==
  /\ stage[t] = "inner" /\ cleaning[t] = <<>>
  /\ Goes(t, "aroundEnds")
  /\ UNCHANGED <<attempt, checkpoint, cleaning, at, threw, abandoned, resolved, cleanups, detached>>

\* callFixtureCleanup takes the whole array out of the map.
CleansUp(o) ==
  /\ cleaning' = [cleaning EXCEPT ![o] = Reverse(cleanups[o])]
  /\ cleanups' = [cleanups EXCEPT ![o] = <<>>]
  /\ detached' = detached \cup {c \in Calls : c[1] = o /\ at[c] # "none"}

OuterCleanup(t) ==
  /\ stage[t] \in {"around", "aroundEnds"}
  /\ \A c \in CallsOf(t, {"around"}) : at[c] = "over"
  /\ Goes(t, "outer") /\ CleansUp(t)
  /\ UNCHANGED <<attempt, checkpoint, at, threw, abandoned, resolved>>

\* The test is over, or it failed and is retried with the same context.
AttemptEnds(t) ==
  /\ stage[t] = "outer" /\ cleaning[t] = <<>>
  /\ IF Failed(t) /\ attempt[t] < Retry[t]
       THEN Goes(t, "waiting") /\ attempt' = [attempt EXCEPT ![t] = @ + 1]
       ELSE Goes(t, "over") /\ UNCHANGED attempt
  /\ threw' = {x \in threw : x[1] # t}
  /\ UNCHANGED <<checkpoint, cleaning, at, abandoned, resolved, cleanups, detached>>

\* runSuite cleans up the contexts of the file after its last test, and is over.
FileCleanup ==
  /\ stage[File] = "tests" /\ \A t \in Tests : stage[t] = "over"
  /\ Goes(File, "cleaning") /\ CleansUp(File)
  /\ UNCHANGED <<attempt, checkpoint, at, threw, abandoned, resolved>>

FileEnds ==
  /\ stage[File] = "cleaning" /\ cleaning[File] = <<>>
  /\ Goes(File, "over")
  /\ UNCHANGED <<attempt, checkpoint, cleaning, at, threw, abandoned, resolved, cleanups, detached>>

\* runFixtureCleanups calls the functions one by one, whether or not one throws.
Uncaches(o) ==
  /\ cleaning[o] # <<>> /\ Head(cleaning[o])[1] = "uncache"
  /\ cached' = Uncached(o, Head(cleaning[o])[2])
  /\ cleaning' = [cleaning EXCEPT ![o] = Tail(@)]
  /\ UNCHANGED <<stage, attempt, checkpoint, at, threw, abandoned, instance, value, promise, cleanups, detached>>

TeardownStarts(o) ==
  LET i == Head(cleaning[o])[2] IN
  /\ cleaning[o] # <<>> /\ Head(cleaning[o])[1] = "teardown" /\ instance[i] = "inUse"
  /\ instance' = [instance EXCEPT ![i] = "tearing"]
  /\ UNCHANGED <<runner, at, threw, abandoned, value, cached, promise, cleanups, detached>>

TeardownEnds(o, fails) ==
  LET i == Head(cleaning[o])[2] IN
  /\ cleaning[o] # <<>> /\ Head(cleaning[o])[1] = "teardown" /\ instance[i] = "tearing"
  /\ instance' = [instance EXCEPT ![i] = "over"]
  /\ cleaning' = [cleaning EXCEPT ![o] = Tail(@)]
  /\ threw' = IF fails /\ o \in Tests THEN threw \cup {<<o, attempt[o], "cleanup">>} ELSE threw
  /\ UNCHANGED <<stage, attempt, checkpoint, at, abandoned, value, cached, promise, cleanups, detached>>

-----------------------------------------------------------------------------
Runner(o) ==
  \/ Uncaches(o) \/ TeardownStarts(o)
  \/ \E fails \in BOOLEAN : TeardownEnds(o, fails)
  \/ o \in Tests /\ \/ AttemptStarts(o) \/ RunTestCalled(o) \/ NextCalls(o) \/ InnerCleanup(o)
                    \/ RunTestReturns(o) \/ OuterCleanup(o) \/ AttemptEnds(o)
  \/ o = File /\ (FileCleanup \/ FileEnds)

Call(c) == Begin(c) \/ AfterFixture(c) \/ \E fails \in BOOLEAN : End(c, fails)

Next ==
  \/ \E o \in Owners : Runner(o)
  \/ \E c \in Calls : Call(c)
  \/ \E i \in Instances : Use(i) \/ SetupThrows(i)

\* The code between two awaits runs; hooks, tests and fixtures end: there are timeouts for
\* them, but for the part of a fixture after use(), which is assumed to end.
Fairness ==
  /\ \A o \in Owners : WF_vars(Runner(o))
  /\ \A c \in Calls : WF_vars(Call(c))
  /\ \A i \in Instances : WF_vars(Use(i) \/ SetupThrows(i))

Spec == Init /\ [][Next]_vars /\ Fairness

-----------------------------------------------------------------------------
Live(i) == instance[i] \in {"setup", "inUse", "tearing"}
OwnerOf(i) == IF i[2] \in FileScoped THEN File ELSE i[1][1]

\* Every variable has a value of its kind.
TypeOK ==
  /\ \A t \in Tests : attempt[t] \in 0..Retry[t]
  /\ checkpoint \in [Tests -> Nat]
  /\ at \in [Calls -> Fixtures \cup {"none", "running", "over"}]
  /\ abandoned \subseteq Calls /\ detached \subseteq Calls
  /\ instance \in [Instances -> {"none", "setup", "inUse", "tearing", "over"}]
  /\ value \in [Owners -> [Fixtures -> Instances \cup {None}]]
  /\ cached \in [Tests -> SUBSET TestScoped]
  /\ promise \in [FileScoped -> Instances \cup {None}]

\* "Vitest runner will smartly initialize your fixtures and inject them into the test context":
\* a hook or test function that runs finds all its fixtures initialized and none torn down, and
\* so does a fixture from its setup to the end of its teardown those it depends on, although
\* they are cached, shared, cleaned up in two parts and set up anew for a retry.
FixturesAreReady ==
  /\ \A c \in Calls \ abandoned : at[c] = "running" =>
       \A f \in ToSet(Pending(c)) : value[c[1]][f] # None /\ instance[value[c[1]][f]] = "inUse"
  /\ \A i \in Instances : Live(i) =>
       \A d \in ToSet(Deps[i[2]]) :
         \E j \in Instances : j[2] = d /\ OwnerOf(j) \in {i[1][1], File} /\ instance[j] = "inUse"

\* A context has one instance of a fixture at a time, and none once its owner is over.
OneInstance ==
  \A i \in Instances : Live(i) =>
    /\ stage[OwnerOf(i)] # "over"
    /\ \A j \in Instances \ {i} : Live(j) => <<j[2], OwnerOf(j)>> # <<i[2], OwnerOf(i)>>

\* The file is over at some time: no call waits for a fixture, no clean-up for its end, for ever.
FixturesEnd == <>(stage[File] = "over")
=============================================================================
