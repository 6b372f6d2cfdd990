------------------------------ MODULE PoolProofs ------------------------------
(***************************************************************************)
(* Theorems about Pool, for any tasks, groups, isolation, cancels and      *)
(* faults of workers, as long as no runner that starts late fits a task of *)
(* a later run (LateAreAlone).                                             *)
(*                                                                         *)
(* Most steps of the pool end in schedule(), whatever they begin with.  So *)
(* it is shown once what a step keeps that takes tasks from the queue and  *)
(* lets runners go, and of each action that it is such a step.             *)
(***************************************************************************)
EXTENDS Pool, FiniteSetTheorems, WellFoundedInduction, TLAPS

\* schedule() has given the task a runner and has not come to its end.
Busy(t) == pc[t] \in {"starting", "startSettled", "running"}

\* There is no group and no task left to begin.
AllOver == group = Len(Plan) /\ GroupSettled /\ toSubmit = <<>>

\* No task of the current group is accepted any more.
GroupCancelled == ctxCancelling \/ AllOver

Waits(c) == cancels[c].at \in {"tasks", "shared", "exits"}

\* A cancel that awaits the stop of a worker that has died by itself never returns
\* (PoolCancelHangs); a second cancel makes the pool go on without it.
Hangs(c) == cancels[c].at = "tasks" /\ \E t \in cancels[c].awaits : rstate[runnerOf[t]] = "crashed"

\* A cancel that goes on.
Live(c) == Waits(c) /\ ~Hangs(c)

\* The tasks that have no runner: those of later groups, those the loop has not come to,
\* and the queue.
WaitingTasks ==
  /\ group = 0 => toSubmit = <<>> /\ queue = <<>>
  /\ \A i \in DOMAIN toSubmit : toSubmit[i] \in InGroup(group) /\ pc[toSubmit[i]] = "none"
  /\ \A i, j \in DOMAIN toSubmit : toSubmit[i] = toSubmit[j] => i = j
  /\ \A i \in DOMAIN queue : queue[i] \in InGroup(group) /\ pc[queue[i]] = "queued"
  /\ \A i, j \in DOMAIN queue : queue[i] = queue[j] => i = j
  /\ \A g \in Groups : g > group => \A t \in InGroup(g) : pc[t] = "none"
  /\ \A t \in Tasks : pc[t] \in {"none", "queued"} => resolver[t] = "pending" /\ rstate[t] = "idle"

\* Tasks end settled, and those of earlier groups are; none was refused.
EndedTasks ==
  /\ \A t \in Tasks : pc[t] = "done" => Settled(t)
  /\ \A g \in Groups : g < group => \A t \in InGroup(g) : Settled(t)
  /\ \A t \in Tasks : resolver[t] # "refused" /\ (resolver[t] = "rejected" => runnerOf[t] # NoTask)

\* A task that has a runner has it alone, and the runner was made for a task of its group.
BusyTasks ==
  /\ \A t \in Tasks : Busy(t) =>
       /\ runnerOf[t] \in Tasks /\ mapOf[t] \in 1..group /\ t \in InGroup(mapOf[t])
       /\ \/ runnerOf[t] = t
          \/ t \notin Isolated /\ runnerOf[t] \notin Isolated /\ Key[runnerOf[t]] = Key[t]
       /\ rstate[runnerOf[t]] # "idle"
       /\ pc[t] = "starting" <=> rstate[runnerOf[t]] = "starting"
  /\ \A t, u \in Tasks : Busy(t) /\ Busy(u) /\ runnerOf[t] = runnerOf[u] => t = u

\* A cancel forgets tasks whose runner is stopped, and with them all others of the group.
ActiveTasks ==
  /\ \A t \in activeTasks : Busy(t)
  /\ \A t \in Tasks : Busy(t) /\ t \notin activeTasks =>
       /\ rstate[runnerOf[t]] = "stopped" /\ Settled(t)
       /\ mapOf[t] = group => GroupCancelled /\ activeTasks = {}

\* A runner that lives has a task, one that stops is awaited, by its task or by the next
\* cancel; none is left among the shared.
Runners ==
  /\ sharedRunners = {}
  /\ \A r \in Tasks : rstate[r] \in {"starting", "started", "failed"} =>
       \E t \in Tasks : Busy(t) /\ runnerOf[t] = r
  /\ \A r \in Tasks : rstate[r] = "stopping" =>
       r \in exitPromises \/ \E t \in Tasks : Busy(t) /\ runnerOf[t] = r
  /\ \A r \in exitPromises :
       rstate[r] \in {"stopping", "stopped"} /\ \A t \in Tasks : Busy(t) => runnerOf[t] # r
  /\ \A r \in stopWanted : rstate[r] # "idle"
  /\ ~GroupCancelled => \A t \in Tasks : Busy(t) /\ mapOf[t] = group =>
       rstate[runnerOf[t]] # "stopping" /\ runnerOf[t] \notin stopWanted

\* The slots and the ids of the current group.
Slots ==
  /\ \A t \in Tasks :
       mapOf[t] \in 0..group /\ (Busy(t) /\ mapOf[t] = group => poolId[runnerOf[t]] \in Ids)
  /\ \A t \in activeTasks : mapOf[t] = group =>
       /\ Cardinality(activeTasks) <= maxWorkers
       /\ poolId[runnerOf[t]] \in Ids \ freeIds
  /\ \A t, u \in activeTasks : mapOf[t] = group /\ mapOf[u] = group /\ t # u =>
       poolId[runnerOf[t]] # poolId[runnerOf[u]]
  /\ ~GroupCancelled => \A i \in Ids \ freeIds :
       \E t \in activeTasks : mapOf[t] = group /\ poolId[runnerOf[t]] = i
  /\ queue # <<>> => Cardinality(activeTasks) >= maxWorkers

\* While a cancel goes on, or the pool refuses tasks, no task is accepted.
Cancelling ==
  /\ ctxCancelling => queue = <<>>
  /\ isCancelling => GroupCancelled /\ (AllOver \/ cancelPromise # 0)
  /\ \A c \in Cancels : cancels[c].by = "close" => AllOver
  /\ \A c \in Cancels : Live(c) => GroupCancelled

\* What a cancel waits for, it or another one makes happen: when isCancelling is reset, the
\* cancels that go on have nothing left to await.
Awaited ==
  /\ \A c \in Cancels : cancels[c].at = "tasks" => \A t \in cancels[c].awaits :
       /\ runnerOf[t] \in Tasks /\ pc[t] \notin {"none", "queued"}
       /\ \/ t \in activeTasks \/ runnerOf[t] \in exitPromises
          \/ rstate[runnerOf[t]] \in {"stopped", "crashed"}
       /\ mapOf[t] = group => GroupCancelled
  /\ \A c \in Cancels : Live(c) /\ cancels[c].at = "tasks" => \A t \in activeTasks :
       t \in cancels[c].awaits \/ (rstate[runnerOf[t]] = "stopped" /\ Settled(t))
  /\ \A c \in Cancels : cancels[c].at \in {"shared", "exits"} => activeTasks = {}
  /\ \A c \in Cancels : cancels[c].at = "shared" => cancels[c].awaits = {} /\ cancels[c].began = {}
  /\ \A c \in Cancels : cancels[c].at = "exits" =>
       /\ \A r \in exitPromises : rstate[r] = "stopped" \/ r \in cancels[c].awaits
       /\ \A r \in cancels[c].awaits : rstate[r] = "stopped" \/ r \in exitPromises
  /\ ~isCancelling => \A c \in Cancels : Live(c) =>
       activeTasks = {} /\ \A r \in exitPromises : rstate[r] = "stopped"

\* A start that goes on although its task is settled is a slow one, and so only a task with a
\* slow start is not through with its schedule() when the next run begins.
LateTasks ==
  \A t \in Tasks : Busy(t) /\ (\/ pc[t] = "starting" /\ Settled(t)
                              \/ Plan[mapOf[t]].run # Plan[group].run) => t \in SlowStart

\* A worker whose runner has stopped is gone, unless its stop was given up.
Gone ==
  \A r \in Tasks :
    /\ rstate[r] = "crashed" => link[r] \in {"exited", "killed"}
    /\ rstate[r] = "stopped" => link[r] \in {"exited", "killed"} \/ r \in graceful \cap CanHang

\* When close() has returned no runner lives or is being stopped.
ClosedPoolIsStill ==
  (\E c \in Cancels : cancels[c].by = "close" /\ cancels[c].at = "done")
    => \A r \in Tasks : rstate[r] \in {"idle", "stopped", "crashed"}

\* The inductive invariant.
IInv ==
  /\ TypeOK /\ WaitingTasks /\ EndedTasks /\ BusyTasks /\ ActiveTasks /\ Runners
  /\ Slots /\ Cancelling /\ Awaited /\ ClosedPoolIsStill
-----------------------------------------------------------------------------
\* The elements of a sequence.
LEMMA ElementOf ==
  ASSUME NEW S, NEW s \in Seq(S) PROVE Len(s) \in Nat /\ \A i \in 1..Len(s) : s[i] \in S
  OBVIOUS

\* What the plan says of a group.
LEMMA GroupFacts ==
  /\ Len(Plan) \in Nat
  /\ \A g \in Groups :
       /\ g \in Nat \ {0} /\ Plan[g].tasks \in Seq(Tasks) /\ Plan[g].max \in Nat \ {0}
       /\ InGroup(g) \subseteq Tasks
       /\ \A i \in DOMAIN Plan[g].tasks : Plan[g].tasks[i] \in InGroup(g)
  /\ \A g, h \in Groups, t \in Tasks : t \in InGroup(g) /\ t \in InGroup(h) => g = h
  <1>1. Plan \in Seq([run : Nat, max : Nat \ {0}, tasks : Seq(Tasks)]) BY PlanAssumption
  <1>2. \A g \in Groups : Plan[g] \in [run : Nat, max : Nat \ {0}, tasks : Seq(Tasks)]
    BY <1>1, ElementOf DEF Groups
  <1>3. \A g \in Groups : g \in Nat \ {0} /\ Plan[g].tasks \in Seq(Tasks) /\ Plan[g].max \in Nat \ {0}
    BY <1>1, <1>2 DEF Groups
  <1>4. \A g \in Groups : InGroup(g) \subseteq Tasks BY <1>3 DEF InGroup
  <1>5. \A g \in Groups : \A i \in DOMAIN Plan[g].tasks : Plan[g].tasks[i] \in InGroup(g)
    BY DEF InGroup
  <1>6. ASSUME NEW g \in Groups, NEW h \in Groups, NEW t \in Tasks, t \in InGroup(g), t \in InGroup(h)
        PROVE  g = h
    <2>1. g # h => InGroup(g) \cap InGroup(h) = {} BY PlanAssumption, Zenon
    <2> QED BY <1>6, <2>1
  <1>7. Len(Plan) \in Nat BY <1>1, ElementOf
  <1> QED BY <1>3, <1>4, <1>5, <1>6, <1>7

\* The head and the tail of a sequence.
LEMMA HeadAndTail ==
  ASSUME NEW S, NEW s \in Seq(S), s # <<>>
  PROVE  /\ Head(s) \in S /\ 1 \in DOMAIN s /\ Head(s) = s[1]
         /\ Tail(s) \in Seq(S)
         /\ \A i \in DOMAIN Tail(s) : i + 1 \in DOMAIN s /\ i + 1 # 1 /\ Tail(s)[i] = s[i + 1]
         /\ \A i, j \in DOMAIN Tail(s) : i + 1 = j + 1 => i = j
  OBVIOUS

\* A longer sequence.
LEMMA Appended ==
  ASSUME NEW S, NEW s \in Seq(S), NEW x \in S
  PROVE  /\ Append(s, x) \in Seq(S) /\ Append(s, x) # <<>>
         /\ \A i \in DOMAIN Append(s, x) :
              \/ i \in DOMAIN s /\ Append(s, x)[i] = s[i]
              \/ i = Len(s) + 1 /\ i \notin DOMAIN s /\ Append(s, x)[i] = x
         /\ s = <<>> => Head(Append(s, x)) = x /\ Tail(Append(s, x)) = <<>>
  OBVIOUS

\* The least id is one of the ids.
LEMMA MinIsIn ==
  ASSUME NEW S \in SUBSET Nat, S # {}
  PROVE  Min(S) \in S
  <1> DEFINE R == {ss \in Nat \X Nat : ss[1] < ss[2]}
  <1>1. IsWellFoundedOn(R, Nat) BY NatLessThanWellFounded, Zenon DEF OpToRel
  <1>2. PICK x \in S : \A y \in S : ~ (<<y, x>> \in R) BY <1>1, WFMin
  <1>3. ASSUME NEW y \in S PROVE x <= y
    <2>1. ~ (<<y, x>>[1] < <<y, x>>[2]) BY <1>2
    <2> QED BY <2>1
  <1> QED BY <1>3 DEF Min

\* With fewer tasks than slots there is an id that none of them has.
LEMMA IdLeft ==
  ASSUME NEW A \in SUBSET Tasks, NEW m \in Nat, Cardinality(A) < m, NEW free,
         NEW id, \A i \in (1..m) \ free : \E t \in A : id[t] = i
  PROVE  free \cap (1..m) # {}
  <1> SUFFICES ASSUME free \cap (1..m) = {} PROVE FALSE OBVIOUS
  <1> DEFINE I == {id[t] : t \in A}
             f == [t \in A |-> id[t]]
  <1>1. IsFiniteSet(A) BY PlanAssumption, FS_Subset
  <1>2. f \in Surjection(A, I) BY DEF Surjection
  <1>3. IsFiniteSet(I) /\ Cardinality(I) <= Cardinality(A) BY <1>1, <1>2, FS_Surjection
  <1>4. 1..m \in SUBSET I OBVIOUS
  <1>5. Cardinality(1..m) <= Cardinality(I) BY <1>3, <1>4, FS_Subset
  <1>6. Cardinality(1..m) = m BY FS_Interval
  <1>7. Cardinality(A) \in Nat /\ Cardinality(I) \in Nat BY <1>1, <1>3, FS_CardinalityType
  <1> HIDE DEF I
  <1> QED BY <1>3, <1>5, <1>6, <1>7
-----------------------------------------------------------------------------
(* What Submit and Continue come to in a state of the invariant.           *)

\* The next task of the loop is skipped, waits, or begins with a new runner.
Skips(t) ==
  /\ ctxCancelling
  /\ resolver' = [resolver EXCEPT ![t] = "skipped"]
  /\ pc' = [pc EXCEPT ![t] = "done"]
  /\ UNCHANGED <<queue, activeTasks, sharedRunners, freeIds, rstate, runnerOf, mapOf, poolId>>

Enqueues(t) ==
  /\ ~GroupCancelled /\ Cardinality(activeTasks) >= maxWorkers
  /\ queue' = Append(queue, t)
  /\ pc' = [pc EXCEPT ![t] = "queued"]
  /\ UNCHANGED <<activeTasks, sharedRunners, freeIds, rstate, resolver, runnerOf, mapOf, poolId>>

Begins(t, id) ==
  /\ ~GroupCancelled /\ Cardinality(activeTasks) < maxWorkers
  /\ queue = <<>> /\ queue' = <<>>
  /\ id \in freeIds /\ freeIds' = freeIds \ {id}
  /\ activeTasks' = activeTasks \cup {t}
  /\ runnerOf' = [runnerOf EXCEPT ![t] = t]
  /\ poolId' = [poolId EXCEPT ![t] = id]
  /\ mapOf' = [mapOf EXCEPT ![t] = group]
  /\ rstate' = [rstate EXCEPT ![t] = "starting"]
  /\ pc' = [pc EXCEPT ![t] = "starting"]
  /\ UNCHANGED <<sharedRunners, resolver>>

\* A task that has ended stops its runner and nothing else begins, the next task takes its
\* runner, or begins with a new one.
StopsRunner(t) ==
  exitPromises' = IF IsTerminated(rstate, runnerOf[t]) THEN exitPromises
                                                       ELSE exitPromises \cup {runnerOf[t]}

Leaves(t) ==
  /\ queue = <<>> \/ Cardinality(activeTasks \ {t}) >= maxWorkers
  /\ activeTasks' = activeTasks \ {t}
  /\ freeIds' = FreedIds(t)
  /\ rstate' = [rstate EXCEPT ![runnerOf[t]] = StopEffect(@)]
  /\ pc' = [pc EXCEPT ![t] = "done"]
  /\ StopsRunner(t)
  /\ UNCHANGED <<queue, sharedRunners, resolver, runnerOf, mapOf, poolId>>

HandsOver(t, h) ==
  /\ ~GroupCancelled /\ Cardinality(activeTasks \ {t}) < maxWorkers
  /\ t \in activeTasks /\ mapOf[t] = group
  /\ h \notin Isolated /\ runnerOf[t] \notin Isolated /\ Key[runnerOf[t]] = Key[h]
  /\ rstate[runnerOf[t]] \in {"started", "failed"}
  /\ queue # <<>> /\ h = Head(queue) /\ queue' = Tail(queue)
  /\ activeTasks' = (activeTasks \ {t}) \cup {h}
  /\ runnerOf' = [runnerOf EXCEPT ![h] = runnerOf[t]]
  /\ mapOf' = [mapOf EXCEPT ![h] = group]
  /\ rstate' = [rstate EXCEPT ![runnerOf[t]] = IF @ = "started" THEN @ ELSE "starting"]
  /\ pc' = [pc EXCEPT ![t] = "done",
                      ![h] = IF rstate[runnerOf[t]] = "started" THEN "running" ELSE "starting"]
  /\ UNCHANGED <<sharedRunners, exitPromises, freeIds, resolver, poolId>>

Replaces(t, h, id) ==
  /\ ~GroupCancelled /\ Cardinality(activeTasks \ {t}) < maxWorkers
  /\ queue # <<>> /\ h = Head(queue) /\ queue' = Tail(queue)
  /\ id \in FreedIds(t) /\ freeIds' = FreedIds(t) \ {id}
  /\ activeTasks' = (activeTasks \ {t}) \cup {h}
  /\ runnerOf' = [runnerOf EXCEPT ![h] = h]
  /\ poolId' = [poolId EXCEPT ![h] = id]
  /\ mapOf' = [mapOf EXCEPT ![h] = group]
  /\ rstate' = [rstate EXCEPT ![runnerOf[t]] = StopEffect(@), ![h] = "starting"]
  /\ pc' = [pc EXCEPT ![t] = "done", ![h] = "starting"]
  /\ StopsRunner(t)
  /\ UNCHANGED <<sharedRunners, resolver>>

SubmitFrame ==
  /\ toSubmit' = Tail(toSubmit)
  /\ UNCHANGED <<group, ctxCancelling, cancelPromise, cancels, exitPromises, isCancelling,
                 link, stopWanted, graceful>>
ContinueFrame ==
  /\ UNCHANGED <<isCancelling, ctxVars, link, stopWanted>>
  /\ graceful' \subseteq Tasks

\* While tasks wait the group goes on ...
LEMMA WaitingMeansAccepting ==
  ASSUME IInv, queue # <<>>
  PROVE  ~GroupCancelled
  <1>1. queue \in Seq(Tasks) BY DEF IInv, TypeOK
  <1>2. queue[1] \in InGroup(group) /\ pc[queue[1]] = "queued" /\ queue[1] \in Tasks
    BY <1>1, HeadAndTail DEF IInv, WaitingTasks
  <1>3. ~Settled(queue[1]) BY <1>2 DEF IInv, WaitingTasks, Settled
  <1>4. group > 0
    <2>1. group # 0 BY DEF IInv, WaitingTasks
    <2> QED BY <2>1, GroupFacts DEF IInv, TypeOK
  <1>5. ~GroupSettled BY <1>2, <1>3, <1>4 DEF GroupSettled
  <1>6. ~ctxCancelling BY DEF IInv, Cancelling
  <1> QED BY <1>5, <1>6 DEF GroupCancelled, AllOver

\* ... and the next one is of the group, pending, and has no runner.
LEMMA NextInQueue ==
  ASSUME IInv, queue # <<>>
  PROVE  LET h == Head(queue) IN
         /\ h \in Tasks /\ group \in Groups /\ h \in InGroup(group)
         /\ pc[h] = "queued" /\ resolver[h] = "pending" /\ rstate[h] = "idle"
  <1>1. queue \in Seq(Tasks) BY DEF IInv, TypeOK
  <1>2. Head(queue) \in Tasks /\ Head(queue) \in InGroup(group) /\ pc[Head(queue)] = "queued"
    BY <1>1, HeadAndTail DEF IInv, WaitingTasks
  <1>3. group \in Groups
    <2>1. group # 0 BY DEF IInv, WaitingTasks
    <2> QED BY <2>1, GroupFacts DEF IInv, TypeOK, Groups
  <1> QED BY <1>2, <1>3 DEF IInv, WaitingTasks

LEMMA NextInLoop ==
  ASSUME IInv, toSubmit # <<>>
  PROVE  LET t == Head(toSubmit) IN
         /\ t \in Tasks /\ group \in Groups /\ t \in InGroup(group)
         /\ pc[t] = "none" /\ resolver[t] = "pending" /\ rstate[t] = "idle"
  <1>1. toSubmit \in Seq(Tasks) BY DEF IInv, TypeOK
  <1>2. Head(toSubmit) \in Tasks /\ Head(toSubmit) \in InGroup(group) /\ pc[Head(toSubmit)] = "none"
    BY <1>1, HeadAndTail DEF IInv, WaitingTasks
  <1>3. group \in Groups
    <2>1. group # 0 BY DEF IInv, WaitingTasks
    <2> QED BY <2>1, GroupFacts DEF IInv, TypeOK, Groups
  <1> QED BY <1>2, <1>3 DEF IInv, WaitingTasks
\* There are as many ids as slots.
LEMMA IdsOfGroup ==
  ASSUME TypeOK, group \in Groups
  PROVE  maxWorkers \in Nat \ {0} /\ maxWorkers = Plan[group].max /\ Ids = 1..maxWorkers
  <1>1. group # 0 BY GroupFacts
  <1> QED BY <1>1, GroupFacts DEF maxWorkers, Ids

\* A task that begins with a new runner gets an id: getConcurrencyId does not throw.
LEMMA IdForNewRunner ==
  ASSUME TypeOK, group \in Groups, NEW A \in SUBSET Tasks, Cardinality(A) < maxWorkers,
         NEW free \in SUBSET Ids,
         \A i \in Ids \ free : \E t \in A : poolId[runnerOf[t]] = i
  PROVE  free # {} /\ Min(free) \in free
  <1>1. maxWorkers \in Nat /\ Ids = 1..maxWorkers BY IdsOfGroup
  <1> DEFINE id == [t \in Tasks |-> poolId[runnerOf[t]]]
  <1>2. \A i \in (1..maxWorkers) \ free : \E t \in A : id[t] = i BY <1>1
  <1> HIDE DEF id
  <1>3. free # {}
    <2> DEFINE m == maxWorkers
    <2>1. m \in Nat /\ Cardinality(A) < m /\ \A i \in (1..m) \ free : \E t \in A : id[t] = i
      BY <1>1, <1>2
    <2> HIDE DEF m
    <2>2. free \cap (1..m) # {} BY ONLY <2>1, A \in SUBSET Tasks, IdLeft
    <2> QED BY <2>2
  <1>4. free \in SUBSET Nat BY <1>1
  <1> QED BY <1>3, <1>4, MinIsIn

LEMMA SubmitCases ==
  ASSUME IInv, Submit
  PROVE  LET t == Head(toSubmit) IN
         /\ toSubmit # <<>> /\ SubmitFrame
         /\ Skips(t) \/ Enqueues(t) \/ \E id \in freeIds : Begins(t, id)
  <1> DEFINE t == Head(toSubmit)
             at == [pc EXCEPT ![t] = "queued"]
  <1>1. toSubmit # <<>> /\ SubmitFrame BY DEF Submit, SubmitFrame
  <1>2. /\ t \in Tasks /\ group \in Groups /\ pc[t] = "none" /\ rstate[t] = "idle"
    BY <1>1, NextInLoop
  <1>3. CASE ctxCancelling \/ isCancelling
    <2>1. ctxCancelling BY <1>1, <1>3 DEF IInv, Cancelling, GroupCancelled, AllOver
    <2> QED BY <1>1, <1>3, <2>1 DEF Submit, Skips
  <1>4. CASE ~(ctxCancelling \/ isCancelling)
    <2>1. ~GroupCancelled BY <1>1, <1>4 DEF GroupCancelled, AllOver
    <2>2. Schedule(Append(queue, t), activeTasks, sharedRunners, freeIds, rstate, at)
      BY <1>4 DEF Submit
    <2>3. queue \in Seq(Tasks) /\ sharedRunners = {} BY DEF IInv, TypeOK, Runners
    <2>4. Append(queue, t) # <<>> BY <1>2, <2>3, Appended
    <2>5. maxWorkers \in Nat /\ Cardinality(activeTasks) \in Nat
      BY <1>2, IdsOfGroup, PlanAssumption, FS_Subset, FS_CardinalityType DEF IInv, TypeOK
    <2>6. CASE Cardinality(activeTasks) >= maxWorkers
      <3>1. ~HasCapacity(activeTasks) BY <2>5, <2>6 DEF HasCapacity
      <3> HIDE DEF t
      <3> QED BY <1>1, <2>1, <2>2, <2>6, <3>1 DEF Schedule, Enqueues, at, t
    <2>7. CASE Cardinality(activeTasks) < maxWorkers
      <3>1. queue = <<>> BY <2>5, <2>7 DEF IInv, Slots
      <3>2. Head(Append(queue, t)) = t /\ Tail(Append(queue, t)) = <<>>
        BY <1>2, <2>3, <3>1, Appended
      <3>3. HasCapacity(activeTasks) BY <2>7 DEF HasCapacity
      <3>4. Reusable(sharedRunners, t) = {} BY <2>3 DEF Reusable
      <3>5. freeIds # {} /\ Min(freeIds) \in freeIds
        <4>1. activeTasks \in SUBSET Tasks /\ freeIds \in SUBSET Ids /\ TypeOK BY DEF IInv, TypeOK
        <4>2. \A i \in Ids \ freeIds : \E u \in activeTasks : poolId[runnerOf[u]] = i
          BY <2>1 DEF IInv, Slots
        <4> QED BY <1>2, <2>7, <4>1, <4>2, IdForNewRunner
      <3> HIDE DEF t
      <3>6. queue' = <<>> BY <2>2, <2>4, <3>2, <3>3 DEF Schedule
      <3>7. /\ Activate(t, t, Min(freeIds), activeTasks, sharedRunners, freeIds \ {Min(freeIds)}, rstate, at)
            /\ UNCHANGED resolver
        BY <2>2, <2>4, <3>2, <3>3, <3>4, <3>5 DEF Schedule
      <3>8. Begins(t, Min(freeIds))
        <4>1. pc' = [pc EXCEPT ![t] = "starting"] BY <1>2, <3>7 DEF Activate, at, IInv, TypeOK
        <4>2. rstate' = [rstate EXCEPT ![t] = "starting"] BY <1>2, <3>7 DEF Activate, IInv, TypeOK
        <4>3. sharedRunners' = sharedRunners BY <2>3, <3>7 DEF Activate
        <4> QED BY <2>1, <2>7, <3>1, <3>5, <3>6, <3>7, <4>1, <4>2, <4>3 DEF Activate, Begins
      <3> QED BY <1>1, <3>5, <3>8 DEF t
    <2> QED BY <2>5, <2>6, <2>7
  <1> QED BY <1>3, <1>4
\* A task whose schedule() goes on.
LEMMA Continuing ==
  ASSUME IInv, NEW t \in Tasks, Busy(t)
  PROVE  /\ runnerOf[t] \in Tasks /\ mapOf[t] \in Groups /\ t \in InGroup(mapOf[t])
         /\ rstate[runnerOf[t]] \in RunnerStates \ {"idle"}
         /\ pc[t] # "starting" => rstate[runnerOf[t]] # "starting"
  <1>1. mapOf[t] \in 1..group /\ group \in 0..Len(Plan) BY DEF IInv, BusyTasks, TypeOK
  <1>2. mapOf[t] \in Groups BY <1>1, GroupFacts DEF Groups
  <1> QED BY <1>2 DEF IInv, BusyTasks, TypeOK

\* A runner is only shared within its group, in which no cancel has begun.
LEMMA SharesMeans ==
  ASSUME IInv, LateTasks, LateAreAlone, NEW t \in Tasks, pc[t] = "running", Shares(t)
  PROVE  LET h == Head(queue) IN
         /\ queue # <<>> /\ ~GroupCancelled
         /\ t \in activeTasks /\ mapOf[t] = group /\ Cardinality(activeTasks \ {t}) < maxWorkers
         /\ h \notin Isolated /\ runnerOf[t] \notin Isolated /\ Key[runnerOf[t]] = Key[h]
         /\ rstate[runnerOf[t]] \in {"started", "failed"}
  <1> DEFINE h == Head(queue)
             r == runnerOf[t]
  <1>1. queue # <<>> /\ h \notin Isolated /\ t \notin Isolated /\ Key[r] = Key[h] /\ ~IsTerminated(rstate, r)
    BY DEF Shares
  <1>2. ~GroupCancelled BY <1>1, WaitingMeansAccepting
  <1>3. h \in Tasks /\ group \in Groups /\ h \in InGroup(group) BY <1>1, NextInQueue
  <1>4. Busy(t) BY DEF Busy
  <1>5. r \notin Isolated /\ Key[r] = Key[t] BY <1>1, <1>4 DEF IInv, BusyTasks
  <1>6. mapOf[t] = group
    <2>1. mapOf[t] \in Groups /\ t \in InGroup(mapOf[t]) BY <1>4, Continuing
    <2>2. SharesWith(t, h) BY <1>1, <1>5 DEF SharesWith
    <2>3. CASE Plan[mapOf[t]].run = Plan[group].run BY <1>3, <2>1, <2>2, <2>3, KeyAssumption
    <2>4. CASE Plan[mapOf[t]].run # Plan[group].run
      <3>1. t \in SlowStart BY <1>4, <2>4 DEF LateTasks
      <3> QED BY <1>3, <2>1, <2>2, <3>1 DEF LateAreAlone
    <2> QED BY <2>3, <2>4
  <1>7. t \in activeTasks BY <1>2, <1>4, <1>6 DEF IInv, ActiveTasks
  <1>8. Cardinality(activeTasks \ {t}) < maxWorkers
    <2>1. activeTasks \in SUBSET Tasks BY DEF IInv, TypeOK
    <2>2. IsFiniteSet(activeTasks) /\ Cardinality(activeTasks) \in Nat
      BY <2>1, PlanAssumption, FS_Subset, FS_CardinalityType
    <2>3. Cardinality(activeTasks \ {t}) = Cardinality(activeTasks) - 1
      BY <1>7, <2>2, FS_RemoveElement
    <2>4. Cardinality(activeTasks) <= maxWorkers BY <1>6, <1>7 DEF IInv, Slots
    <2> QED BY <1>3, <2>2, <2>3, <2>4, IdsOfGroup DEF IInv
  <1>9. rstate[r] \in {"started", "failed"}
    <2>1. rstate[r] \in RunnerStates \ {"idle", "starting"} BY <1>4, Continuing
    <2>2. rstate[r] # "stopping" BY <1>2, <1>4, <1>6 DEF IInv, Runners
    <2> QED BY <1>1, <2>1, <2>2 DEF IsTerminated, RunnerStates
  <1> QED BY <1>1, <1>2, <1>5, <1>6, <1>7, <1>8, <1>9

LEMMA ContinueCases ==
  ASSUME IInv, LateTasks, LateAreAlone, NEW t \in Tasks, Continue(t)
  PROVE  /\ pc[t] = "running" /\ Settled(t) /\ ContinueFrame
         /\ \/ Leaves(t)
            \/ HandsOver(t, Head(queue))
            \/ \E id \in FreedIds(t) : Replaces(t, Head(queue), id)
  <1> DEFINE h == Head(queue)
             r == runnerOf[t]
             at == [pc EXCEPT ![t] = "done"]
  <1>1. pc[t] = "running" /\ Settled(t) /\ ContinueFrame
    <2>1. pc[t] = "running" /\ Settled(t) /\ UNCHANGED <<isCancelling, ctxVars, link, stopWanted>>
      BY DEF Continue
    <2>2. r \in Tasks BY <2>1, Continuing DEF Busy
    <2>3. graceful' = graceful \/ StopsGracefully({}) \/ StopsGracefully({r}) BY DEF Continue
    <2>4. graceful' \subseteq Tasks BY <2>2, <2>3 DEF StopsGracefully, IInv, TypeOK
    <2> QED BY <2>1, <2>4 DEF ContinueFrame
  <1>2. sharedRunners = {} BY DEF IInv, Runners
  <1>3. r \in Tasks /\ rstate[r] \notin {"idle", "starting"} BY <1>1, Continuing DEF Busy
  <1>4. maxWorkers \in Nat /\ Cardinality(activeTasks \ {t}) \in Nat
    <2>1. mapOf[t] \in 1..group BY <1>1 DEF IInv, BusyTasks, Busy
    <2>2. group \in Groups BY <2>1, GroupFacts DEF IInv, TypeOK, Groups
    <2>3. activeTasks \ {t} \in SUBSET Tasks BY DEF IInv, TypeOK
    <2> QED BY <2>2, <2>3, IdsOfGroup, PlanAssumption, FS_Subset, FS_CardinalityType DEF IInv
  <1>5. CASE Shares(t)
    <2>1. /\ Schedule(queue, activeTasks \ {t}, sharedRunners \cup {r}, freeIds, rstate, at)
          /\ UNCHANGED exitPromises
      BY <1>5 DEF Continue
    <2>2. /\ queue # <<>> /\ ~GroupCancelled
          /\ t \in activeTasks /\ mapOf[t] = group /\ Cardinality(activeTasks \ {t}) < maxWorkers
          /\ h \notin Isolated /\ r \notin Isolated /\ Key[r] = Key[h]
          /\ rstate[r] \in {"started", "failed"}
      BY <1>1, <1>5, SharesMeans
    <2>3. HasCapacity(activeTasks \ {t}) BY <2>2 DEF HasCapacity
    <2>4. h \in Tasks /\ pc[h] = "queued" /\ h # t BY <1>1, <2>2, NextInQueue
    <2>5. Reusable(sharedRunners \cup {r}, h) = {r} BY <1>2, <2>2 DEF Reusable
    <2> HIDE DEF h, r, at
    <2>6. /\ queue' = Tail(queue) /\ UNCHANGED resolver
          /\ Activate(h, r, poolId[r], activeTasks \ {t}, sharedRunners \cup {r}, freeIds, rstate, at)
      BY <2>1, <2>2, <2>3, <2>5 DEF Schedule, h
    <2>7. HandsOver(t, h)
      <3>1. pc' = [pc EXCEPT ![t] = "done", ![h] = IF rstate[r] = "started" THEN "running" ELSE "starting"]
        BY <2>6 DEF Activate, at
      <3>2. rstate' = [rstate EXCEPT ![r] = IF @ = "started" THEN @ ELSE "starting"]
        BY <2>6 DEF Activate
      <3>3. poolId' = poolId BY <1>3, <2>6 DEF Activate, IInv, TypeOK
      <3>4. sharedRunners' = sharedRunners BY <1>2, <2>6 DEF Activate
      <3> QED BY <2>1, <2>2, <2>6, <3>1, <3>2, <3>3, <3>4 DEF HandsOver, Activate, h, r
    <2> QED BY <1>1, <2>7 DEF h
  <1>6. CASE ~Shares(t)
    <2> DEFINE rs == [rstate EXCEPT ![r] = StopEffect(@)]
    <2>1. /\ Schedule(queue, activeTasks \ {t}, sharedRunners, FreedIds(t), rs, at)
          /\ StopsRunner(t)
      BY <1>6 DEF Continue, StopsRunner
    <2>2. CASE queue = <<>> \/ Cardinality(activeTasks \ {t}) >= maxWorkers
      <3>1. queue = <<>> \/ ~HasCapacity(activeTasks \ {t}) BY <1>4, <2>2 DEF HasCapacity
      <3> HIDE DEF rs, at
      <3>2. /\ queue' = queue /\ activeTasks' = activeTasks \ {t} /\ sharedRunners' = sharedRunners
            /\ freeIds' = FreedIds(t) /\ rstate' = rs /\ pc' = at
            /\ UNCHANGED <<resolver, runnerOf, mapOf, poolId>>
        BY <2>1, <3>1 DEF Schedule
      <3> QED BY <1>1, <2>1, <2>2, <3>2 DEF Leaves, rs, at
    <2>3. CASE queue # <<>> /\ Cardinality(activeTasks \ {t}) < maxWorkers
      <3>1. ~GroupCancelled BY <2>3, WaitingMeansAccepting
      <3>2. /\ h \in Tasks /\ group \in Groups /\ pc[h] = "queued" /\ rstate[h] = "idle"
            /\ h # t /\ h # r
        BY <1>1, <1>3, <2>3, NextInQueue
      <3>3. HasCapacity(activeTasks \ {t}) BY <2>3 DEF HasCapacity
      <3>4. Reusable(sharedRunners, h) = {} BY <1>2 DEF Reusable
      <3>5. FreedIds(t) # {} /\ Min(FreedIds(t)) \in FreedIds(t)
        <4>1. /\ activeTasks \ {t} \in SUBSET Tasks /\ freeIds \in SUBSET Ids /\ TypeOK
          BY DEF IInv, TypeOK
        <4>2. FreedIds(t) \in SUBSET Ids
          <5>1. CASE mapOf[t] = group /\ t \in activeTasks
            BY <4>1, <5>1 DEF FreedIds, IInv, Slots
          <5>2. CASE mapOf[t] # group BY <4>1, <5>2 DEF FreedIds
          <5>3. CASE mapOf[t] = group /\ t \notin activeTasks
            BY <1>1, <3>1, <5>3 DEF IInv, ActiveTasks, Busy
          <5> QED BY <5>1, <5>2, <5>3
        <4>3. ASSUME NEW i \in Ids \ FreedIds(t)
              PROVE  \E u \in activeTasks \ {t} : poolId[runnerOf[u]] = i
          <5>1. i \in Ids \ freeIds BY DEF FreedIds
          <5>2. PICK u \in activeTasks : mapOf[u] = group /\ poolId[runnerOf[u]] = i
            BY <3>1, <5>1 DEF IInv, Slots
          <5>3. u # t BY <5>2 DEF FreedIds
          <5> QED BY <5>2, <5>3
        <4> QED BY <2>3, <3>2, <4>1, <4>2, <4>3, IdForNewRunner
      <3> DEFINE id == Min(FreedIds(t))
      <3> HIDE DEF h, rs, at
      <3>6. /\ queue' = Tail(queue) /\ UNCHANGED resolver
            /\ Activate(h, h, id, activeTasks \ {t}, sharedRunners, FreedIds(t) \ {id}, rs, at)
        BY <2>1, <2>3, <3>3, <3>4, <3>5 DEF Schedule, h
      <3> HIDE DEF id
      <3>7. Replaces(t, h, id)
        <4>1. rs[h] = "idle" BY <3>2 DEF rs, IInv, TypeOK
        <4>2. pc' = [pc EXCEPT ![t] = "done", ![h] = "starting"] BY <3>6, <4>1 DEF Activate, at
        <4>3. rstate' = [rstate EXCEPT ![runnerOf[t]] = StopEffect(@), ![h] = "starting"]
          <5>1. rs \in [Tasks -> RunnerStates] BY DEF rs, IInv, TypeOK, StopEffect, RunnerStates
          <5>2. rstate' = [rs EXCEPT ![h] = "starting"] BY <3>2, <3>6, <4>1, <5>1 DEF Activate
          <5> QED BY <5>2 DEF rs
        <4>4. sharedRunners' = sharedRunners BY <1>2, <3>6 DEF Activate
        <4>5. id \in FreedIds(t) BY <3>5 DEF id
        <4> QED BY <2>1, <2>3, <3>1, <3>6, <4>2, <4>3, <4>4, <4>5 DEF Replaces, Activate, h
      <3> QED BY <1>1, <3>5, <3>7 DEF id, h
    <2> QED BY <1>4, <2>2, <2>3
  <1> QED BY <1>5, <1>6
-----------------------------------------------------------------------------
(* Steps that leave the queue, the slots and the cancels alone.            *)

\* Tasks stay settled, and only tasks with a runner are settled by these steps; runners go
\* the way of their life; one begins to stop only because a forced cancel waited for it.
GoesOn ==
  /\ UNCHANGED <<poolVars, ctxVars, runnerOf, mapOf, poolId>>
  /\ \A t \in Tasks : Settled(t) => Settled(t)'
  /\ \A t \in Tasks : Busy(t) <=> Busy(t)'
  /\ \A t \in Tasks : ~Busy(t) => pc'[t] = pc[t] /\ resolver'[t] = resolver[t]
  /\ \A t \in Tasks : Busy(t) => resolver'[t] # "refused"
  /\ \A t \in Tasks : Busy(t) => (pc'[t] = "starting" <=> rstate'[runnerOf[t]] = "starting")
  /\ \A r \in Tasks : rstate'[r] # rstate[r] =>
       \/ rstate[r] = "starting" /\ rstate'[r] \in {"started", "failed"}
       \/ rstate[r] = "started" /\ rstate'[r] = "crashed"
       \/ rstate[r] \in {"started", "failed"} /\ rstate'[r] = "stopping" /\ r \in stopWanted
       \/ rstate[r] = "stopping" /\ rstate'[r] = "stopped"
  /\ stopWanted' \subseteq stopWanted

\* What was said of a group stays so.
LEMMA StaysCancelled ==
  ASSUME IInv, group' = group, toSubmit = <<>> => toSubmit' = <<>>,
         ctxCancelling => ctxCancelling', \A t \in Tasks : Settled(t) => Settled(t)'
  PROVE  /\ AllOver => AllOver'
         /\ GroupCancelled => GroupCancelled'
  <1>1. group > 0 => InGroup(group) \subseteq Tasks
    BY GroupFacts DEF IInv, TypeOK, Groups
  <1>2. GroupSettled => GroupSettled' BY <1>1 DEF GroupSettled, InGroup
  <1> QED BY <1>2 DEF AllOver, GroupCancelled

\* A cancel that goes on did so before.
LEMMA LiveBefore ==
  ASSUME IInv, NEW c \in Cancels, cancels'[c] = cancels[c], Live(c)',
         \A t \in Tasks : pc[t] \notin {"none", "queued"} => runnerOf'[t] = runnerOf[t],
         \A r \in Tasks : rstate[r] = "crashed" => rstate'[r] = "crashed"
  PROVE  Live(c)
  <1>1. Waits(c) BY DEF Live, Waits
  <1>2. ASSUME cancels[c].at = "tasks", NEW t \in cancels[c].awaits, rstate[runnerOf[t]] = "crashed"
        PROVE  FALSE
    <2>1. t \in Tasks BY DEF IInv, TypeOK
    <2>2. runnerOf[t] \in Tasks /\ pc[t] \notin {"none", "queued"} BY <1>2 DEF IInv, Awaited
    <2>3. rstate'[runnerOf'[t]] = "crashed" BY <1>2, <2>1, <2>2
    <2> QED BY <1>2, <2>3 DEF Live, Hangs
  <1> QED BY <1>1, <1>2 DEF Live, Hangs

LEMMA GoesOnKeeps ==
  ASSUME IInv, TypeOK', GoesOn
  PROVE  IInv'
  <1>1. (AllOver => AllOver') /\ (GroupCancelled => GroupCancelled')
    BY StaysCancelled DEF GoesOn, ctxVars
  <1>2. \A c \in Cancels : Live(c)' => Live(c)
    <2>1. \A r \in Tasks : rstate[r] = "crashed" => rstate'[r] = "crashed" BY DEF GoesOn
    <2>2. cancels' = cancels /\ runnerOf' = runnerOf BY DEF GoesOn, ctxVars
    <2> QED BY <2>1, <2>2, LiveBefore
  <1>3. WaitingTasks'
    <2>1. \A t \in Tasks : pc[t] \in {"none", "queued"} => pc'[t] = pc[t] /\ resolver'[t] = resolver[t]
      BY DEF GoesOn, Busy
    <2>2. \A t \in Tasks : pc'[t] \in {"none", "queued"} => pc'[t] = pc[t] /\ resolver'[t] = resolver[t]
      BY DEF GoesOn, Busy
    <2>3. \A t \in Tasks : rstate[t] = "idle" => rstate'[t] = "idle" BY DEF GoesOn
    <2>4. queue' = queue /\ toSubmit' = toSubmit /\ group' = group BY DEF GoesOn, poolVars, ctxVars
    <2>5. /\ \A i \in DOMAIN toSubmit : toSubmit[i] \in Tasks
          /\ \A i \in DOMAIN queue : queue[i] \in Tasks
      <3>1. toSubmit \in Seq(Tasks) /\ queue \in Seq(Tasks) BY DEF IInv, TypeOK
      <3> QED BY ONLY <3>1, ElementOf
    <2>6. \A g \in Groups : InGroup(g) \subseteq Tasks BY GroupFacts
    <2> QED BY <2>1, <2>2, <2>3, <2>4, <2>5, <2>6 DEF IInv, WaitingTasks, InGroup
  <1>4. EndedTasks'
    <2>1. \A t \in Tasks : pc'[t] = "done" => pc[t] = "done" BY DEF GoesOn, Busy
    <2>2. \A g \in Groups : InGroup(g) \subseteq Tasks BY GroupFacts
    <2>3. \A t \in Tasks : Busy(t) => runnerOf[t] # NoTask
      BY PlanAssumption DEF IInv, BusyTasks
    <2>4. runnerOf' = runnerOf /\ group' = group BY DEF GoesOn, ctxVars
    <2> QED BY <2>1, <2>2, <2>3, <2>4 DEF IInv, EndedTasks, GoesOn
  <1>5. BusyTasks'
    <2>1. runnerOf' = runnerOf /\ mapOf' = mapOf /\ group' = group BY DEF GoesOn, ctxVars
    <2>2. \A r \in Tasks : rstate[r] # "idle" => rstate'[r] # "idle" BY DEF GoesOn
    <2> QED BY <2>1, <2>2 DEF IInv, BusyTasks, GoesOn
  <1>6. ActiveTasks'
    <2>1. runnerOf' = runnerOf /\ mapOf' = mapOf /\ group' = group /\ activeTasks' = activeTasks
      BY DEF GoesOn, ctxVars, poolVars
    <2>2. \A r \in Tasks : rstate[r] = "stopped" => rstate'[r] = "stopped" BY DEF GoesOn
    <2>3. \A t \in Tasks : Busy(t) => runnerOf[t] \in Tasks BY DEF IInv, BusyTasks
    <2>4. activeTasks \subseteq Tasks BY DEF IInv, TypeOK
    <2> QED BY <1>1, <2>1, <2>2, <2>3, <2>4 DEF IInv, ActiveTasks, GoesOn
  <1>7. Runners'
    <2>1. /\ runnerOf' = runnerOf /\ mapOf' = mapOf /\ group' = group
          /\ sharedRunners' = sharedRunners /\ exitPromises' = exitPromises
      BY DEF GoesOn, ctxVars, poolVars
    <2>2. \A r \in Tasks : rstate'[r] \in {"starting", "started", "failed"} =>
            \E t \in Tasks : Busy(t)' /\ runnerOf'[t] = r
      BY <2>1 DEF IInv, Runners, GoesOn
    <2>3. \A r \in Tasks : rstate'[r] = "stopping" =>
            r \in exitPromises' \/ \E t \in Tasks : Busy(t)' /\ runnerOf'[t] = r
      BY <2>1 DEF IInv, Runners, GoesOn
    <2>4. \A r \in exitPromises' :
            rstate'[r] \in {"stopping", "stopped"} /\ \A t \in Tasks : Busy(t)' => runnerOf'[t] # r
      <3>1. \A r \in Tasks : rstate[r] \in {"stopping", "stopped"} => rstate'[r] \in {"stopping", "stopped"}
        BY DEF GoesOn
      <3>2. exitPromises \subseteq Tasks /\ \A t \in Tasks : Busy(t)' => Busy(t)
        BY DEF GoesOn, IInv, TypeOK
      <3> QED BY <2>1, <3>1, <3>2 DEF IInv, Runners
    <2>5. \A r \in stopWanted' : rstate'[r] # "idle"
      <3>1. \A r \in Tasks : rstate[r] # "idle" => rstate'[r] # "idle" BY DEF GoesOn
      <3>2. stopWanted' \subseteq stopWanted /\ stopWanted \subseteq Tasks BY DEF GoesOn, IInv, TypeOK
      <3> QED BY <3>1, <3>2 DEF IInv, Runners
    <2>6. ~GroupCancelled' => \A t \in Tasks : Busy(t)' /\ mapOf'[t] = group' =>
            rstate'[runnerOf'[t]] # "stopping" /\ runnerOf'[t] \notin stopWanted'
      <3>1. \A r \in Tasks : rstate'[r] = "stopping" => rstate[r] = "stopping" \/ r \in stopWanted
        BY DEF GoesOn
      <3>2. stopWanted' \subseteq stopWanted BY DEF GoesOn
      <3>3. \A t \in Tasks : Busy(t)' => Busy(t) /\ runnerOf[t] \in Tasks
        BY DEF GoesOn, IInv, BusyTasks
      <3> QED BY <1>1, <2>1, <3>1, <3>2, <3>3 DEF IInv, Runners
    <2> QED BY <2>1, <2>2, <2>3, <2>4, <2>5, <2>6 DEF IInv, Runners
  <1>8. Slots'
    <2>1. /\ runnerOf' = runnerOf /\ mapOf' = mapOf /\ group' = group /\ poolId' = poolId
          /\ activeTasks' = activeTasks /\ freeIds' = freeIds /\ queue' = queue
          /\ maxWorkers' = maxWorkers /\ Ids' = Ids
      BY DEF GoesOn, ctxVars, poolVars, maxWorkers, Ids
    <2>2. \A t \in Tasks : Busy(t) <=> Busy(t)' BY DEF GoesOn
    <2> QED BY <1>1, <2>1, <2>2 DEF IInv, Slots
  <1>9. Cancelling'
    BY <1>1, <1>2 DEF IInv, Cancelling, GoesOn, ctxVars, poolVars
  <1>10. Awaited'
    <2>1. /\ runnerOf' = runnerOf /\ cancels' = cancels /\ isCancelling' = isCancelling
          /\ activeTasks' = activeTasks /\ exitPromises' = exitPromises
          /\ mapOf' = mapOf /\ group' = group
      BY DEF GoesOn, ctxVars, poolVars
    <2>2. \A r \in Tasks : /\ rstate[r] = "stopped" => rstate'[r] = "stopped"
                           /\ rstate[r] = "crashed" => rstate'[r] = "crashed"
      BY DEF GoesOn
    <2>3. \A t \in Tasks : pc[t] \notin {"none", "queued"} => pc'[t] \notin {"none", "queued"}
      BY DEF GoesOn, Busy
    <2>4. /\ \A c \in Cancels : cancels[c].awaits \subseteq Tasks
          /\ activeTasks \subseteq Tasks /\ exitPromises \subseteq Tasks
      BY DEF IInv, TypeOK
    <2>5. \A c \in Cancels : cancels[c].at = "tasks" => \A t \in cancels[c].awaits :
            /\ runnerOf[t] \in Tasks /\ pc'[t] \notin {"none", "queued"}
            /\ \/ t \in activeTasks \/ runnerOf[t] \in exitPromises
               \/ rstate'[runnerOf[t]] \in {"stopped", "crashed"}
            /\ mapOf'[t] = group' => GroupCancelled'
      BY <1>1, <2>1, <2>2, <2>3, <2>4 DEF IInv, Awaited
    <2>6. \A t \in activeTasks : runnerOf[t] \in Tasks BY <2>4 DEF IInv, ActiveTasks, BusyTasks
    <2>7. \A c \in Cancels : Live(c)' /\ cancels[c].at = "tasks" => \A t \in activeTasks :
            t \in cancels[c].awaits \/ (rstate'[runnerOf[t]] = "stopped" /\ Settled(t)')
      BY <1>2, <2>2, <2>4, <2>6 DEF IInv, Awaited, GoesOn
    <2>8. \A c \in Cancels : cancels[c].at = "exits" =>
            /\ \A r \in exitPromises : rstate'[r] = "stopped" \/ r \in cancels[c].awaits
            /\ \A r \in cancels[c].awaits : rstate'[r] = "stopped" \/ r \in exitPromises
      BY <2>2, <2>4 DEF IInv, Awaited
    <2>9. ~isCancelling => \A c \in Cancels : Live(c)' =>
            activeTasks = {} /\ \A r \in exitPromises : rstate'[r] = "stopped"
      BY <1>2, <2>2, <2>4 DEF IInv, Awaited
    <2>10. \A c \in Cancels :
             /\ cancels[c].at \in {"shared", "exits"} => activeTasks = {}
             /\ cancels[c].at = "shared" => cancels[c].awaits = {} /\ cancels[c].began = {}
      BY DEF IInv, Awaited
    <2> QED BY <2>1, <2>5, <2>7, <2>8, <2>9, <2>10 DEF Awaited
  <1>11. ClosedPoolIsStill'
    BY DEF IInv, ClosedPoolIsStill, GoesOn, ctxVars
  <1> QED BY <1>3, <1>4, <1>5, <1>6, <1>7, <1>8, <1>9, <1>10, <1>11 DEF IInv

\* An await of schedule() resumes, or a forced stop does.
LEMMA AfterStartGoesOn ==
  ASSUME IInv, NEW t \in Tasks, AfterStart(t)
  PROVE  TypeOK' /\ GoesOn
  <1>1. /\ pc[t] = "startSettled" /\ pc' = [pc EXCEPT ![t] = "running"]
        /\ UNCHANGED <<poolVars, ctxVars, resolver, runnerOf, mapOf, runnerVars>>
    BY DEF AfterStart
  <1>2. TypeOK'
    BY <1>1 DEF IInv, TypeOK, poolVars, ctxVars, runnerVars, Ids, maxWorkers
  <1>3. rstate' = rstate /\ resolver' = resolver /\ stopWanted' = stopWanted /\ poolId' = poolId
    BY <1>1 DEF runnerVars
  <1>4. \A u \in Tasks : Busy(u) <=> Busy(u)' BY <1>1 DEF Busy, IInv, TypeOK
  <1>5. \A u \in Tasks : Busy(u) => (pc'[u] = "starting" <=> rstate'[runnerOf[u]] = "starting")
    BY <1>1, <1>3 DEF IInv, BusyTasks, TypeOK
  <1>6. \A u \in Tasks : ~Busy(u) => pc'[u] = pc[u] BY <1>1 DEF Busy, IInv, TypeOK
  <1>7. \A u \in Tasks : resolver'[u] # "refused" BY <1>3 DEF IInv, EndedTasks
  <1> QED BY <1>1, <1>2, <1>3, <1>4, <1>5, <1>6, <1>7 DEF GoesOn, Settled

LEMMA StopAfterLockGoesOn ==
  ASSUME IInv, NEW r \in Tasks, StopAfterLock(r)
  PROVE  TypeOK' /\ GoesOn
  <1>1. /\ r \in stopWanted /\ rstate[r] # "starting" /\ stopWanted' = stopWanted \ {r}
        /\ rstate' = [rstate EXCEPT ![r] = StopEffect(@)]
        /\ UNCHANGED <<poolVars, ctxVars, taskVars, poolId, link, graceful>>
    BY DEF StopAfterLock
  <1>2. rstate \in [Tasks -> RunnerStates] BY DEF IInv, TypeOK
  <1>3. TypeOK'
    BY <1>1 DEF IInv, TypeOK, poolVars, ctxVars, taskVars, Ids, maxWorkers, StopEffect, RunnerStates
  <1>4. pc' = pc /\ resolver' = resolver /\ runnerOf' = runnerOf /\ mapOf' = mapOf
    BY <1>1 DEF taskVars
  <1>5. \A q \in Tasks : rstate'[q] # rstate[q] =>
          rstate[q] \in {"started", "failed"} /\ rstate'[q] = "stopping" /\ q \in stopWanted
    BY <1>1, <1>2 DEF StopEffect
  <1>6. \A u \in Tasks : Busy(u) => (pc'[u] = "starting" <=> rstate'[runnerOf[u]] = "starting")
    BY <1>4, <1>5 DEF IInv, BusyTasks
  <1>7. \A u \in Tasks : resolver'[u] # "refused" BY <1>4 DEF IInv, EndedTasks
  <1> QED BY <1>1, <1>3, <1>4, <1>5, <1>6, <1>7 DEF GoesOn, Settled, Busy

\* A start settles.
LEMMA StartOutcomeGoesOn ==
  ASSUME IInv, NEW r \in Tasks, NEW state \in {"started", "failed"}, rstate[r] = "starting",
         StartOutcome(r, state), link' \in [Tasks -> {"up", "broken", "exited", "killed"}]
  PROVE  TypeOK' /\ GoesOn
  <1>1. /\ rstate' = [rstate EXCEPT ![r] = state]
        /\ pc' = [t \in Tasks |-> IF runnerOf[t] = r /\ pc[t] = "starting" THEN "startSettled" ELSE pc[t]]
        /\ UNCHANGED <<poolVars, ctxVars, runnerOf, mapOf, poolId, stopWanted, graceful>>
    BY DEF StartOutcome
  <1>2. /\ \A t \in Tasks : resolver'[t] # resolver[t] =>
             Listens(t, r) /\ ~Settled(t) /\ resolver'[t] = "rejected"
        /\ resolver' \in [Tasks -> Outcomes]
    <2>1. CASE state = "failed"
      BY <2>1 DEF StartOutcome, Reject, IInv, TypeOK, Outcomes
    <2>2. CASE state # "failed" BY <2>2 DEF StartOutcome, IInv, TypeOK
    <2> QED BY <2>1, <2>2
  <1>3. rstate \in [Tasks -> RunnerStates] /\ pc \in [Tasks -> {"none", "queued", "starting", "startSettled", "running", "done"}]
    BY DEF IInv, TypeOK
  <1>4. TypeOK'
    <2>1. rstate' \in [Tasks -> RunnerStates] BY <1>1, <1>3 DEF RunnerStates
    <2>2. pc' \in [Tasks -> {"none", "queued", "starting", "startSettled", "running", "done"}]
      BY <1>1, <1>3
    <2> QED BY <1>1, <1>2, <2>1, <2>2 DEF IInv, TypeOK, poolVars, ctxVars, Ids, maxWorkers
  <1>5. \A t \in Tasks : Busy(t) <=> Busy(t)' BY <1>1, <1>3 DEF Busy
  <1>6. \A t \in Tasks : ~Busy(t) => pc'[t] = pc[t] /\ resolver'[t] = resolver[t]
    BY <1>1, <1>2, <1>3 DEF Busy, Listens
  <1>7. \A t \in Tasks : Busy(t) => (pc'[t] = "starting" <=> rstate'[runnerOf[t]] = "starting")
    BY <1>1, <1>3 DEF IInv, BusyTasks
  <1>8. \A t \in Tasks : resolver'[t] # "refused" /\ (Settled(t) => Settled(t)')
    BY <1>2 DEF IInv, EndedTasks, Settled
  <1>9. \A q \in Tasks : rstate'[q] # rstate[q] => rstate[q] = "starting" /\ rstate'[q] \in {"started", "failed"}
    BY <1>1, <1>3
  <1> QED BY <1>1, <1>4, <1>5, <1>6, <1>7, <1>8, <1>9 DEF GoesOn

\* Promises of tasks settle, and a runner may crash or be stopped.
LEMMA SettlingGoesOn ==
  ASSUME IInv, resolver' \in [Tasks -> Outcomes], rstate' \in [Tasks -> RunnerStates],
         link' \in [Tasks -> {"up", "broken", "exited", "killed"}],
         UNCHANGED <<poolVars, ctxVars, pc, runnerOf, mapOf, poolId, stopWanted, graceful>>,
         \A t \in Tasks : resolver'[t] # resolver[t] =>
           Busy(t) /\ ~Settled(t) /\ resolver'[t] # "refused",
         \A r \in Tasks : rstate'[r] # rstate[r] =>
           \/ rstate[r] = "started" /\ rstate'[r] = "crashed"
           \/ rstate[r] = "stopping" /\ rstate'[r] = "stopped"
  PROVE  TypeOK' /\ GoesOn
  <1>1. TypeOK' BY DEF IInv, TypeOK, poolVars, ctxVars, Ids, maxWorkers
  <1>2. \A t \in Tasks : Busy(t) => (pc'[t] = "starting" <=> rstate'[runnerOf[t]] = "starting")
    BY DEF IInv, BusyTasks
  <1>3. \A t \in Tasks : resolver'[t] # "refused" /\ (Settled(t) => Settled(t)')
    BY DEF IInv, EndedTasks, Settled
  <1> QED BY <1>1, <1>2, <1>3 DEF GoesOn, Busy

LEMMA EventsGoOn ==
  ASSUME IInv,
         \/ \E r \in Tasks :
              \/ StartOk(r) \/ StartFail(r) \/ StopDone(r) \/ StopTimesOut(r)
              \/ BreakChannel(r) \/ HeldErrorAtStart(r) \/ HeldError(r)
              \/ \E how \in {"exited", "killed"} : ExitAtStart(r, how) \/ Exit(r, how)
         \/ \E t \in Tasks :
              StartTimer(t) \/ \E outcome \in {"resolved", "memoryLimit"} : Finish(t, outcome)
  PROVE  TypeOK' /\ GoesOn
  <1>1. /\ link \in [Tasks -> {"up", "broken", "exited", "killed"}] /\ resolver \in [Tasks -> Outcomes]
        /\ rstate \in [Tasks -> RunnerStates]
    BY DEF IInv, TypeOK
  <1>2. ASSUME NEW r \in Tasks, StartOk(r) \/ StartFail(r) \/ HeldErrorAtStart(r) PROVE TypeOK' /\ GoesOn
    BY <1>1, <1>2, StartOutcomeGoesOn DEF StartOk, StartFail, HeldErrorAtStart
  <1>3. ASSUME NEW r \in Tasks, NEW how \in {"exited", "killed"}, ExitAtStart(r, how) PROVE TypeOK' /\ GoesOn
    <2>1. link' \in [Tasks -> {"up", "broken", "exited", "killed"}]
      BY <1>1, <1>3 DEF ExitAtStart, ProcessEnds
    <2> QED BY <1>3, <2>1, StartOutcomeGoesOn DEF ExitAtStart
  <1>4. ASSUME NEW r \in Tasks, StopDone(r) \/ StopTimesOut(r) PROVE TypeOK' /\ GoesOn
    <2>1. rstate[r] = "stopping" /\ rstate' = [rstate EXCEPT ![r] = "stopped"]
          /\ UNCHANGED <<poolVars, pc, resolver, runnerOf, mapOf, poolId, stopWanted, graceful>>
      BY <1>4 DEF StopDone, StopTimesOut, taskVars
    <2>2. link' \in [Tasks -> {"up", "broken", "exited", "killed"}]
      BY <1>1, <1>4 DEF StopDone, StopTimesOut
    <2>3. UNCHANGED ctxVars
      <3>1. CASE StopDone(r) BY <3>1 DEF StopDone
      <3>2. CASE StopTimesOut(r)
        <4>1. \A c \in Cancels : ~Throws(c, r) BY DEF Throws, IInv, Awaited
        <4>2. cancels' = cancels /\ cancelPromise' = cancelPromise
          <5>1. cancels' = [c \in Cancels |-> cancels[c]] BY <3>2, <4>1 DEF StopTimesOut
          <5>2. cancels = [c \in Cancels |-> cancels[c]] BY DEF IInv, TypeOK
          <5> QED BY <3>2, <4>1, <5>1, <5>2 DEF StopTimesOut
        <4> QED BY <3>2, <4>2 DEF StopTimesOut, ctxVars
      <3> QED BY <1>4, <3>1, <3>2
    <2>4. rstate' \in [Tasks -> RunnerStates] BY <1>1, <2>1 DEF RunnerStates
    <2> QED BY <1>1, <2>1, <2>2, <2>3, <2>4, SettlingGoesOn
  <1>5. ASSUME NEW r \in Tasks, BreakChannel(r) PROVE TypeOK' /\ GoesOn
    <2>1. link' = [link EXCEPT ![r] = "broken"]
          /\ UNCHANGED <<poolVars, ctxVars, pc, resolver, runnerOf, mapOf, poolId, rstate, stopWanted, graceful>>
      BY <1>5 DEF BreakChannel, taskVars
    <2>2. link' \in [Tasks -> {"up", "broken", "exited", "killed"}] BY <1>1, <2>1
    <2> QED BY <1>1, <2>1, <2>2, SettlingGoesOn
  <1>6. ASSUME NEW S, Reject(S), \A t \in S : Busy(t)
        PROVE  /\ resolver' \in [Tasks -> Outcomes]
               /\ \A t \in Tasks : resolver'[t] # resolver[t] =>
                    Busy(t) /\ ~Settled(t) /\ resolver'[t] # "refused"
    BY <1>1, <1>6 DEF Reject, Outcomes
  <1>7. \A r \in Tasks : \A t \in {u \in Tasks : Listens(u, r)} : Busy(t) BY DEF Listens, Busy
  <1>8. ASSUME NEW r \in Tasks, HeldError(r) PROVE TypeOK' /\ GoesOn
    <2>1. /\ Reject({t \in Tasks : Listens(t, r)})
          /\ UNCHANGED <<poolVars, ctxVars, pc, runnerOf, mapOf, poolId, rstate, link, stopWanted, graceful>>
      BY <1>8 DEF HeldError, runnerVars
    <2> QED BY <1>1, <1>6, <1>7, <2>1, SettlingGoesOn
  <1>9. ASSUME NEW r \in Tasks, NEW how \in {"exited", "killed"}, Exit(r, how) PROVE TypeOK' /\ GoesOn
    <2>1. /\ Reject({t \in Tasks : Listens(t, r)})
          /\ rstate[r] = "started" /\ rstate' = [rstate EXCEPT ![r] = "crashed"]
          /\ link' = [link EXCEPT ![r] = how]
          /\ UNCHANGED <<poolVars, ctxVars, pc, runnerOf, mapOf, poolId, stopWanted, graceful>>
      BY <1>9 DEF Exit, ProcessEnds
    <2>2. rstate' \in [Tasks -> RunnerStates] BY <1>1, <2>1 DEF RunnerStates
    <2>3. link' \in [Tasks -> {"up", "broken", "exited", "killed"}] BY <1>1, <2>1
    <2> QED BY <1>1, <1>6, <1>7, <2>1, <2>2, <2>3, SettlingGoesOn
  <1>10. ASSUME NEW t \in Tasks, StartTimer(t) PROVE TypeOK' /\ GoesOn
    <2>1. /\ Reject({t}) /\ Busy(t)
          /\ UNCHANGED <<poolVars, ctxVars, pc, runnerOf, mapOf, poolId, rstate, link, stopWanted, graceful>>
      BY <1>10 DEF StartTimer, runnerVars, Busy
    <2> QED BY <1>1, <1>6, <2>1, SettlingGoesOn
  <1>11. ASSUME NEW t \in Tasks, NEW outcome \in {"resolved", "memoryLimit"}, Finish(t, outcome)
         PROVE  TypeOK' /\ GoesOn
    <2>1. /\ Busy(t) /\ ~Settled(t) /\ resolver' = [resolver EXCEPT ![t] = outcome]
          /\ UNCHANGED <<poolVars, ctxVars, pc, runnerOf, mapOf, poolId, rstate, link, stopWanted, graceful>>
      BY <1>11 DEF Finish, runnerVars, Busy
    <2>2. resolver' \in [Tasks -> Outcomes] BY <1>1, <2>1 DEF Outcomes
    <2> QED BY <1>1, <2>1, <2>2, SettlingGoesOn
  <1> QED BY <1>2, <1>3, <1>4, <1>5, <1>8, <1>9, <1>10, <1>11

-----------------------------------------------------------------------------
(* Steps that open a group.                                                *)

\* When isCancelling is reset and no await can resume, no cancel goes on.
LEMMA NoCancelGoesOn ==
  ASSUME IInv, Quiescent, ~isCancelling, NEW c \in Cancels
  PROVE  ~Live(c)
  <1> SUFFICES ASSUME Live(c) PROVE FALSE OBVIOUS
  <1>1. activeTasks = {} /\ \A r \in exitPromises : rstate[r] = "stopped" BY DEF IInv, Awaited
  <1>2. CASE cancels[c].at = "tasks"
    <2>1. PICK t \in cancels[c].awaits : rstate[runnerOf[t]] # "stopped"
      BY <1>2 DEF Quiescent
    <2>2. rstate[runnerOf[t]] # "crashed" BY <1>2 DEF Live, Hangs
    <2> QED BY <1>1, <1>2, <2>1, <2>2 DEF IInv, Awaited
  <1>3. CASE cancels[c].at \in {"shared", "exits"}
    <2>1. \A r \in cancels[c].awaits : rstate[r] = "stopped" BY <1>1, <1>3 DEF IInv, Awaited
    <2>2. StoppedAll(c) BY <2>1 DEF StoppedAll, IsTerminated
    <2> QED BY <1>3, <2>2 DEF Quiescent
  <1> QED BY <1>2, <1>3 DEF Live, Waits

LEMMA OpensGroupKeeps ==
  ASSUME IInv, NextGroup \/ StartRun
  PROVE  IInv'
  <1> DEFINE n == group + 1
  <1>1. /\ group \in 0..Len(Plan) /\ group < Len(Plan) /\ GroupSettled /\ toSubmit = <<>>
        /\ group' = n /\ toSubmit' = Plan[n].tasks /\ freeIds' = 1..Plan[n].max
        /\ UNCHANGED <<queue, activeTasks, sharedRunners, exitPromises, isCancelling,
                       cancelPromise, cancels, taskVars, runnerVars>>
    BY DEF NextGroup, StartRun, StartGroup, NewIds, HasNextGroup, Quiescent, LoopDone, IInv, TypeOK
  <1>2. /\ pc' = pc /\ resolver' = resolver /\ runnerOf' = runnerOf /\ mapOf' = mapOf
        /\ poolId' = poolId /\ rstate' = rstate /\ link' = link /\ stopWanted' = stopWanted /\ graceful' = graceful
    BY <1>1 DEF taskVars, runnerVars
  <1>3. n \in Groups /\ Plan[n].max \in Nat \ {0} /\ n # 0
    BY <1>1, GroupFacts DEF Groups
  <1>4. queue = <<>>
    <2> SUFFICES ASSUME queue # <<>> PROVE FALSE OBVIOUS
    <2>1. group \in Groups /\ Head(queue) \in InGroup(group) /\ resolver[Head(queue)] = "pending"
      BY NextInQueue
    <2>2. group > 0 BY <2>1, GroupFacts
    <2> QED BY <1>1, <2>1, <2>2 DEF GroupSettled, Settled
  <1>5. ~AllOver BY <1>1 DEF AllOver
  <1>6. \A c \in Cancels : Live(c)' <=> Live(c)
    BY <1>1, <1>2 DEF Live, Waits, Hangs
  <1>7. \/ ctxCancelling' = ctxCancelling
        \/ ctxCancelling' = FALSE /\ ~isCancelling /\ \A c \in Cancels : ~Live(c)
    <2>1. CASE NextGroup BY <2>1 DEF NextGroup
    <2>2. CASE StartRun
      <3>1. ~isCancelling BY <1>5, <2>2 DEF StartRun, NoCancelPromise, IInv, Cancelling
      <3>2. Quiescent /\ ctxCancelling' = FALSE BY <2>2 DEF StartRun
      <3> QED BY <3>1, <3>2, NoCancelGoesOn
    <2> QED BY <2>1, <2>2
  <1>8. maxWorkers' = Plan[n].max /\ Ids' = 1..Plan[n].max /\ freeIds' = Ids'
    BY <1>1, <1>3 DEF maxWorkers, Ids
  <1>9. TypeOK'
    <2>1. n \in 0..Len(Plan) /\ Plan[n].tasks \in Seq(Tasks) BY <1>1, <1>3, GroupFacts
    <2>2. ctxCancelling' \in BOOLEAN BY <1>7 DEF IInv, TypeOK
    <2> QED BY <1>1, <1>2, <1>8, <2>1, <2>2 DEF IInv, TypeOK
  <1> HIDE DEF n
  <1>10. WaitingTasks'
    <2>1. \A i \in DOMAIN toSubmit' : toSubmit'[i] \in InGroup(n) /\ pc[toSubmit'[i]] = "none"
      <3>1. n > group BY <1>1 DEF n
      <3>2. \A t \in InGroup(n) : pc[t] = "none" BY <1>3, <3>1 DEF IInv, WaitingTasks
      <3> QED BY <1>1, <1>3, <3>2, GroupFacts
    <2>2. \A i, j \in DOMAIN toSubmit' : toSubmit'[i] = toSubmit'[j] => i = j
      BY <1>1, <1>3, PlanAssumption
    <2>3. \A g \in Groups : g > n => g > group BY <1>1, GroupFacts DEF n
    <2> QED BY <1>1, <1>2, <1>3, <1>4, <2>1, <2>2, <2>3 DEF IInv, WaitingTasks, InGroup
  <1>11. EndedTasks'
    <2>1. \A g \in Groups : g < n => g < group \/ (g = group /\ group > 0) BY <1>1, GroupFacts DEF n
    <2>2. group > 0 => \A t \in InGroup(group) : Settled(t) BY <1>1 DEF GroupSettled
    <2> QED BY <1>1, <1>2, <2>1, <2>2 DEF IInv, EndedTasks, InGroup, Settled
  <1>12. \A t \in Tasks : Busy(t)' <=> Busy(t) BY <1>2 DEF Busy
  <1>13. \A t \in Tasks : Busy(t) => mapOf[t] # n /\ mapOf[t] \in 1..n
    BY <1>1 DEF IInv, BusyTasks, n
  <1>14. BusyTasks' BY <1>1, <1>2, <1>12, <1>13 DEF IInv, BusyTasks, InGroup
  <1>15. activeTasks \subseteq Tasks /\ \A t \in activeTasks : Busy(t) BY DEF IInv, TypeOK, ActiveTasks
  <1>16. ActiveTasks' BY <1>1, <1>2, <1>12, <1>13, <1>15 DEF IInv, ActiveTasks, Settled
  <1>17. Runners' BY <1>1, <1>2, <1>12, <1>13 DEF IInv, Runners
  <1>18. Slots'
    <2>1. \A t \in Tasks : mapOf[t] # n /\ mapOf[t] \in 0..n BY <1>1 DEF IInv, Slots, n
    <2> QED BY <1>1, <1>2, <1>4, <1>8, <1>13, <1>15, <2>1 DEF Slots
  <1>19. Cancelling' BY <1>1, <1>4, <1>5, <1>6, <1>7 DEF IInv, Cancelling, GroupCancelled
  <1>20. Awaited'
    <2>1. \A t \in Tasks : mapOf[t] # n BY <1>1 DEF IInv, Slots, n
    <2>2. \A c \in Cancels : cancels[c].awaits \subseteq Tasks BY DEF IInv, TypeOK
    <2> QED BY <1>1, <1>2, <1>6, <2>1, <2>2 DEF IInv, Awaited, Settled
  <1>21. ClosedPoolIsStill' BY <1>1, <1>2 DEF IInv, ClosedPoolIsStill
  <1> QED BY <1>9, <1>10, <1>11, <1>14, <1>16, <1>17, <1>18, <1>19, <1>20, <1>21 DEF IInv

-----------------------------------------------------------------------------
(* Steps of the loop over the tasks of a group.                            *)

\* While tasks are accepted no cancel goes on, and the pool is not closed.
LEMMA AcceptingMeans ==
  ASSUME IInv, ~GroupCancelled
  PROVE  /\ ~isCancelling /\ ~ctxCancelling
         /\ \A c \in Cancels :
              ~Live(c) /\ cancels[c].at \notin {"shared", "exits"} /\ cancels[c].by # "close"
  <1>1. ~ctxCancelling /\ ~AllOver BY DEF GroupCancelled
  <1>2. \A c \in Cancels : ~Live(c) /\ cancels[c].by # "close" BY <1>1 DEF IInv, Cancelling
  <1>3. \A c \in Cancels : cancels[c].at \notin {"shared", "exits"}
    BY <1>2 DEF Live, Waits, Hangs
  <1> QED BY <1>1, <1>2, <1>3 DEF IInv, Cancelling

\* The task the loop comes to leaves it.
LEMMA LoopGoesOn ==
  ASSUME IInv, toSubmit # <<>>, SubmitFrame, \A t \in Tasks : Settled(t) => Settled(t)'
  PROVE  LET t == Head(toSubmit) IN
         /\ toSubmit' \in Seq(Tasks)
         /\ \A i \in DOMAIN toSubmit' :
              /\ toSubmit'[i] \in InGroup(group) /\ pc[toSubmit'[i]] = "none"
              /\ toSubmit'[i] # t /\ toSubmit'[i] \in Tasks
         /\ \A i, j \in DOMAIN toSubmit' : toSubmit'[i] = toSubmit'[j] => i = j
         /\ AllOver => AllOver'
         /\ GroupCancelled => GroupCancelled'
         /\ \A g \in Groups : g > group => t \notin InGroup(g)
         /\ maxWorkers' = maxWorkers /\ Ids' = Ids
  <1> DEFINE t == Head(toSubmit)
  <1>1. toSubmit \in Seq(Tasks) /\ toSubmit' = Tail(toSubmit) BY DEF SubmitFrame, IInv, TypeOK
  <1>2. /\ 1 \in DOMAIN toSubmit /\ t = toSubmit[1] /\ toSubmit' \in Seq(Tasks)
        /\ \A i \in DOMAIN toSubmit' : i + 1 \in DOMAIN toSubmit /\ i + 1 # 1 /\ toSubmit'[i] = toSubmit[i + 1]
        /\ \A i, j \in DOMAIN toSubmit' : i + 1 = j + 1 => i = j
    BY <1>1, HeadAndTail
  <1> HIDE DEF t
  <1>3. \A i \in DOMAIN toSubmit' :
          /\ toSubmit'[i] \in InGroup(group) /\ pc[toSubmit'[i]] = "none"
          /\ toSubmit'[i] # t /\ toSubmit'[i] \in Tasks
    BY <1>1, <1>2, ElementOf DEF IInv, WaitingTasks
  <1>4. \A i, j \in DOMAIN toSubmit' : toSubmit'[i] = toSubmit'[j] => i = j
    BY <1>2 DEF IInv, WaitingTasks
  <1>5. (AllOver => AllOver') /\ (GroupCancelled => GroupCancelled')
    BY StaysCancelled DEF SubmitFrame
  <1>6. \A g \in Groups : g > group => t \notin InGroup(g)
    <2>1. t \in Tasks /\ group \in Groups /\ t \in InGroup(group) BY NextInLoop DEF t
    <2> QED BY <2>1, GroupFacts
  <1>7. maxWorkers' = maxWorkers /\ Ids' = Ids BY DEF SubmitFrame, maxWorkers, Ids
  <1> QED BY <1>2, <1>3, <1>4, <1>5, <1>6, <1>7 DEF t

LEMMA SkipsKeeps ==
  ASSUME IInv, toSubmit # <<>>, SubmitFrame, Skips(Head(toSubmit))
  PROVE  IInv'
  <1> DEFINE t == Head(toSubmit)
  <1>1. /\ t \in Tasks /\ group \in Groups /\ t \in InGroup(group)
        /\ pc[t] = "none" /\ resolver[t] = "pending" /\ rstate[t] = "idle"
    BY NextInLoop
  <1>2. /\ ctxCancelling /\ resolver' = [resolver EXCEPT ![t] = "skipped"] /\ pc' = [pc EXCEPT ![t] = "done"]
        /\ UNCHANGED <<queue, activeTasks, sharedRunners, freeIds, rstate, runnerOf, mapOf, poolId>>
        /\ UNCHANGED <<group, ctxCancelling, cancelPromise, cancels, exitPromises, isCancelling,
                       link, stopWanted, graceful>>
    BY DEF Skips, SubmitFrame
  <1>3. resolver \in [Tasks -> Outcomes] /\ pc \in [Tasks -> {"none", "queued", "starting", "startSettled", "running", "done"}]
    BY DEF IInv, TypeOK
  <1>4. \A u \in Tasks :
          /\ (Settled(u) => Settled(u)')
          /\ (u # t => resolver'[u] = resolver[u])
          /\ (u # t => pc'[u] = pc[u])
    BY <1>1, <1>2, <1>3 DEF Settled
  <1>5. /\ resolver'[t] = "skipped" /\ pc'[t] = "done" BY <1>1, <1>2, <1>3
  <1>6. \A u \in Tasks : Busy(u)' <=> Busy(u) BY <1>1, <1>4, <1>5 DEF Busy
  <1>7. /\ toSubmit' \in Seq(Tasks)
        /\ \A i \in DOMAIN toSubmit' :
             /\ toSubmit'[i] \in InGroup(group) /\ pc[toSubmit'[i]] = "none"
             /\ toSubmit'[i] # t /\ toSubmit'[i] \in Tasks
        /\ \A i, j \in DOMAIN toSubmit' : toSubmit'[i] = toSubmit'[j] => i = j
        /\ AllOver => AllOver'
        /\ GroupCancelled => GroupCancelled'
        /\ \A g \in Groups : g > group => t \notin InGroup(g)
        /\ maxWorkers' = maxWorkers /\ Ids' = Ids
    BY <1>4, LoopGoesOn
  <1> HIDE DEF t
  <1>8. TypeOK'
    BY <1>1, <1>2, <1>3, <1>7 DEF IInv, TypeOK, Outcomes
  <1>9. queue = <<>> BY <1>2 DEF IInv, Cancelling
  <1>10. \A c \in Cancels : Live(c)' <=> Live(c)
    BY <1>2 DEF Live, Waits, Hangs
  <1>11. \A g \in Groups : InGroup(g) \subseteq Tasks BY GroupFacts
  <1>12. WaitingTasks'
    <2>1. \A i \in DOMAIN toSubmit' : pc'[toSubmit'[i]] = "none" BY <1>4, <1>7
    <2>2. group # 0 BY <1>1, GroupFacts
    <2>3. \A g \in Groups : g > group => \A u \in InGroup(g) : pc'[u] = "none"
      BY <1>4, <1>7, <1>11 DEF IInv, WaitingTasks
    <2>4. \A u \in Tasks : pc'[u] \in {"none", "queued"} => resolver'[u] = "pending" /\ rstate[u] = "idle"
      BY <1>1, <1>4, <1>5 DEF IInv, WaitingTasks
    <2> QED BY <1>2, <1>7, <1>9, <2>1, <2>2, <2>3, <2>4 DEF WaitingTasks, InGroup
  <1>13. EndedTasks' BY <1>2, <1>4, <1>5, <1>11 DEF IInv, EndedTasks, InGroup, Settled
  <1>14. BusyTasks'
    <2>1. \A u \in Tasks : Busy(u) => u # t BY <1>1 DEF Busy
    <2> QED BY <1>2, <1>4, <1>6, <2>1 DEF IInv, BusyTasks, InGroup
  <1>15. activeTasks \subseteq Tasks BY DEF IInv, TypeOK
  <1>16. ActiveTasks' BY <1>2, <1>4, <1>6, <1>7, <1>15 DEF IInv, ActiveTasks
  <1>17. Runners' BY <1>2, <1>6, <1>7 DEF IInv, Runners
  <1>18. Slots' BY <1>2, <1>6, <1>7 DEF IInv, Slots
  <1>19. Cancelling' BY <1>2, <1>7, <1>10 DEF IInv, Cancelling
  <1>20. Awaited'
    <2>1. \A c \in Cancels : cancels[c].awaits \subseteq Tasks BY DEF IInv, TypeOK
    <2>2. \A u \in Tasks : pc[u] \notin {"none", "queued"} => pc'[u] \notin {"none", "queued"}
      BY <1>1, <1>4
    <2> QED BY <1>2, <1>4, <1>7, <1>10, <1>15, <2>1, <2>2 DEF IInv, Awaited
  <1>21. ClosedPoolIsStill' BY <1>2 DEF IInv, ClosedPoolIsStill
  <1> QED BY <1>8, <1>12, <1>13, <1>14, <1>16, <1>17, <1>18, <1>19, <1>20, <1>21 DEF IInv

LEMMA EnqueuesKeeps ==
  ASSUME IInv, toSubmit # <<>>, SubmitFrame, Enqueues(Head(toSubmit))
  PROVE  IInv'
  <1> DEFINE t == Head(toSubmit)
  <1>1. /\ t \in Tasks /\ group \in Groups /\ t \in InGroup(group)
        /\ pc[t] = "none" /\ resolver[t] = "pending" /\ rstate[t] = "idle"
    BY NextInLoop
  <1>2. /\ ~GroupCancelled /\ Cardinality(activeTasks) >= maxWorkers
        /\ queue' = Append(queue, t) /\ pc' = [pc EXCEPT ![t] = "queued"]
        /\ UNCHANGED <<activeTasks, sharedRunners, freeIds, rstate, resolver, runnerOf, mapOf, poolId>>
        /\ UNCHANGED <<group, ctxCancelling, cancelPromise, cancels, exitPromises, isCancelling,
                       link, stopWanted, graceful>>
    BY DEF Enqueues, SubmitFrame
  <1>3. pc \in [Tasks -> {"none", "queued", "starting", "startSettled", "running", "done"}] /\ queue \in Seq(Tasks)
    BY DEF IInv, TypeOK
  <1>4. \A u \in Tasks : (Settled(u) => Settled(u)') /\ (u # t => pc'[u] = pc[u])
    BY <1>1, <1>2, <1>3 DEF Settled
  <1>5. pc'[t] = "queued" BY <1>1, <1>2, <1>3
  <1>6. \A u \in Tasks : Busy(u)' <=> Busy(u) BY <1>1, <1>4, <1>5 DEF Busy
  <1>7. /\ toSubmit' \in Seq(Tasks)
        /\ \A i \in DOMAIN toSubmit' :
             /\ toSubmit'[i] \in InGroup(group) /\ pc[toSubmit'[i]] = "none"
             /\ toSubmit'[i] # t /\ toSubmit'[i] \in Tasks
        /\ \A i, j \in DOMAIN toSubmit' : toSubmit'[i] = toSubmit'[j] => i = j
        /\ AllOver => AllOver'
        /\ GroupCancelled => GroupCancelled'
        /\ \A g \in Groups : g > group => t \notin InGroup(g)
        /\ maxWorkers' = maxWorkers /\ Ids' = Ids
    BY <1>4, LoopGoesOn
  <1>8. /\ queue' \in Seq(Tasks) /\ queue' # <<>>
        /\ \A i \in DOMAIN queue' :
             \/ i \in DOMAIN queue /\ queue'[i] = queue[i]
             \/ i = Len(queue) + 1 /\ i \notin DOMAIN queue /\ queue'[i] = t
    BY <1>1, <1>2, <1>3, Appended
  <1> HIDE DEF t
  <1>9. TypeOK'
    BY <1>1, <1>2, <1>3, <1>7, <1>8 DEF IInv, TypeOK
  <1>10. \A c \in Cancels : Live(c)' <=> Live(c)
    BY <1>2 DEF Live, Waits, Hangs
  <1>11. \A g \in Groups : InGroup(g) \subseteq Tasks BY GroupFacts
  <1>12. /\ ~isCancelling /\ ~ctxCancelling
         /\ \A c \in Cancels :
              ~Live(c) /\ cancels[c].at \notin {"shared", "exits"} /\ cancels[c].by # "close"
    BY <1>2, AcceptingMeans
  <1>13. WaitingTasks'
    <2>1. \A i \in DOMAIN queue : queue[i] \in Tasks /\ pc[queue[i]] = "queued" /\ queue[i] \in InGroup(group)
      BY <1>3, ElementOf DEF IInv, WaitingTasks
    <2>2. \A i \in DOMAIN queue' : queue'[i] \in InGroup(group) /\ pc'[queue'[i]] = "queued"
      BY <1>1, <1>4, <1>5, <1>8, <2>1
    <2>3. \A i, j \in DOMAIN queue' : queue'[i] = queue'[j] => i = j
      BY <1>1, <1>8, <2>1 DEF IInv, WaitingTasks
    <2>4. \A i \in DOMAIN toSubmit' : pc'[toSubmit'[i]] = "none" BY <1>4, <1>7
    <2>5. group # 0 BY <1>1, GroupFacts
    <2>6. \A g \in Groups : g > group => \A u \in InGroup(g) : pc'[u] = "none"
      BY <1>4, <1>7, <1>11 DEF IInv, WaitingTasks
    <2>7. \A u \in Tasks : pc'[u] \in {"none", "queued"} => resolver[u] = "pending" /\ rstate[u] = "idle"
      BY <1>1, <1>4 DEF IInv, WaitingTasks
    <2> QED BY <1>2, <1>7, <2>2, <2>3, <2>4, <2>5, <2>6, <2>7 DEF WaitingTasks, InGroup
  <1>14. EndedTasks' BY <1>2, <1>4, <1>5, <1>11 DEF IInv, EndedTasks, InGroup, Settled
  <1>15. BusyTasks'
    <2>1. \A u \in Tasks : Busy(u) => u # t BY <1>1 DEF Busy
    <2> QED BY <1>2, <1>4, <1>6, <2>1 DEF IInv, BusyTasks, InGroup
  <1>16. activeTasks \subseteq Tasks BY DEF IInv, TypeOK
  <1>17. ActiveTasks' BY <1>2, <1>4, <1>6, <1>7, <1>16 DEF IInv, ActiveTasks
  <1>18. Runners' BY <1>2, <1>6, <1>7 DEF IInv, Runners
  <1>19. Slots' BY <1>2, <1>6, <1>7 DEF IInv, Slots
  <1>20. Cancelling' BY <1>2, <1>10, <1>12 DEF Cancelling
  <1>21. Awaited'
    <2>1. \A c \in Cancels : cancels[c].awaits \subseteq Tasks BY DEF IInv, TypeOK
    <2>2. \A u \in Tasks : pc[u] \notin {"none", "queued"} => pc'[u] \notin {"none", "queued"}
      BY <1>1, <1>4
    <2> QED BY <1>2, <1>4, <1>10, <1>16, <2>1, <2>2 DEF IInv, Awaited
  <1>22. ClosedPoolIsStill' BY <1>2 DEF IInv, ClosedPoolIsStill
  <1> QED BY <1>9, <1>13, <1>14, <1>15, <1>17, <1>18, <1>19, <1>20, <1>21, <1>22 DEF IInv

\* A task that begins with a runner of its own takes a slot and an id.
LEMMA BeginsKeeps ==
  ASSUME IInv, toSubmit # <<>>, SubmitFrame, NEW id \in freeIds, Begins(Head(toSubmit), id)
  PROVE  IInv'
  <1> DEFINE t == Head(toSubmit)
  <1>1. /\ t \in Tasks /\ group \in Groups /\ t \in InGroup(group)
        /\ pc[t] = "none" /\ resolver[t] = "pending" /\ rstate[t] = "idle"
    BY NextInLoop
  <1>2. /\ ~GroupCancelled /\ Cardinality(activeTasks) < maxWorkers
        /\ queue = <<>> /\ queue' = <<>> /\ freeIds' = freeIds \ {id}
        /\ activeTasks' = activeTasks \cup {t}
        /\ runnerOf' = [runnerOf EXCEPT ![t] = t] /\ poolId' = [poolId EXCEPT ![t] = id]
        /\ mapOf' = [mapOf EXCEPT ![t] = group] /\ rstate' = [rstate EXCEPT ![t] = "starting"]
        /\ pc' = [pc EXCEPT ![t] = "starting"]
        /\ UNCHANGED <<sharedRunners, resolver>>
        /\ UNCHANGED <<group, ctxCancelling, cancelPromise, cancels, exitPromises, isCancelling,
                       link, stopWanted, graceful>>
    BY DEF Begins, SubmitFrame
  <1>3. /\ pc \in [Tasks -> {"none", "queued", "starting", "startSettled", "running", "done"}]
        /\ runnerOf \in [Tasks -> Tasks \cup {NoTask}] /\ mapOf \in [Tasks -> 0..Len(Plan)]
        /\ poolId \in [Tasks -> Nat] /\ rstate \in [Tasks -> RunnerStates]
        /\ activeTasks \subseteq Tasks /\ exitPromises \subseteq Tasks /\ stopWanted \subseteq Tasks
        /\ \A c \in Cancels : cancels[c].awaits \subseteq Tasks
    BY DEF IInv, TypeOK
  <1>4. /\ \A u \in Tasks : u # t => pc'[u] = pc[u] /\ runnerOf'[u] = runnerOf[u] /\ mapOf'[u] = mapOf[u]
        /\ \A r \in Tasks : r # t => rstate'[r] = rstate[r] /\ poolId'[r] = poolId[r]
        /\ pc'[t] = "starting" /\ runnerOf'[t] = t /\ mapOf'[t] = group
        /\ rstate'[t] = "starting" /\ poolId'[t] = id
    BY <1>1, <1>2, <1>3
  <1>5. \A u \in Tasks : Settled(u)' <=> Settled(u) BY <1>2 DEF Settled
  <1>6. /\ toSubmit' \in Seq(Tasks)
        /\ \A i \in DOMAIN toSubmit' :
             /\ toSubmit'[i] \in InGroup(group) /\ pc[toSubmit'[i]] = "none"
             /\ toSubmit'[i] # t /\ toSubmit'[i] \in Tasks
        /\ \A i, j \in DOMAIN toSubmit' : toSubmit'[i] = toSubmit'[j] => i = j
        /\ AllOver => AllOver'
        /\ GroupCancelled => GroupCancelled'
        /\ \A g \in Groups : g > group => t \notin InGroup(g)
        /\ maxWorkers' = maxWorkers /\ Ids' = Ids
    BY <1>5, LoopGoesOn
  <1>7. id \in Ids /\ id \in Nat /\ maxWorkers \in Nat
    <2>1. freeIds \subseteq Ids BY DEF IInv, TypeOK
    <2> QED BY <1>1, <2>1, IdsOfGroup DEF IInv
  <1> HIDE DEF t
  <1>8. TypeOK'
    <2>1. activeTasks' \subseteq Tasks /\ freeIds' \subseteq Ids BY <1>1, <1>2, <1>3 DEF IInv, TypeOK
    <2>2. /\ runnerOf' \in [Tasks -> Tasks \cup {NoTask}] /\ poolId' \in [Tasks -> Nat]
          /\ pc' \in [Tasks -> {"none", "queued", "starting", "startSettled", "running", "done"}]
          /\ rstate' \in [Tasks -> RunnerStates]
      BY <1>1, <1>2, <1>3, <1>7 DEF RunnerStates
    <2>3. mapOf' \in [Tasks -> 0..Len(Plan)] BY <1>2, <1>3 DEF IInv, TypeOK
    <2> QED BY <1>2, <1>6, <2>1, <2>2, <2>3 DEF IInv, TypeOK
  <1>9. \A u \in Tasks : Busy(u) => u # t /\ runnerOf[u] \in Tasks /\ runnerOf[u] # t
    BY <1>1 DEF IInv, BusyTasks, Busy
  <1>10. \A u \in Tasks : Busy(u)' <=> Busy(u) \/ u = t BY <1>4 DEF Busy
  <1>11. t \notin exitPromises /\ t \notin stopWanted /\ t \notin activeTasks
    BY <1>1, <1>9 DEF IInv, Runners, ActiveTasks
  <1>12. /\ ~isCancelling /\ ~ctxCancelling
         /\ \A c \in Cancels :
              ~Live(c) /\ cancels[c].at \notin {"shared", "exits"} /\ cancels[c].by # "close"
    BY <1>2, AcceptingMeans
  <1>13. \A c \in Cancels : ~Live(c)'
    <2>1. \A u \in Tasks : pc[u] \notin {"none", "queued"} => runnerOf'[u] = runnerOf[u] BY <1>1, <1>4
    <2>2. \A r \in Tasks : rstate[r] = "crashed" => rstate'[r] = "crashed" BY <1>1, <1>4
    <2>3. cancels' = cancels BY <1>2
    <2> QED BY <1>12, <2>1, <2>2, <2>3, LiveBefore
  <1>14. \A g \in Groups : InGroup(g) \subseteq Tasks BY GroupFacts
  <1>15. WaitingTasks'
    <2>1. \A i \in DOMAIN toSubmit' : pc'[toSubmit'[i]] = "none" BY <1>4, <1>6
    <2>2. group # 0 BY <1>1, GroupFacts
    <2>3. \A g \in Groups : g > group => \A u \in InGroup(g) : pc'[u] = "none"
      BY <1>4, <1>6, <1>14 DEF IInv, WaitingTasks
    <2>4. \A u \in Tasks : pc'[u] \in {"none", "queued"} => resolver'[u] = "pending" /\ rstate'[u] = "idle"
      BY <1>1, <1>2, <1>4 DEF IInv, WaitingTasks
    <2> QED BY <1>2, <1>6, <2>1, <2>2, <2>3, <2>4 DEF WaitingTasks, InGroup
  <1>16. EndedTasks'
    <2>1. t # NoTask BY <1>1, PlanAssumption
    <2> QED BY <1>1, <1>2, <1>4, <1>5, <1>14, <2>1 DEF IInv, EndedTasks, InGroup
  <1>17. BusyTasks'
    <2>1. \A u \in Tasks : Busy(u) =>
            /\ runnerOf[u] \in Tasks /\ mapOf[u] \in 1..group /\ u \in InGroup(mapOf[u])
            /\ \/ runnerOf[u] = u
               \/ u \notin Isolated /\ runnerOf[u] \notin Isolated /\ Key[runnerOf[u]] = Key[u]
            /\ rstate'[runnerOf[u]] # "idle"
            /\ pc[u] = "starting" <=> rstate'[runnerOf[u]] = "starting"
      BY <1>4, <1>9 DEF IInv, BusyTasks
    <2>2. group \in 1..group BY <1>1, GroupFacts
    <2>3. \A u, v \in Tasks : Busy(u)' /\ Busy(v)' /\ runnerOf'[u] = runnerOf'[v] => u = v
      BY <1>4, <1>9, <1>10 DEF IInv, BusyTasks
    <2>4. \A u \in Tasks : Busy(u)' =>
            /\ runnerOf'[u] \in Tasks /\ mapOf'[u] \in 1..group /\ u \in InGroup(mapOf'[u])
            /\ \/ runnerOf'[u] = u
               \/ u \notin Isolated /\ runnerOf'[u] \notin Isolated /\ Key[runnerOf'[u]] = Key[u]
            /\ rstate'[runnerOf'[u]] # "idle"
            /\ pc'[u] = "starting" <=> rstate'[runnerOf'[u]] = "starting"
      BY <1>1, <1>4, <1>9, <1>10, <2>1, <2>2
    <2> QED BY <1>2, <2>3, <2>4 DEF BusyTasks, InGroup
  <1>18. ActiveTasks'
    <2>1. \A u \in activeTasks' : Busy(u)' BY <1>1, <1>2, <1>3, <1>10 DEF IInv, ActiveTasks
    <2>2. \A u \in Tasks : Busy(u)' /\ u \notin activeTasks' =>
            Busy(u) /\ u \notin activeTasks /\ u # t /\ runnerOf[u] \in Tasks /\ runnerOf[u] # t
      BY <1>2, <1>9, <1>10
    <2>3. \A u \in Tasks : Busy(u) /\ u \notin activeTasks =>
            rstate[runnerOf[u]] = "stopped" /\ Settled(u) /\ mapOf[u] # group
      BY <1>2 DEF IInv, ActiveTasks
    <2> QED BY <1>2, <1>4, <1>5, <2>1, <2>2, <2>3 DEF ActiveTasks
  <1>19. Runners'
    <2>1. \A r \in Tasks : rstate'[r] \in {"starting", "started", "failed"} =>
            \E u \in Tasks : Busy(u)' /\ runnerOf'[u] = r
      <3> SUFFICES ASSUME NEW r \in Tasks, rstate'[r] \in {"starting", "started", "failed"}, r # t
                   PROVE  \E u \in Tasks : Busy(u)' /\ runnerOf'[u] = r
        BY <1>1, <1>4, <1>10
      <3>1. PICK u \in Tasks : Busy(u) /\ runnerOf[u] = r BY <1>4 DEF IInv, Runners
      <3> QED BY <1>4, <1>9, <1>10, <3>1
    <2>2. \A r \in Tasks : rstate'[r] = "stopping" =>
            r \in exitPromises \/ \E u \in Tasks : Busy(u)' /\ runnerOf'[u] = r
      <3> SUFFICES ASSUME NEW r \in Tasks, rstate'[r] = "stopping", r \notin exitPromises
                   PROVE  \E u \in Tasks : Busy(u)' /\ runnerOf'[u] = r
        OBVIOUS
      <3>1. r # t /\ rstate[r] = "stopping" BY <1>4
      <3>2. PICK u \in Tasks : Busy(u) /\ runnerOf[u] = r BY <3>1 DEF IInv, Runners
      <3> QED BY <1>4, <1>9, <1>10, <3>2
    <2>3. \A r \in exitPromises :
            rstate'[r] \in {"stopping", "stopped"} /\ \A u \in Tasks : Busy(u)' => runnerOf'[u] # r
      <3>1. \A r \in exitPromises :
              /\ r \in Tasks /\ r # t /\ rstate[r] \in {"stopping", "stopped"}
              /\ \A u \in Tasks : Busy(u) => runnerOf[u] # r
        BY <1>3, <1>11 DEF IInv, Runners
      <3> QED BY <1>4, <1>10, <3>1
    <2>4. \A r \in stopWanted : rstate'[r] # "idle" BY <1>3, <1>4, <1>11 DEF IInv, Runners
    <2>5. \A u \in Tasks : Busy(u)' /\ mapOf'[u] = group =>
            rstate'[runnerOf'[u]] # "stopping" /\ runnerOf'[u] \notin stopWanted
      BY <1>2, <1>4, <1>9, <1>10, <1>11 DEF IInv, Runners
    <2>6. sharedRunners = {} BY DEF IInv, Runners
    <2> QED BY <1>2, <2>1, <2>2, <2>3, <2>4, <2>5, <2>6 DEF Runners
  <1>20. Slots'
    <2>1. Cardinality(activeTasks') <= maxWorkers
      <3>1. IsFiniteSet(activeTasks) /\ Cardinality(activeTasks) \in Nat
        BY <1>3, PlanAssumption, FS_Subset, FS_CardinalityType
      <3>2. Cardinality(activeTasks') = Cardinality(activeTasks) + 1
        BY <1>2, <1>11, <3>1, FS_AddElement
      <3> QED BY <1>2, <1>7, <3>1, <3>2
    <2>2. \A u \in activeTasks :
            /\ u \in Tasks /\ u # t
            /\ mapOf'[u] = mapOf[u] /\ poolId'[runnerOf'[u]] = poolId[runnerOf[u]]
      BY <1>3, <1>4, <1>9 DEF IInv, ActiveTasks
    <2>3. mapOf'[t] = group /\ poolId'[runnerOf'[t]] = id BY <1>1, <1>4
    <2>4. \A u \in activeTasks : mapOf[u] = group =>
            poolId[runnerOf[u]] \in Ids \ freeIds /\ poolId[runnerOf[u]] # id
      BY DEF IInv, Slots
    <2>5. \A u \in activeTasks' : mapOf'[u] = group => poolId'[runnerOf'[u]] \in Ids \ freeIds'
      BY <1>2, <1>7, <2>2, <2>3, <2>4
    <2>6. \A u, v \in activeTasks' : mapOf'[u] = group /\ mapOf'[v] = group /\ u # v =>
            poolId'[runnerOf'[u]] # poolId'[runnerOf'[v]]
      BY <1>2, <2>2, <2>3, <2>4 DEF IInv, Slots
    <2>7. \A i \in Ids \ freeIds' : \E u \in activeTasks' : mapOf'[u] = group /\ poolId'[runnerOf'[u]] = i
      BY <1>2, <2>2, <2>3 DEF IInv, Slots
    <2>8. \A u \in Tasks : mapOf'[u] \in 0..group BY <1>1, <1>4, GroupFacts DEF IInv, Slots
    <2>9. \A u \in Tasks : Busy(u)' /\ mapOf'[u] = group => poolId'[runnerOf'[u]] \in Ids
      <3>1. \A u \in Tasks : Busy(u) /\ mapOf[u] = group => poolId[runnerOf[u]] \in Ids
        BY DEF IInv, Slots
      <3> QED BY <1>4, <1>7, <1>9, <1>10, <2>3, <3>1
    <2> QED BY <1>2, <1>6, <2>1, <2>5, <2>6, <2>7, <2>8, <2>9 DEF Slots
  <1>21. Cancelling' BY <1>2, <1>12, <1>13 DEF Cancelling
  <1>22. Awaited'
    <2>1. ASSUME NEW c \in Cancels, cancels[c].at = "tasks", NEW u \in cancels[c].awaits
          PROVE  /\ runnerOf'[u] \in Tasks /\ pc'[u] \notin {"none", "queued"}
                 /\ \/ u \in activeTasks' \/ runnerOf'[u] \in exitPromises
                    \/ rstate'[runnerOf'[u]] \in {"stopped", "crashed"}
                 /\ mapOf'[u] # group
      <3>1. /\ u \in Tasks /\ mapOf[u] # group /\ runnerOf[u] \in Tasks /\ pc[u] \notin {"none", "queued"}
            /\ \/ u \in activeTasks \/ runnerOf[u] \in exitPromises
               \/ rstate[runnerOf[u]] \in {"stopped", "crashed"}
        BY <1>2, <1>3, <2>1 DEF IInv, Awaited
      <3>2. u # t BY <1>1, <3>1
      <3> QED BY <1>1, <1>2, <1>4, <3>1, <3>2
    <2> QED BY <1>2, <1>12, <1>13, <2>1 DEF Awaited
  <1>23. ClosedPoolIsStill' BY <1>2, <1>12 DEF ClosedPoolIsStill
  <1> QED BY <1>8, <1>15, <1>16, <1>17, <1>18, <1>19, <1>20, <1>21, <1>22, <1>23 DEF IInv

LEMMA SubmitKeeps ==
  ASSUME IInv, Submit
  PROVE  IInv'
  BY SubmitCases, SkipsKeeps, EnqueuesKeeps, BeginsKeeps

-----------------------------------------------------------------------------
(* Steps at the end of a task.                                             *)

\* A task that comes to its end: its runner is its own, and so is the id it frees.
LEMMA TaskEnds ==
  ASSUME IInv, NEW t \in Tasks, pc[t] = "running", Settled(t)
  PROVE  LET r == runnerOf[t] IN
         /\ Busy(t) /\ r \in Tasks /\ group \in Groups
         /\ rstate[r] \in {"started", "failed", "stopping", "stopped", "crashed"}
         /\ r \notin exitPromises
         /\ \A u \in Tasks : Busy(u) => runnerOf[u] \in Tasks /\ (u # t => runnerOf[u] # r)
         /\ t \notin activeTasks => rstate[r] = "stopped" /\ (mapOf[t] = group => activeTasks = {})
         /\ FreedIds(t) \subseteq Ids
         /\ \A u \in activeTasks : u # t /\ mapOf[u] = group => poolId[runnerOf[u]] \in Ids \ FreedIds(t)
         /\ maxWorkers \in Nat /\ Ids = 1..maxWorkers
         /\ Cardinality(activeTasks \ {t}) \in Nat
         /\ t \in activeTasks => Cardinality(activeTasks \ {t}) = Cardinality(activeTasks) - 1
         /\ t \notin activeTasks => activeTasks \ {t} = activeTasks
         /\ IsFiniteSet(activeTasks) /\ Cardinality(activeTasks) \in Nat
         /\ activeTasks \subseteq Tasks
  <1> DEFINE r == runnerOf[t]
  <1>1. Busy(t) BY DEF Busy
  <1>2. /\ r \in Tasks /\ rstate[r] \in {"started", "failed", "stopping", "stopped", "crashed"}
    BY <1>1, Continuing DEF RunnerStates
  <1>3. group \in Groups
    <2>1. mapOf[t] \in 1..group BY <1>1 DEF IInv, BusyTasks
    <2> QED BY <2>1, GroupFacts DEF IInv, TypeOK, Groups
  <1>4. r \notin exitPromises BY <1>1 DEF IInv, Runners
  <1>5. \A u \in Tasks : Busy(u) => runnerOf[u] \in Tasks /\ (u # t => runnerOf[u] # r)
    BY <1>1 DEF IInv, BusyTasks
  <1>6. t \notin activeTasks => rstate[r] = "stopped" /\ (mapOf[t] = group => activeTasks = {})
    BY <1>1 DEF IInv, ActiveTasks
  <1>7. freeIds \subseteq Ids /\ activeTasks \subseteq Tasks BY DEF IInv, TypeOK
  <1>8. FreedIds(t) \subseteq Ids BY <1>1, <1>7 DEF FreedIds, IInv, Slots
  <1>9. \A u \in activeTasks : u # t /\ mapOf[u] = group => poolId[runnerOf[u]] \in Ids \ FreedIds(t)
    BY <1>6, <1>7 DEF FreedIds, IInv, Slots
  <1>10. maxWorkers \in Nat /\ Ids = 1..maxWorkers BY <1>3, IdsOfGroup DEF IInv
  <1>11. /\ Cardinality(activeTasks \ {t}) \in Nat /\ IsFiniteSet(activeTasks) /\ Cardinality(activeTasks) \in Nat
         /\ t \in activeTasks => Cardinality(activeTasks \ {t}) = Cardinality(activeTasks) - 1
    <2>1. activeTasks \in SUBSET Tasks /\ activeTasks \ {t} \in SUBSET Tasks BY <1>7
    <2>2. IsFiniteSet(activeTasks) BY <2>1, PlanAssumption, FS_Subset
    <2> QED BY <2>1, <2>2, PlanAssumption, FS_Subset, FS_CardinalityType, FS_RemoveElement
  <1>12. t \notin activeTasks => activeTasks \ {t} = activeTasks OBVIOUS
  <1> QED BY <1>1, <1>2, <1>3, <1>4, <1>5, <1>6, <1>7, <1>8, <1>9, <1>10, <1>11, <1>12

\* A task leaves, and nothing else begins.
LEMMA LeavesKeeps ==
  ASSUME IInv, NEW t \in Tasks, pc[t] = "running", Settled(t), ContinueFrame, Leaves(t)
  PROVE  IInv'
  <1> DEFINE r == runnerOf[t]
  <1>1. /\ Busy(t) /\ r \in Tasks /\ group \in Groups
        /\ rstate[r] \in {"started", "failed", "stopping", "stopped", "crashed"}
        /\ r \notin exitPromises
        /\ \A u \in Tasks : Busy(u) => runnerOf[u] \in Tasks /\ (u # t => runnerOf[u] # r)
        /\ t \notin activeTasks => rstate[r] = "stopped" /\ (mapOf[t] = group => activeTasks = {})
        /\ FreedIds(t) \subseteq Ids
        /\ \A u \in activeTasks : u # t /\ mapOf[u] = group => poolId[runnerOf[u]] \in Ids \ FreedIds(t)
        /\ activeTasks \subseteq Tasks
    BY TaskEnds
  <1>2. /\ queue = <<>> \/ Cardinality(activeTasks \ {t}) >= maxWorkers
        /\ activeTasks' = activeTasks \ {t} /\ freeIds' = FreedIds(t)
        /\ rstate' = [rstate EXCEPT ![r] = StopEffect(@)] /\ pc' = [pc EXCEPT ![t] = "done"]
        /\ UNCHANGED <<queue, sharedRunners, resolver, runnerOf, mapOf, poolId>>
        /\ UNCHANGED <<group, toSubmit, ctxCancelling, cancelPromise, cancels, isCancelling, link, stopWanted>>
        /\ graceful' \subseteq Tasks
    BY DEF Leaves, ContinueFrame, ctxVars
  <1>3. /\ pc \in [Tasks -> {"none", "queued", "starting", "startSettled", "running", "done"}]
        /\ rstate \in [Tasks -> RunnerStates]
        /\ exitPromises \subseteq Tasks /\ stopWanted \subseteq Tasks
        /\ \A c \in Cancels : cancels[c].awaits \subseteq Tasks
        /\ sharedRunners = {}
    BY DEF IInv, TypeOK, Runners
  <1>4. /\ \A u \in Tasks : u # t => pc'[u] = pc[u]
        /\ \A q \in Tasks : q # r => rstate'[q] = rstate[q]
        /\ pc'[t] = "done"
        /\ rstate'[r] \in {"stopping", "stopped", "crashed"}
        /\ rstate[r] \in {"stopped", "crashed"} => rstate'[r] = rstate[r]
        /\ rstate[r] \notin {"stopped", "crashed"} => rstate'[r] = "stopping"
    BY <1>1, <1>2, <1>3 DEF StopEffect
  <1>5. exitPromises' = IF rstate[r] \in {"stopped", "crashed"} THEN exitPromises ELSE exitPromises \cup {r}
    BY DEF Leaves, StopsRunner, IsTerminated
  <1>6. (GroupCancelled' <=> GroupCancelled) /\ (AllOver' <=> AllOver) /\ maxWorkers' = maxWorkers /\ Ids' = Ids
    BY <1>2 DEF GroupCancelled, AllOver, GroupSettled, Settled, InGroup, maxWorkers, Ids
  <1>7. \A u \in Tasks : Busy(u)' <=> Busy(u) /\ u # t BY <1>4 DEF Busy
  <1>8. \A u \in Tasks : Busy(u)' => rstate'[runnerOf[u]] = rstate[runnerOf[u]]
    BY <1>1, <1>4, <1>7
  <1> HIDE DEF r
  <1>9. TypeOK'
    <2>1. rstate' \in [Tasks -> RunnerStates] BY <1>1, <1>2, <1>3 DEF StopEffect, RunnerStates
    <2>2. pc' \in [Tasks -> {"none", "queued", "starting", "startSettled", "running", "done"}]
      BY <1>2, <1>3
    <2>3. /\ exitPromises' \subseteq Tasks /\ activeTasks' \subseteq Tasks /\ freeIds' \subseteq Ids'
      BY <1>1, <1>2, <1>3, <1>5, <1>6
    <2> QED BY <1>2, <2>1, <2>2, <2>3 DEF IInv, TypeOK
  <1>10. WaitingTasks'
    <2>1. \A u \in Tasks : pc'[u] \in {"none", "queued"} => pc[u] \in {"none", "queued"} BY <1>4
    <2>2. \A u \in Tasks : pc[u] \in {"none", "queued"} => pc'[u] = pc[u] BY <1>4
    <2>3. \A q \in Tasks : rstate[q] = "idle" => rstate'[q] = "idle" BY <1>1, <1>4
    <2>4. /\ \A i \in DOMAIN toSubmit : toSubmit[i] \in Tasks
          /\ \A i \in DOMAIN queue : queue[i] \in Tasks
      BY DEF IInv, TypeOK
    <2>5. \A g \in Groups : InGroup(g) \subseteq Tasks BY GroupFacts
    <2> QED BY <1>2, <2>1, <2>2, <2>3, <2>4, <2>5 DEF IInv, WaitingTasks, InGroup
  <1>11. EndedTasks' BY <1>2, <1>4 DEF IInv, EndedTasks, InGroup, Settled
  <1>12. BusyTasks' BY <1>2, <1>4, <1>7, <1>8 DEF IInv, BusyTasks, InGroup
  <1>13. ActiveTasks'
    <2>1. \A u \in activeTasks' : Busy(u)' BY <1>1, <1>2, <1>7 DEF IInv, ActiveTasks
    <2>2. \A u \in Tasks : Busy(u)' /\ u \notin activeTasks' => Busy(u) /\ u \notin activeTasks
      BY <1>2, <1>7
    <2> QED BY <1>2, <1>6, <1>8, <2>1, <2>2 DEF IInv, ActiveTasks, Settled
  <1>14. Runners'
    <2>1. \A q \in Tasks : rstate'[q] \in {"starting", "started", "failed"} =>
            \E u \in Tasks : Busy(u)' /\ runnerOf'[u] = q
      <3> SUFFICES ASSUME NEW q \in Tasks, rstate'[q] \in {"starting", "started", "failed"}
                   PROVE  \E u \in Tasks : Busy(u)' /\ runnerOf'[u] = q
        OBVIOUS
      <3>1. q # r /\ rstate[q] \in {"starting", "started", "failed"} BY <1>4
      <3>2. PICK u \in Tasks : Busy(u) /\ runnerOf[u] = q BY <3>1 DEF IInv, Runners
      <3> QED BY <1>2, <1>7, <3>1, <3>2 DEF r
    <2>2. \A q \in Tasks : rstate'[q] = "stopping" =>
            q \in exitPromises' \/ \E u \in Tasks : Busy(u)' /\ runnerOf'[u] = q
      <3> SUFFICES ASSUME NEW q \in Tasks, rstate'[q] = "stopping", q \notin exitPromises'
                   PROVE  \E u \in Tasks : Busy(u)' /\ runnerOf'[u] = q
        OBVIOUS
      <3>1. q # r BY <1>4, <1>5
      <3>2. rstate[q] = "stopping" /\ q \notin exitPromises BY <1>4, <1>5, <3>1
      <3>3. PICK u \in Tasks : Busy(u) /\ runnerOf[u] = q BY <3>2 DEF IInv, Runners
      <3> QED BY <1>2, <1>7, <3>1, <3>3 DEF r
    <2>3. \A q \in exitPromises' :
            rstate'[q] \in {"stopping", "stopped"} /\ \A u \in Tasks : Busy(u)' => runnerOf'[u] # q
      <3> SUFFICES ASSUME NEW q \in exitPromises'
                   PROVE  rstate'[q] \in {"stopping", "stopped"} /\ \A u \in Tasks : Busy(u)' => runnerOf'[u] # q
        OBVIOUS
      <3>1. CASE q = r
        <4>1. rstate'[r] = "stopping" BY <1>1, <1>4, <1>5, <3>1
        <4> QED BY <1>1, <1>2, <1>7, <3>1, <4>1 DEF r
      <3>2. CASE q # r
        <4>1. q \in exitPromises /\ q \in Tasks BY <1>3, <1>5, <3>2
        <4> QED BY <1>2, <1>4, <1>7, <3>2, <4>1 DEF IInv, Runners
      <3> QED BY <3>1, <3>2
    <2>4. \A q \in stopWanted' : rstate'[q] # "idle" BY <1>2, <1>3, <1>4 DEF IInv, Runners
    <2>5. ~GroupCancelled' => \A u \in Tasks : Busy(u)' /\ mapOf'[u] = group' =>
            rstate'[runnerOf'[u]] # "stopping" /\ runnerOf'[u] \notin stopWanted'
      BY <1>2, <1>6, <1>7, <1>8 DEF IInv, Runners
    <2> QED BY <1>2, <1>3, <2>1, <2>2, <2>3, <2>4, <2>5 DEF Runners
  <1>15. Slots'
    <2>1. \A u \in activeTasks' : mapOf[u] = group => Cardinality(activeTasks') <= maxWorkers
      <3>1. Cardinality(activeTasks \ {t}) <= Cardinality(activeTasks)
        <4>1. IsFiniteSet(activeTasks) BY TaskEnds
        <4> QED BY <4>1, FS_Subset
      <3>2. /\ Cardinality(activeTasks \ {t}) \in Nat /\ Cardinality(activeTasks) \in Nat
            /\ maxWorkers \in Nat
        BY TaskEnds
      <3> QED BY <1>2, <3>1, <3>2 DEF IInv, Slots
    <2>2. \A i \in Ids \ freeIds' : GroupCancelled \/
            \E u \in activeTasks' : mapOf[u] = group /\ poolId[runnerOf[u]] = i
      <3> SUFFICES ASSUME NEW i \in Ids, i \notin FreedIds(t), ~GroupCancelled
                   PROVE  \E u \in activeTasks \ {t} : mapOf[u] = group /\ poolId[runnerOf[u]] = i
        BY <1>2
      <3>1. i \in Ids \ freeIds BY DEF FreedIds
      <3>2. PICK u \in activeTasks : mapOf[u] = group /\ poolId[runnerOf[u]] = i
        BY <3>1 DEF IInv, Slots
      <3>3. u # t BY <3>2 DEF FreedIds
      <3> QED BY <3>2, <3>3
    <2>3. \A u \in activeTasks' : mapOf[u] = group => poolId[runnerOf[u]] \in Ids \ freeIds'
      BY <1>1, <1>2
    <2> QED BY <1>2, <1>6, <1>7, <2>1, <2>2, <2>3, ZenonT(60) DEF IInv, Slots
  <1>16. \A c \in Cancels : Live(c)' => Live(c)
    <2>1. \A q \in Tasks : rstate[q] = "crashed" => rstate'[q] = "crashed" BY <1>4
    <2> QED BY <1>2, <2>1, LiveBefore
  <1>17. Cancelling' BY <1>2, <1>6, <1>16 DEF IInv, Cancelling
  <1>18. Awaited'
    <2>1. \A q \in Tasks : rstate[q] \in {"stopped", "crashed"} => rstate'[q] = rstate[q] BY <1>4
    <2>2. activeTasks = {} => exitPromises' = exitPromises BY <1>1, <1>5
    <2>3. ASSUME NEW c \in Cancels, cancels[c].at = "tasks", NEW u \in cancels[c].awaits
          PROVE  /\ runnerOf[u] \in Tasks /\ pc'[u] \notin {"none", "queued"}
                 /\ \/ u \in activeTasks' \/ runnerOf[u] \in exitPromises'
                    \/ rstate'[runnerOf[u]] \in {"stopped", "crashed"}
                 /\ mapOf[u] = group => GroupCancelled
      <3>1. /\ runnerOf[u] \in Tasks /\ u \in Tasks /\ pc[u] \notin {"none", "queued"}
            /\ \/ u \in activeTasks \/ runnerOf[u] \in exitPromises
               \/ rstate[runnerOf[u]] \in {"stopped", "crashed"}
            /\ mapOf[u] = group => GroupCancelled
        BY <1>3, <2>3 DEF IInv, Awaited
      <3>2. u = t => runnerOf[u] \in exitPromises' \/ rstate'[runnerOf[u]] \in {"stopped", "crashed"}
        BY <1>4, <1>5 DEF r
      <3> QED BY <1>2, <1>4, <1>5, <2>1, <3>1, <3>2
    <2>4. \A c \in Cancels : Live(c)' /\ cancels[c].at = "tasks" => \A u \in activeTasks' :
            u \in cancels[c].awaits \/ (rstate'[runnerOf[u]] = "stopped" /\ Settled(u)')
      <3>1. \A u \in activeTasks' : u \in Tasks /\ u \in activeTasks /\ rstate'[runnerOf[u]] = rstate[runnerOf[u]]
        BY <1>1, <1>2, <1>7, <1>8 DEF IInv, ActiveTasks
      <3> QED BY <1>2, <1>16, <3>1 DEF IInv, Awaited, Settled
    <2>5. \A c \in Cancels : cancels[c].at \in {"shared", "exits"} => activeTasks' = {} /\ activeTasks = {}
      BY <1>2 DEF IInv, Awaited
    <2>6. \A c \in Cancels : cancels[c].at = "exits" =>
            /\ \A q \in exitPromises' : rstate'[q] = "stopped" \/ q \in cancels[c].awaits
            /\ \A q \in cancels[c].awaits : rstate'[q] = "stopped" \/ q \in exitPromises'
      BY <1>3, <2>1, <2>2, <2>5 DEF IInv, Awaited
    <2>7. ~isCancelling => \A c \in Cancels : Live(c)' =>
            activeTasks' = {} /\ \A q \in exitPromises' : rstate'[q] = "stopped"
      BY <1>2, <1>3, <1>16, <2>1, <2>2 DEF IInv, Awaited
    <2>8. \A c \in Cancels : cancels[c].at = "shared" => cancels[c].awaits = {} /\ cancels[c].began = {} BY DEF IInv, Awaited
    <2> QED BY <1>2, <1>6, <2>3, <2>4, <2>5, <2>6, <2>7, <2>8 DEF Awaited
  <1>19. ClosedPoolIsStill'
    <2>1. \A q \in Tasks : rstate[q] \in {"idle", "stopped", "crashed"} => rstate'[q] = rstate[q]
      BY <1>1, <1>4 DEF r
    <2> QED BY <1>2, <2>1 DEF IInv, ClosedPoolIsStill
  <1> QED BY <1>9, <1>10, <1>11, <1>12, <1>13, <1>14, <1>15, <1>17, <1>18, <1>19 DEF IInv

\* The next task in the queue takes the runner of the one that ends, with its id.
LEMMA HandsOverKeeps ==
  ASSUME IInv, NEW t \in Tasks, pc[t] = "running", Settled(t), ContinueFrame,
         HandsOver(t, Head(queue))
  PROVE  IInv'
  <1> DEFINE r == runnerOf[t]
             h == Head(queue)
  <1>1. /\ Busy(t) /\ r \in Tasks /\ group \in Groups /\ r \notin exitPromises
        /\ \A u \in Tasks : Busy(u) => runnerOf[u] \in Tasks /\ (u # t => runnerOf[u] # r)
        /\ activeTasks \subseteq Tasks
    BY TaskEnds
  <1>2. /\ ~GroupCancelled /\ t \in activeTasks /\ mapOf[t] = group
        /\ h \notin Isolated /\ r \notin Isolated /\ Key[r] = Key[h]
        /\ rstate[r] \in {"started", "failed"}
        /\ queue # <<>> /\ queue' = Tail(queue)
        /\ activeTasks' = (activeTasks \ {t}) \cup {h}
        /\ runnerOf' = [runnerOf EXCEPT ![h] = r] /\ mapOf' = [mapOf EXCEPT ![h] = group]
        /\ rstate' = [rstate EXCEPT ![r] = IF @ = "started" THEN @ ELSE "starting"]
        /\ pc' = [pc EXCEPT ![t] = "done", ![h] = IF rstate[r] = "started" THEN "running" ELSE "starting"]
        /\ UNCHANGED <<sharedRunners, exitPromises, freeIds, resolver, poolId>>
        /\ UNCHANGED <<group, toSubmit, ctxCancelling, cancelPromise, cancels, isCancelling, link, stopWanted>>
        /\ graceful' \subseteq Tasks
    BY DEF HandsOver, ContinueFrame, ctxVars
  <1>3. /\ h \in Tasks /\ h \in InGroup(group) /\ pc[h] = "queued" /\ resolver[h] = "pending" /\ rstate[h] = "idle"
    BY <1>2, NextInQueue
  <1>4. h # t /\ ~Busy(h) BY <1>3 DEF Busy
  <1>5. /\ pc \in [Tasks -> {"none", "queued", "starting", "startSettled", "running", "done"}]
        /\ runnerOf \in [Tasks -> Tasks \cup {NoTask}] /\ mapOf \in [Tasks -> 0..Len(Plan)]
        /\ rstate \in [Tasks -> RunnerStates]
        /\ exitPromises \subseteq Tasks /\ stopWanted \subseteq Tasks
        /\ \A c \in Cancels : cancels[c].awaits \subseteq Tasks
        /\ sharedRunners = {}
    BY DEF IInv, TypeOK, Runners
  <1>6. /\ \A u \in Tasks : u # t /\ u # h => pc'[u] = pc[u]
        /\ \A u \in Tasks : u # h => runnerOf'[u] = runnerOf[u] /\ mapOf'[u] = mapOf[u]
        /\ \A q \in Tasks : q # r => rstate'[q] = rstate[q]
        /\ pc'[t] = "done" /\ pc'[h] \in {"running", "starting"}
        /\ runnerOf'[h] = r /\ mapOf'[h] = group
        /\ rstate'[r] \in {"started", "starting"}
        /\ pc'[h] = "starting" <=> rstate'[r] = "starting"
    BY <1>1, <1>2, <1>3, <1>4, <1>5
  <1>7. (GroupCancelled' <=> GroupCancelled) /\ maxWorkers' = maxWorkers /\ Ids' = Ids
    BY <1>2 DEF GroupCancelled, AllOver, GroupSettled, Settled, InGroup, maxWorkers, Ids
  <1>8. queue \in Seq(Tasks) BY DEF IInv, TypeOK
  <1>9. /\ queue' \in Seq(Tasks) /\ 1 \in DOMAIN queue /\ h = queue[1]
        /\ \A i \in DOMAIN queue' : i + 1 \in DOMAIN queue /\ i + 1 # 1 /\ queue'[i] = queue[i + 1]
        /\ \A i, j \in DOMAIN queue' : i + 1 = j + 1 => i = j
    BY <1>2, <1>8, HeadAndTail
  <1> HIDE DEF r, h
  <1>10. \A u \in Tasks : Busy(u)' <=> (Busy(u) /\ u # t) \/ u = h BY <1>4, <1>6 DEF Busy
  <1>11. \A u \in Tasks : Busy(u) /\ u # t =>
           /\ u # h /\ runnerOf[u] \in Tasks /\ runnerOf[u] # r
           /\ runnerOf'[u] = runnerOf[u] /\ rstate'[runnerOf[u]] = rstate[runnerOf[u]]
           /\ pc'[u] = pc[u] /\ mapOf'[u] = mapOf[u]
    BY <1>1, <1>4, <1>6
  <1>12. /\ ~isCancelling /\ ~ctxCancelling
         /\ \A c \in Cancels :
              ~Live(c) /\ cancels[c].at \notin {"shared", "exits"} /\ cancels[c].by # "close"
    BY <1>2, AcceptingMeans
  <1>13. \A c \in Cancels : ~Live(c)'
    <2>1. \A u \in Tasks : pc[u] \notin {"none", "queued"} => runnerOf'[u] = runnerOf[u] BY <1>3, <1>6
    <2>2. \A q \in Tasks : rstate[q] = "crashed" => rstate'[q] = "crashed" BY <1>2, <1>6
    <2>3. cancels' = cancels BY <1>2
    <2> QED BY <1>12, <2>1, <2>2, <2>3, LiveBefore
  <1>14. \A g \in Groups : InGroup(g) \subseteq Tasks BY GroupFacts
  <1>15. TypeOK'
    <2>1. rstate' \in [Tasks -> RunnerStates] BY <1>2, <1>5 DEF RunnerStates
    <2>2. pc' \in [Tasks -> {"none", "queued", "starting", "startSettled", "running", "done"}]
      BY <1>2, <1>5
    <2>3. runnerOf' \in [Tasks -> Tasks \cup {NoTask}] /\ activeTasks' \subseteq Tasks
      BY <1>1, <1>2, <1>3, <1>5
    <2>4. mapOf' \in [Tasks -> 0..Len(Plan)] BY <1>2, <1>5 DEF IInv, TypeOK
    <2> QED BY <1>2, <1>7, <1>9, <2>1, <2>2, <2>3, <2>4 DEF IInv, TypeOK
  <1>16. WaitingTasks'
    <2>1. \A i \in DOMAIN toSubmit : toSubmit[i] \in Tasks /\ toSubmit[i] # t /\ toSubmit[i] # h
      <3>1. \A i \in DOMAIN toSubmit : toSubmit[i] \in Tasks BY DEF IInv, TypeOK
      <3>2. \A i \in DOMAIN toSubmit : pc[toSubmit[i]] = "none" BY DEF IInv, WaitingTasks
      <3> QED BY <1>3, <3>1, <3>2
    <2>2. \A i \in DOMAIN toSubmit : pc'[toSubmit[i]] = "none" BY <1>6, <2>1 DEF IInv, WaitingTasks
    <2>3. \A i \in DOMAIN queue' :
            /\ queue'[i] \in Tasks /\ queue'[i] \in InGroup(group) /\ pc[queue'[i]] = "queued"
            /\ queue'[i] # h
      BY <1>8, <1>9 DEF IInv, WaitingTasks
    <2>4. \A i \in DOMAIN queue' : pc'[queue'[i]] = "queued" BY <1>6, <2>3
    <2>5. \A i, j \in DOMAIN queue' : queue'[i] = queue'[j] => i = j BY <1>9 DEF IInv, WaitingTasks
    <2>6. group # 0 BY <1>1, GroupFacts
    <2>7. \A g \in Groups : g > group => \A u \in InGroup(g) : pc'[u] = "none"
      <3>1. \A g \in Groups : g > group => \A u \in InGroup(g) : u \in Tasks /\ pc[u] = "none"
        BY <1>14 DEF IInv, WaitingTasks
      <3> QED BY <1>3, <1>6, <3>1
    <2>8. \A u \in Tasks : pc'[u] \in {"none", "queued"} => resolver[u] = "pending" /\ rstate'[u] = "idle"
      BY <1>2, <1>6 DEF IInv, WaitingTasks
    <2>9. \A i, j \in DOMAIN toSubmit : toSubmit[i] = toSubmit[j] => i = j BY DEF IInv, WaitingTasks
    <2>10. \A i \in DOMAIN toSubmit : toSubmit[i] \in InGroup(group) BY DEF IInv, WaitingTasks
    <2>11. group' = group /\ toSubmit' = toSubmit /\ resolver' = resolver BY <1>2
    <2> QED BY <2>2, <2>3, <2>4, <2>5, <2>6, <2>7, <2>8, <2>9, <2>10, <2>11 DEF WaitingTasks, InGroup
  <1>17. EndedTasks'
    <2>1. r # NoTask BY <1>1, PlanAssumption
    <2>2. \A u \in Tasks : pc'[u] = "done" => u = t \/ pc[u] = "done" BY <1>6
    <2>3. \A u \in Tasks : runnerOf[u] # NoTask => runnerOf'[u] # NoTask BY <1>6, <2>1
    <2>4. resolver' = resolver /\ group' = group BY <1>2
    <2> QED BY <2>2, <2>3, <2>4 DEF IInv, EndedTasks, InGroup, Settled
  <1>18. BusyTasks'
    <2>1. group \in 1..group BY <1>1, GroupFacts
    <2>2. \A u \in Tasks : Busy(u)' =>
            /\ runnerOf'[u] \in Tasks /\ mapOf'[u] \in 1..group /\ u \in InGroup(mapOf'[u])
            /\ \/ runnerOf'[u] = u
               \/ u \notin Isolated /\ runnerOf'[u] \notin Isolated /\ Key[runnerOf'[u]] = Key[u]
            /\ rstate'[runnerOf'[u]] # "idle"
            /\ pc'[u] = "starting" <=> rstate'[runnerOf'[u]] = "starting"
      <3> SUFFICES ASSUME NEW u \in Tasks, Busy(u)'
                   PROVE  /\ runnerOf'[u] \in Tasks /\ mapOf'[u] \in 1..group /\ u \in InGroup(mapOf'[u])
                          /\ \/ runnerOf'[u] = u
                             \/ u \notin Isolated /\ runnerOf'[u] \notin Isolated /\ Key[runnerOf'[u]] = Key[u]
                          /\ rstate'[runnerOf'[u]] # "idle"
                          /\ pc'[u] = "starting" <=> rstate'[runnerOf'[u]] = "starting"
        OBVIOUS
      <3>1. CASE u = h
        <4>1. runnerOf'[h] = r /\ mapOf'[h] = group BY <1>6
        <4>2. h \notin Isolated /\ r \notin Isolated /\ Key[r] = Key[h] BY <1>2
        <4>3. rstate'[r] # "idle" BY <1>6
        <4>4. pc'[h] = "starting" <=> rstate'[r] = "starting" BY <1>6
        <4> QED BY <1>1, <1>3, <2>1, <3>1, <4>1, <4>2, <4>3, <4>4
      <3>2. CASE Busy(u) /\ u # t BY <1>11, <3>2 DEF IInv, BusyTasks
      <3> QED BY <1>10, <3>1, <3>2
    <2>3. \A u, v \in Tasks : Busy(u)' /\ Busy(v)' /\ runnerOf'[u] = runnerOf'[v] => u = v
      BY <1>6, <1>10, <1>11 DEF IInv, BusyTasks
    <2> QED BY <1>2, <2>2, <2>3 DEF BusyTasks, InGroup
  <1>19. ActiveTasks'
    <2>1. \A u \in activeTasks' : Busy(u)'
      <3>1. \A u \in activeTasks : u \in Tasks /\ Busy(u) BY <1>1 DEF IInv, ActiveTasks
      <3> QED BY <1>2, <1>3, <1>10, <3>1
    <2>2. \A u \in Tasks : Busy(u)' /\ u \notin activeTasks' =>
            Busy(u) /\ u # t /\ u # h /\ u \notin activeTasks
      BY <1>2, <1>10
    <2>3. \A u \in Tasks : Busy(u) /\ u \notin activeTasks =>
            rstate[runnerOf[u]] = "stopped" /\ Settled(u) /\ mapOf[u] # group
      BY <1>2 DEF IInv, ActiveTasks
    <2> QED BY <1>2, <1>11, <2>1, <2>2, <2>3 DEF ActiveTasks, Settled
  <1>20. Runners'
    <2>1. \A q \in Tasks : rstate'[q] \in {"starting", "started", "failed"} =>
            \E u \in Tasks : Busy(u)' /\ runnerOf'[u] = q
      <3> SUFFICES ASSUME NEW q \in Tasks, rstate'[q] \in {"starting", "started", "failed"}, q # r
                   PROVE  \E u \in Tasks : Busy(u)' /\ runnerOf'[u] = q
        BY <1>3, <1>6, <1>10
      <3>1. PICK u \in Tasks : Busy(u) /\ runnerOf[u] = q BY <1>6 DEF IInv, Runners
      <3> QED BY <1>10, <1>11, <3>1 DEF r
    <2>2. \A q \in Tasks : rstate'[q] = "stopping" =>
            q \in exitPromises \/ \E u \in Tasks : Busy(u)' /\ runnerOf'[u] = q
      <3> SUFFICES ASSUME NEW q \in Tasks, rstate'[q] = "stopping", q \notin exitPromises
                   PROVE  \E u \in Tasks : Busy(u)' /\ runnerOf'[u] = q
        OBVIOUS
      <3>1. q # r /\ rstate[q] = "stopping" BY <1>6
      <3>2. PICK u \in Tasks : Busy(u) /\ runnerOf[u] = q BY <3>1 DEF IInv, Runners
      <3> QED BY <1>10, <1>11, <3>1, <3>2 DEF r
    <2>3. \A q \in exitPromises :
            rstate'[q] \in {"stopping", "stopped"} /\ \A u \in Tasks : Busy(u)' => runnerOf'[u] # q
      <3>1. \A q \in exitPromises :
              /\ q \in Tasks /\ q # r /\ rstate[q] \in {"stopping", "stopped"}
              /\ \A u \in Tasks : Busy(u) => runnerOf[u] # q
        BY <1>1, <1>5 DEF IInv, Runners, r
      <3> QED BY <1>6, <1>10, <1>11, <3>1
    <2>4. \A q \in stopWanted : rstate'[q] # "idle" BY <1>5, <1>6 DEF IInv, Runners
    <2>5. r \notin stopWanted BY <1>1, <1>2 DEF IInv, Runners, r
    <2>6. \A u \in Tasks : Busy(u)' /\ mapOf'[u] = group =>
            rstate'[runnerOf'[u]] # "stopping" /\ runnerOf'[u] \notin stopWanted
      BY <1>2, <1>6, <1>10, <1>11, <2>5 DEF IInv, Runners
    <2> QED BY <1>2, <1>5, <2>1, <2>2, <2>3, <2>4, <2>6 DEF Runners
  <1>21. Slots'
    <2>1. h \notin activeTasks BY <1>4 DEF IInv, ActiveTasks
    <2>2. Cardinality(activeTasks') = Cardinality(activeTasks) /\ Cardinality(activeTasks) <= maxWorkers
      <3>1. /\ Cardinality(activeTasks \ {t}) \in Nat /\ Cardinality(activeTasks) \in Nat
            /\ Cardinality(activeTasks \ {t}) = Cardinality(activeTasks) - 1
            /\ IsFiniteSet(activeTasks)
        BY <1>2, TaskEnds
      <3>2. IsFiniteSet(activeTasks \ {t}) BY <3>1, FS_Subset
      <3>3. Cardinality(activeTasks') = Cardinality(activeTasks \ {t}) + 1
        BY <1>2, <2>1, <3>2, FS_AddElement
      <3>4. Cardinality(activeTasks) <= maxWorkers BY <1>2 DEF IInv, Slots
      <3> QED BY <3>1, <3>3, <3>4
    <2>3. \A u \in activeTasks : u # t =>
            u \in Tasks /\ u # h /\ runnerOf'[u] = runnerOf[u] /\ mapOf'[u] = mapOf[u]
      BY <1>1, <1>11 DEF IInv, ActiveTasks
    <2>4. runnerOf'[h] = runnerOf[t] /\ mapOf'[h] = mapOf[t] BY <1>2, <1>6 DEF r
    <2>5. \A u \in activeTasks' : mapOf'[u] = group => poolId[runnerOf'[u]] \in Ids \ freeIds
      BY <1>2, <2>3, <2>4 DEF IInv, Slots
    <2>6. \A u, v \in activeTasks' : mapOf'[u] = group /\ mapOf'[v] = group /\ u # v =>
            poolId[runnerOf'[u]] # poolId[runnerOf'[v]]
      BY <1>2, <2>3, <2>4 DEF IInv, Slots
    <2>7. ASSUME NEW i \in Ids \ freeIds
          PROVE  \E u \in activeTasks' : mapOf'[u] = group /\ poolId[runnerOf'[u]] = i
      <3>1. PICK u \in activeTasks : mapOf[u] = group /\ poolId[runnerOf[u]] = i
        BY <1>2 DEF IInv, Slots
      <3> QED BY <1>2, <2>3, <2>4, <3>1
    <2>8. \A u \in Tasks : mapOf'[u] \in 0..group BY <1>1, <1>6, GroupFacts DEF IInv, Slots
    <2>9. \A u \in Tasks : Busy(u)' /\ mapOf'[u] = group => poolId[runnerOf'[u]] \in Ids
      BY <1>1, <1>2, <1>10, <1>11, <2>4 DEF IInv, Slots
    <2>10. Cardinality(activeTasks) >= maxWorkers BY <1>2 DEF IInv, Slots
    <2> QED BY <1>2, <1>7, <2>2, <2>5, <2>6, <2>7, <2>8, <2>9, <2>10 DEF Slots
  <1>22. Cancelling' BY <1>2, <1>12, <1>13 DEF Cancelling
  <1>23. Awaited'
    <2>1. ASSUME NEW c \in Cancels, cancels[c].at = "tasks", NEW u \in cancels[c].awaits
          PROVE  /\ runnerOf'[u] \in Tasks /\ pc'[u] \notin {"none", "queued"}
                 /\ \/ u \in activeTasks' \/ runnerOf'[u] \in exitPromises
                    \/ rstate'[runnerOf'[u]] \in {"stopped", "crashed"}
                 /\ mapOf'[u] # group
      <3>1. /\ u \in Tasks /\ mapOf[u] # group /\ runnerOf[u] \in Tasks /\ pc[u] \notin {"none", "queued"}
            /\ \/ u \in activeTasks \/ runnerOf[u] \in exitPromises
               \/ rstate[runnerOf[u]] \in {"stopped", "crashed"}
        BY <1>2, <1>5, <2>1 DEF IInv, Awaited
      <3>2. u # t /\ u # h BY <1>2, <1>3, <3>1
      <3>3. \A q \in Tasks : rstate[q] \in {"stopped", "crashed"} => rstate'[q] \in {"stopped", "crashed"}
        BY <1>2, <1>6
      <3>4. u \in activeTasks => u \in activeTasks' BY <1>2, <3>2
      <3>5. runnerOf'[u] = runnerOf[u] /\ mapOf'[u] = mapOf[u] /\ pc'[u] = pc[u] BY <1>6, <3>1, <3>2
      <3> QED BY <3>1, <3>3, <3>4, <3>5
    <2> QED BY <1>2, <1>12, <1>13, <2>1 DEF Awaited
  <1>24. ClosedPoolIsStill' BY <1>2, <1>12 DEF ClosedPoolIsStill
  <1> QED BY <1>15, <1>16, <1>17, <1>18, <1>19, <1>20, <1>21, <1>22, <1>23, <1>24 DEF IInv

\* The runner of the task that ends is stopped, and the next task begins with its own.
LEMMA ReplacesKeeps ==
  ASSUME IInv, NEW t \in Tasks, pc[t] = "running", Settled(t), ContinueFrame,
         NEW id \in FreedIds(t), Replaces(t, Head(queue), id)
  PROVE  IInv'
  <1> DEFINE r == runnerOf[t]
             h == Head(queue)
  <1>1. /\ Busy(t) /\ r \in Tasks /\ group \in Groups /\ r \notin exitPromises
        /\ rstate[r] \in {"started", "failed", "stopping", "stopped", "crashed"}
        /\ \A u \in Tasks : Busy(u) => runnerOf[u] \in Tasks /\ (u # t => runnerOf[u] # r)
        /\ FreedIds(t) \subseteq Ids
        /\ \A u \in activeTasks : u # t /\ mapOf[u] = group => poolId[runnerOf[u]] \in Ids \ FreedIds(t)
        /\ maxWorkers \in Nat /\ Ids = 1..maxWorkers
        /\ activeTasks \subseteq Tasks
    BY TaskEnds
  <1>2. /\ ~GroupCancelled /\ Cardinality(activeTasks \ {t}) < maxWorkers
        /\ queue # <<>> /\ queue' = Tail(queue)
        /\ freeIds' = FreedIds(t) \ {id}
        /\ activeTasks' = (activeTasks \ {t}) \cup {h}
        /\ runnerOf' = [runnerOf EXCEPT ![h] = h] /\ poolId' = [poolId EXCEPT ![h] = id]
        /\ mapOf' = [mapOf EXCEPT ![h] = group]
        /\ rstate' = [rstate EXCEPT ![r] = StopEffect(@), ![h] = "starting"]
        /\ pc' = [pc EXCEPT ![t] = "done", ![h] = "starting"]
        /\ UNCHANGED <<sharedRunners, resolver>>
        /\ UNCHANGED <<group, toSubmit, ctxCancelling, cancelPromise, cancels, isCancelling, link, stopWanted>>
        /\ graceful' \subseteq Tasks
    BY DEF Replaces, ContinueFrame, ctxVars
  <1>3. /\ h \in Tasks /\ h \in InGroup(group) /\ pc[h] = "queued" /\ resolver[h] = "pending" /\ rstate[h] = "idle"
    BY <1>2, NextInQueue
  <1>4. h # t /\ ~Busy(h) /\ h # r BY <1>1, <1>3 DEF Busy
  <1>5. /\ pc \in [Tasks -> {"none", "queued", "starting", "startSettled", "running", "done"}]
        /\ runnerOf \in [Tasks -> Tasks \cup {NoTask}] /\ mapOf \in [Tasks -> 0..Len(Plan)]
        /\ poolId \in [Tasks -> Nat] /\ rstate \in [Tasks -> RunnerStates]
        /\ exitPromises \subseteq Tasks /\ stopWanted \subseteq Tasks
        /\ \A c \in Cancels : cancels[c].awaits \subseteq Tasks
        /\ sharedRunners = {}
    BY DEF IInv, TypeOK, Runners
  <1>6. /\ \A u \in Tasks : u # t /\ u # h => pc'[u] = pc[u]
        /\ \A u \in Tasks : u # h => runnerOf'[u] = runnerOf[u] /\ mapOf'[u] = mapOf[u] /\ poolId'[u] = poolId[u]
        /\ \A q \in Tasks : q # r /\ q # h => rstate'[q] = rstate[q]
        /\ pc'[t] = "done" /\ pc'[h] = "starting" /\ runnerOf'[h] = h /\ mapOf'[h] = group
        /\ poolId'[h] = id /\ rstate'[h] = "starting"
    BY <1>1, <1>2, <1>3, <1>4, <1>5
  <1>7. rstate'[r] = StopEffect(rstate[r]) BY <1>1, <1>2, <1>3, <1>4, <1>5
  <1>8. /\ rstate'[r] \in {"stopping", "stopped", "crashed"}
        /\ rstate[r] \in {"stopped", "crashed"} => rstate'[r] = rstate[r]
        /\ rstate[r] \notin {"stopped", "crashed"} => rstate'[r] = "stopping"
    BY <1>1, <1>7 DEF StopEffect
  <1>9. exitPromises' = IF rstate[r] \in {"stopped", "crashed"} THEN exitPromises ELSE exitPromises \cup {r}
    BY DEF Replaces, StopsRunner, IsTerminated
  <1>10. (GroupCancelled' <=> GroupCancelled) /\ maxWorkers' = maxWorkers /\ Ids' = Ids
    BY <1>2 DEF GroupCancelled, AllOver, GroupSettled, Settled, InGroup, maxWorkers, Ids
  <1>11. queue \in Seq(Tasks) BY DEF IInv, TypeOK
  <1>12. /\ queue' \in Seq(Tasks) /\ 1 \in DOMAIN queue /\ h = queue[1]
         /\ \A i \in DOMAIN queue' : i + 1 \in DOMAIN queue /\ i + 1 # 1 /\ queue'[i] = queue[i + 1]
         /\ \A i, j \in DOMAIN queue' : i + 1 = j + 1 => i = j
    BY <1>2, <1>11, HeadAndTail
  <1>13. t \in activeTasks \/ (mapOf[t] # group /\ rstate[r] = "stopped")
    BY <1>1, <1>2 DEF IInv, ActiveTasks
  <1> HIDE DEF r, h
  <1>14. \A u \in Tasks : Busy(u)' <=> (Busy(u) /\ u # t) \/ u = h BY <1>4, <1>6 DEF Busy
  <1>15. \A u \in Tasks : Busy(u) => runnerOf[u] # h BY <1>3 DEF IInv, BusyTasks
  <1>16. \A u \in Tasks : Busy(u) /\ u # t =>
           /\ u # h /\ runnerOf[u] \in Tasks /\ runnerOf[u] # r /\ runnerOf[u] # h
           /\ runnerOf'[u] = runnerOf[u] /\ rstate'[runnerOf[u]] = rstate[runnerOf[u]]
           /\ pc'[u] = pc[u] /\ mapOf'[u] = mapOf[u] /\ poolId'[runnerOf[u]] = poolId[runnerOf[u]]
    BY <1>1, <1>4, <1>6, <1>15
  <1>17. /\ ~isCancelling /\ ~ctxCancelling
         /\ \A c \in Cancels :
              ~Live(c) /\ cancels[c].at \notin {"shared", "exits"} /\ cancels[c].by # "close"
    BY <1>2, AcceptingMeans
  <1>18. \A q \in Tasks : rstate[q] \in {"stopped", "crashed"} => rstate'[q] = rstate[q]
    BY <1>3, <1>6, <1>8
  <1>19. \A c \in Cancels : ~Live(c)'
    <2>1. \A u \in Tasks : pc[u] \notin {"none", "queued"} => runnerOf'[u] = runnerOf[u] BY <1>3, <1>6
    <2>2. \A q \in Tasks : rstate[q] = "crashed" => rstate'[q] = "crashed" BY <1>18
    <2>3. cancels' = cancels BY <1>2
    <2> QED BY <1>17, <2>1, <2>2, <2>3, LiveBefore
  <1>20. \A g \in Groups : InGroup(g) \subseteq Tasks BY GroupFacts
  <1>21. id \in Nat /\ id \in Ids BY <1>1
  <1>22. TypeOK'
    <2>1. rstate' \in [Tasks -> RunnerStates] BY <1>2, <1>5, <1>1 DEF RunnerStates, StopEffect, r
    <2>2. pc' \in [Tasks -> {"none", "queued", "starting", "startSettled", "running", "done"}]
      BY <1>2, <1>5
    <2>3. /\ runnerOf' \in [Tasks -> Tasks \cup {NoTask}] /\ activeTasks' \subseteq Tasks
          /\ poolId' \in [Tasks -> Nat]
      BY <1>1, <1>2, <1>3, <1>5, <1>21
    <2>4. mapOf' \in [Tasks -> 0..Len(Plan)] BY <1>2, <1>5 DEF IInv, TypeOK
    <2>5. freeIds' \subseteq Ids' /\ exitPromises' \subseteq Tasks BY <1>1, <1>2, <1>5, <1>9, <1>10
    <2> QED BY <1>2, <1>12, <2>1, <2>2, <2>3, <2>4, <2>5 DEF IInv, TypeOK
  <1>23. WaitingTasks'
    <2>1. \A i \in DOMAIN toSubmit : toSubmit[i] \in Tasks /\ toSubmit[i] # t /\ toSubmit[i] # h
      <3>1. \A i \in DOMAIN toSubmit : toSubmit[i] \in Tasks BY DEF IInv, TypeOK
      <3>2. \A i \in DOMAIN toSubmit : pc[toSubmit[i]] = "none" BY DEF IInv, WaitingTasks
      <3> QED BY <1>3, <3>1, <3>2
    <2>2. \A i \in DOMAIN toSubmit : pc'[toSubmit[i]] = "none" BY <1>6, <2>1 DEF IInv, WaitingTasks
    <2>3. \A i \in DOMAIN queue' :
            /\ queue'[i] \in Tasks /\ queue'[i] \in InGroup(group) /\ pc[queue'[i]] = "queued"
            /\ queue'[i] # h
      BY <1>11, <1>12 DEF IInv, WaitingTasks
    <2>4. \A i \in DOMAIN queue' : pc'[queue'[i]] = "queued" BY <1>6, <2>3
    <2>5. \A i, j \in DOMAIN queue' : queue'[i] = queue'[j] => i = j BY <1>12 DEF IInv, WaitingTasks
    <2>6. group # 0 BY <1>1, GroupFacts
    <2>7. \A g \in Groups : g > group => \A u \in InGroup(g) : pc'[u] = "none"
      <3>1. \A g \in Groups : g > group => \A u \in InGroup(g) : u \in Tasks /\ pc[u] = "none"
        BY <1>20 DEF IInv, WaitingTasks
      <3> QED BY <1>3, <1>6, <3>1
    <2>8. \A u \in Tasks : pc'[u] \in {"none", "queued"} => resolver[u] = "pending" /\ rstate'[u] = "idle"
      <3>1. \A u \in Tasks : pc'[u] \in {"none", "queued"} => pc[u] \in {"none", "queued"} /\ u # h BY <1>6
      <3>2. \A u \in Tasks : pc[u] \in {"none", "queued"} => resolver[u] = "pending" /\ rstate[u] = "idle" /\ u # r
        BY <1>1 DEF IInv, WaitingTasks
      <3> QED BY <1>6, <3>1, <3>2
    <2>9. \A i, j \in DOMAIN toSubmit : toSubmit[i] = toSubmit[j] => i = j BY DEF IInv, WaitingTasks
    <2>10. \A i \in DOMAIN toSubmit : toSubmit[i] \in InGroup(group) BY DEF IInv, WaitingTasks
    <2>11. group' = group /\ toSubmit' = toSubmit /\ resolver' = resolver BY <1>2
    <2> QED BY <2>2, <2>3, <2>4, <2>5, <2>6, <2>7, <2>8, <2>9, <2>10, <2>11 DEF WaitingTasks, InGroup
  <1>24. EndedTasks'
    <2>1. h # NoTask BY <1>3, PlanAssumption
    <2>2. \A u \in Tasks : pc'[u] = "done" => u = t \/ pc[u] = "done" BY <1>6
    <2>3. \A u \in Tasks : runnerOf[u] # NoTask => runnerOf'[u] # NoTask BY <1>6, <2>1
    <2>4. resolver' = resolver /\ group' = group BY <1>2
    <2> QED BY <2>2, <2>3, <2>4 DEF IInv, EndedTasks, InGroup, Settled
  <1>25. BusyTasks'
    <2>1. group \in 1..group BY <1>1, GroupFacts
    <2>2. \A u \in Tasks : Busy(u)' =>
            /\ runnerOf'[u] \in Tasks /\ mapOf'[u] \in 1..group /\ u \in InGroup(mapOf'[u])
            /\ \/ runnerOf'[u] = u
               \/ u \notin Isolated /\ runnerOf'[u] \notin Isolated /\ Key[runnerOf'[u]] = Key[u]
            /\ rstate'[runnerOf'[u]] # "idle"
            /\ pc'[u] = "starting" <=> rstate'[runnerOf'[u]] = "starting"
      <3> SUFFICES ASSUME NEW u \in Tasks, Busy(u)'
                   PROVE  /\ runnerOf'[u] \in Tasks /\ mapOf'[u] \in 1..group /\ u \in InGroup(mapOf'[u])
                          /\ \/ runnerOf'[u] = u
                             \/ u \notin Isolated /\ runnerOf'[u] \notin Isolated /\ Key[runnerOf'[u]] = Key[u]
                          /\ rstate'[runnerOf'[u]] # "idle"
                          /\ pc'[u] = "starting" <=> rstate'[runnerOf'[u]] = "starting"
        OBVIOUS
      <3>1. CASE u = h BY <1>3, <1>6, <2>1, <3>1
      <3>2. CASE Busy(u) /\ u # t BY <1>16, <3>2 DEF IInv, BusyTasks
      <3> QED BY <1>14, <3>1, <3>2
    <2>3. \A u, v \in Tasks : Busy(u)' /\ Busy(v)' /\ runnerOf'[u] = runnerOf'[v] => u = v
      BY <1>6, <1>14, <1>16 DEF IInv, BusyTasks
    <2> QED BY <1>2, <2>2, <2>3 DEF BusyTasks, InGroup
  <1>26. ActiveTasks'
    <2>1. \A u \in activeTasks' : Busy(u)'
      <3>1. \A u \in activeTasks : u \in Tasks /\ Busy(u) BY <1>1 DEF IInv, ActiveTasks
      <3> QED BY <1>2, <1>3, <1>14, <3>1
    <2>2. \A u \in Tasks : Busy(u)' /\ u \notin activeTasks' =>
            Busy(u) /\ u # t /\ u # h /\ u \notin activeTasks
      BY <1>2, <1>14
    <2>3. \A u \in Tasks : Busy(u) /\ u \notin activeTasks =>
            rstate[runnerOf[u]] = "stopped" /\ Settled(u) /\ mapOf[u] # group
      BY <1>2 DEF IInv, ActiveTasks
    <2> QED BY <1>2, <1>16, <2>1, <2>2, <2>3 DEF ActiveTasks, Settled
  <1>27. Runners'
    <2>1. \A q \in Tasks : rstate'[q] \in {"starting", "started", "failed"} =>
            \E u \in Tasks : Busy(u)' /\ runnerOf'[u] = q
      <3> SUFFICES ASSUME NEW q \in Tasks, rstate'[q] \in {"starting", "started", "failed"}, q # h
                   PROVE  \E u \in Tasks : Busy(u)' /\ runnerOf'[u] = q
        BY <1>3, <1>6, <1>14
      <3>1. q # r BY <1>8
      <3>2. PICK u \in Tasks : Busy(u) /\ runnerOf[u] = q BY <1>6, <3>1 DEF IInv, Runners
      <3> QED BY <1>14, <1>16, <3>1, <3>2 DEF r
    <2>2. \A q \in Tasks : rstate'[q] = "stopping" =>
            q \in exitPromises' \/ \E u \in Tasks : Busy(u)' /\ runnerOf'[u] = q
      <3> SUFFICES ASSUME NEW q \in Tasks, rstate'[q] = "stopping", q \notin exitPromises'
                   PROVE  \E u \in Tasks : Busy(u)' /\ runnerOf'[u] = q
        OBVIOUS
      <3>1. q # r BY <1>8, <1>9
      <3>2. rstate[q] = "stopping" /\ q \notin exitPromises BY <1>6, <1>9, <3>1
      <3>3. PICK u \in Tasks : Busy(u) /\ runnerOf[u] = q BY <3>2 DEF IInv, Runners
      <3> QED BY <1>14, <1>16, <3>1, <3>3 DEF r
    <2>3. \A q \in exitPromises' :
            rstate'[q] \in {"stopping", "stopped"} /\ \A u \in Tasks : Busy(u)' => runnerOf'[u] # q
      <3> SUFFICES ASSUME NEW q \in exitPromises'
                   PROVE  rstate'[q] \in {"stopping", "stopped"} /\ \A u \in Tasks : Busy(u)' => runnerOf'[u] # q
        OBVIOUS
      <3>1. CASE q = r
        <4>1. rstate'[r] = "stopping" BY <1>1, <1>8, <1>9, <3>1 DEF r
        <4> QED BY <1>4, <1>6, <1>14, <1>16, <3>1, <4>1
      <3>2. CASE q # r
        <4>1. /\ q \in exitPromises /\ q \in Tasks /\ rstate[q] \in {"stopping", "stopped"}
              /\ \A u \in Tasks : Busy(u) => runnerOf[u] # q
          BY <1>5, <1>9, <3>2 DEF IInv, Runners
        <4>2. q # h BY <1>3, <4>1
        <4> QED BY <1>6, <1>14, <1>16, <3>2, <4>1, <4>2
      <3> QED BY <3>1, <3>2
    <2>4. \A q \in stopWanted : rstate'[q] # "idle"
      <3>1. \A q \in stopWanted : q \in Tasks /\ rstate[q] # "idle" BY <1>5 DEF IInv, Runners
      <3> QED BY <1>6, <1>8, <3>1
    <2>5. h \notin stopWanted BY <1>3 DEF IInv, Runners
    <2>6. \A u \in Tasks : Busy(u)' /\ mapOf'[u] = group =>
            rstate'[runnerOf'[u]] # "stopping" /\ runnerOf'[u] \notin stopWanted
      <3>1. \A u \in Tasks : Busy(u) /\ mapOf[u] = group =>
              rstate[runnerOf[u]] # "stopping" /\ runnerOf[u] \notin stopWanted
        BY <1>2 DEF IInv, Runners
      <3> QED BY <1>6, <1>14, <1>16, <2>5, <3>1
    <2> QED BY <1>2, <1>5, <2>1, <2>2, <2>3, <2>4, <2>6, ZenonT(60) DEF Runners
  <1>28. Slots'
    <2>1. h \notin activeTasks BY <1>4 DEF IInv, ActiveTasks
    <2>2. /\ Cardinality(activeTasks') \in Nat
          /\ Cardinality(activeTasks') = Cardinality(activeTasks \ {t}) + 1
          /\ Cardinality(activeTasks') <= maxWorkers
      <3>1. Cardinality(activeTasks \ {t}) \in Nat /\ IsFiniteSet(activeTasks) BY TaskEnds
      <3>2. IsFiniteSet(activeTasks \ {t}) BY <3>1, FS_Subset
      <3>3. Cardinality(activeTasks') = Cardinality(activeTasks \ {t}) + 1
        BY <1>2, <2>1, <3>2, FS_AddElement
      <3> QED BY <1>1, <1>2, <3>1, <3>3
    <2>3. \A u \in activeTasks : u # t =>
            /\ u \in Tasks /\ u # h /\ runnerOf'[u] = runnerOf[u] /\ mapOf'[u] = mapOf[u]
            /\ poolId'[runnerOf[u]] = poolId[runnerOf[u]]
      BY <1>1, <1>16 DEF IInv, ActiveTasks
    <2>4. poolId'[runnerOf'[h]] = id /\ mapOf'[h] = group BY <1>6
    <2>5. \A u \in activeTasks' : mapOf'[u] = group => poolId'[runnerOf'[u]] \in Ids \ freeIds'
      BY <1>1, <1>2, <1>21, <2>3, <2>4
    <2>6. \A u, v \in activeTasks' : mapOf'[u] = group /\ mapOf'[v] = group /\ u # v =>
            poolId'[runnerOf'[u]] # poolId'[runnerOf'[v]]
      BY <1>1, <1>2, <2>3, <2>4 DEF IInv, Slots
    <2>7. ASSUME NEW i \in Ids \ freeIds'
          PROVE  \E u \in activeTasks' : mapOf'[u] = group /\ poolId'[runnerOf'[u]] = i
      <3>1. CASE i = id BY <1>2, <2>4, <3>1
      <3>2. CASE i # id
        <4>1. i \in Ids \ freeIds /\ i \notin FreedIds(t) BY <1>2, <3>2 DEF FreedIds
        <4>2. PICK u \in activeTasks : mapOf[u] = group /\ poolId[runnerOf[u]] = i
          BY <1>2, <4>1 DEF IInv, Slots
        <4>3. u # t BY <4>1, <4>2 DEF FreedIds
        <4> QED BY <1>2, <2>3, <4>2, <4>3
      <3> QED BY <3>1, <3>2
    <2>8. \A u \in Tasks : mapOf'[u] \in 0..group BY <1>1, <1>6, GroupFacts DEF IInv, Slots
    <2>9. \A u \in Tasks : Busy(u)' /\ mapOf'[u] = group => poolId'[runnerOf'[u]] \in Ids
      <3>1. \A u \in Tasks : Busy(u) /\ mapOf[u] = group => poolId[runnerOf[u]] \in Ids
        BY DEF IInv, Slots
      <3> QED BY <1>14, <1>16, <1>21, <2>4, <3>1
    <2>10. queue' # <<>> => Cardinality(activeTasks') >= maxWorkers
      <3>1. Cardinality(activeTasks) >= maxWorkers BY <1>2 DEF IInv, Slots
      <3>2. /\ Cardinality(activeTasks) \in Nat /\ Cardinality(activeTasks \ {t}) \in Nat
            /\ t \in activeTasks => Cardinality(activeTasks \ {t}) = Cardinality(activeTasks) - 1
            /\ t \notin activeTasks => activeTasks \ {t} = activeTasks
        BY TaskEnds
      <3>3. maxWorkers \in Nat BY <1>1
      <3>4. Cardinality(activeTasks') >= Cardinality(activeTasks)
        <4>1. CASE t \in activeTasks BY <2>2, <3>2, <4>1
        <4>2. CASE t \notin activeTasks
          <5>1. Cardinality(activeTasks \ {t}) = Cardinality(activeTasks) BY <3>2, <4>2
          <5> QED BY <2>2, <3>2, <5>1
        <4> QED BY <4>1, <4>2
      <3> QED BY <2>2, <3>1, <3>2, <3>3, <3>4
    <2> QED BY <1>2, <1>10, <2>2, <2>5, <2>6, <2>7, <2>8, <2>9, <2>10 DEF Slots
  <1>29. Cancelling' BY <1>2, <1>17, <1>19 DEF Cancelling
  <1>30. Awaited'
    <2>1. ASSUME NEW c \in Cancels, cancels[c].at = "tasks", NEW u \in cancels[c].awaits
          PROVE  /\ runnerOf'[u] \in Tasks /\ pc'[u] \notin {"none", "queued"}
                 /\ \/ u \in activeTasks' \/ runnerOf'[u] \in exitPromises'
                    \/ rstate'[runnerOf'[u]] \in {"stopped", "crashed"}
                 /\ mapOf'[u] # group
      <3>1. /\ u \in Tasks /\ mapOf[u] # group /\ runnerOf[u] \in Tasks /\ pc[u] \notin {"none", "queued"}
            /\ \/ u \in activeTasks \/ runnerOf[u] \in exitPromises
               \/ rstate[runnerOf[u]] \in {"stopped", "crashed"}
        BY <1>2, <1>5, <2>1 DEF IInv, Awaited
      <3>2. u # h BY <1>3, <3>1
      <3>3. u \in activeTasks /\ u # t => u \in activeTasks' BY <1>2
      <3>4. u = t => runnerOf[u] \in exitPromises' \/ rstate'[runnerOf[u]] \in {"stopped", "crashed"}
        BY <1>8, <1>9 DEF r
      <3>5. runnerOf'[u] = runnerOf[u] /\ mapOf'[u] = mapOf[u] /\ pc'[u] \notin {"none", "queued"}
        BY <1>6, <3>1, <3>2
      <3>6. exitPromises \subseteq exitPromises' BY <1>9
      <3> QED BY <1>18, <3>1, <3>3, <3>4, <3>5, <3>6
    <2> QED BY <1>2, <1>17, <1>19, <2>1 DEF Awaited
  <1>31. ClosedPoolIsStill' BY <1>2, <1>17 DEF ClosedPoolIsStill
  <1> QED BY <1>22, <1>23, <1>24, <1>25, <1>26, <1>27, <1>28, <1>29, <1>30, <1>31 DEF IInv

LEMMA ContinueKeeps ==
  ASSUME IInv, LateTasks, LateAreAlone, NEW t \in Tasks, Continue(t)
  PROVE  IInv'
  BY ContinueCases, LeavesKeeps, HandsOverKeeps, ReplacesKeeps

-----------------------------------------------------------------------------
(* Steps of cancel().                                                      *)

\* A cancel clears the queue, and a forced one stops the runners of active tasks.
LEMMA CancelCallKeeps ==
  ASSUME IInv, NEW c \in Cancels, NEW by \in {"user", "bail", "close"},
         \/ CancelCurrentRun(c, by) /\ by # "close"
         \/ Close(c) /\ by = "close"
  PROVE  IInv'
  <1> DEFINE S == {queue[i] : i \in DOMAIN queue}
             F == IF isCancelling THEN {runnerOf[t] : t \in activeTasks} ELSE {}
  <1>1. /\ group > 0 /\ toSubmit = <<>> /\ cancels[c].at = "idle"
        /\ cancels' = [cancels EXCEPT ![c] =
                         [at |-> "tasks", force |-> isCancelling, awaits |-> activeTasks, by |-> by, began |-> {}]]
        /\ isCancelling' = TRUE /\ queue' = <<>>
        /\ resolver' = [t \in Tasks |-> IF t \in S THEN "cancelled" ELSE resolver[t]]
        /\ pc' = [t \in Tasks |-> IF t \in S THEN "done" ELSE pc[t]]
        /\ stopWanted' = stopWanted \cup {r \in F : rstate[r] = "starting"}
        /\ rstate' = [r \in Tasks |-> IF r \in F THEN StopEffect(rstate[r]) ELSE rstate[r]]
        /\ UNCHANGED <<group, toSubmit, activeTasks, sharedRunners, exitPromises, freeIds,
                       runnerOf, mapOf, poolId, link, graceful>>
    BY DEF CancelCurrentRun, Close, CancelCall, Quiescent, LoopDone
  <1>2. \/ ctxCancelling' = TRUE /\ cancelPromise' = c /\ by # "close"
        \/ AllOver /\ UNCHANGED <<ctxCancelling, cancelPromise>>
    BY <1>1 DEF CancelCurrentRun, Close, AllOver
  <1>3. /\ pc \in [Tasks -> {"none", "queued", "starting", "startSettled", "running", "done"}]
        /\ resolver \in [Tasks -> Outcomes] /\ rstate \in [Tasks -> RunnerStates]
        /\ activeTasks \subseteq Tasks /\ exitPromises \subseteq Tasks /\ stopWanted \subseteq Tasks
        /\ queue \in Seq(Tasks)
        /\ cancels \in [Cancels -> [at : CancelAt, force : BOOLEAN, awaits : SUBSET Tasks,
                                    by : {"none", "user", "bail", "close"}, began : SUBSET Tasks]]
    BY DEF IInv, TypeOK
  <1>4. /\ S \subseteq Tasks
        /\ \A t \in S : pc[t] = "queued" /\ resolver[t] = "pending" /\ t \in InGroup(group)
    BY <1>3 DEF IInv, WaitingTasks
  <1>5. /\ F \subseteq Tasks
        /\ \A r \in F : \E t \in Tasks : Busy(t) /\ runnerOf[t] = r
    <2>1. \A t \in activeTasks : t \in Tasks /\ Busy(t) /\ runnerOf[t] \in Tasks
      BY <1>3 DEF IInv, ActiveTasks, BusyTasks
    <2> QED BY <2>1
  <1> HIDE DEF S, F
  <1>6. \A t \in Tasks :
          /\ (t \in S => pc'[t] = "done" /\ resolver'[t] = "cancelled")
          /\ (t \notin S => pc'[t] = pc[t] /\ resolver'[t] = resolver[t])
    BY <1>1
  <1>7. \A t \in Tasks : (Settled(t) => Settled(t)') /\ (Busy(t)' <=> Busy(t)) /\ (Busy(t) => t \notin S)
    BY <1>4, <1>6 DEF Settled, Busy
  <1>8. \A r \in Tasks : \/ rstate'[r] = rstate[r]
                         \/ rstate[r] \in {"started", "failed"} /\ rstate'[r] = "stopping" /\ r \in F
    BY <1>1 DEF StopEffect
  <1>9. AllOver => AllOver'
    <2>1. \A t \in Tasks : Settled(t) => Settled(t)' BY <1>7
    <2>2. group' = group /\ toSubmit' = toSubmit /\ (ctxCancelling => ctxCancelling') BY <1>1, <1>2
    <2> QED BY <2>1, <2>2, StaysCancelled
  <1>10. GroupCancelled' BY <1>2, <1>9 DEF GroupCancelled
  <1>11. /\ cancels'[c] = [at |-> "tasks", force |-> isCancelling, awaits |-> activeTasks, by |-> by, began |-> {}]
         /\ \A d \in Cancels : d # c => cancels'[d] = cancels[d]
    BY <1>1, <1>3
  <1>12. \A d \in Cancels : d # c /\ Live(d)' => Live(d)
    <2>1. \A r \in Tasks : rstate[r] = "crashed" => rstate'[r] = "crashed" BY <1>8
    <2> QED BY <1>1, <1>11, <2>1, LiveBefore
  <1>13. TypeOK'
    <2>1. rstate' \in [Tasks -> RunnerStates] BY <1>1, <1>3 DEF StopEffect, RunnerStates
    <2>2. pc' \in [Tasks -> {"none", "queued", "starting", "startSettled", "running", "done"}]
      BY <1>1, <1>3
    <2>3. resolver' \in [Tasks -> Outcomes] BY <1>1, <1>3 DEF Outcomes
    <2>4. stopWanted' \subseteq Tasks BY <1>1, <1>3, <1>5
    <2>5. cancels' \in [Cancels -> [at : CancelAt, force : BOOLEAN, awaits : SUBSET Tasks,
                                    by : {"none", "user", "bail", "close"}, began : SUBSET Tasks]]
      <3>1. isCancelling \in BOOLEAN BY DEF IInv, TypeOK
      <3> QED BY <1>1, <1>3, <3>1 DEF CancelAt
    <2>6. ctxCancelling' \in BOOLEAN /\ cancelPromise' \in Cancels \cup {0}
      BY <1>2 DEF IInv, TypeOK
    <2>7. queue' \in Seq(Tasks) /\ Ids' = Ids BY <1>1 DEF Ids, maxWorkers
    <2> QED BY <1>1, <2>1, <2>2, <2>3, <2>4, <2>5, <2>6, <2>7 DEF IInv, TypeOK
  <1>14. \A g \in Groups : InGroup(g) \subseteq Tasks BY GroupFacts
  <1>15. WaitingTasks'
    <2>1. \A g \in Groups : g > group => \A t \in InGroup(g) : pc'[t] = "none"
      <3>1. \A g \in Groups : g > group => \A t \in InGroup(g) : t \in Tasks /\ pc[t] = "none"
        BY <1>14 DEF IInv, WaitingTasks
      <3> QED BY <1>4, <1>6, <3>1
    <2>2. \A t \in Tasks : pc'[t] \in {"none", "queued"} => resolver'[t] = "pending" /\ rstate'[t] = "idle"
      BY <1>6, <1>8 DEF IInv, WaitingTasks
    <2> QED BY <1>1, <2>1, <2>2 DEF WaitingTasks, InGroup
  <1>16. EndedTasks'
    <2>1. \A t \in Tasks : pc'[t] = "done" => Settled(t)'
      BY <1>6 DEF IInv, EndedTasks, Settled
    <2>2. \A g \in Groups : g < group => \A t \in InGroup(g) : Settled(t)'
      BY <1>7, <1>14 DEF IInv, EndedTasks
    <2>3. \A t \in Tasks : resolver'[t] # "refused" /\ (resolver'[t] = "rejected" => runnerOf[t] # NoTask)
      BY <1>6 DEF IInv, EndedTasks
    <2> QED BY <1>1, <2>1, <2>2, <2>3 DEF EndedTasks, InGroup
  <1>17. BusyTasks'
    <2>1. \A t \in Tasks : Busy(t) => runnerOf[t] \in Tasks /\ pc'[t] = pc[t]
      BY <1>6, <1>7 DEF IInv, BusyTasks
    <2>2. \A r \in Tasks : /\ (rstate[r] # "idle" => rstate'[r] # "idle")
                           /\ (rstate'[r] = "starting" <=> rstate[r] = "starting")
      BY <1>8
    <2> QED BY <1>1, <1>7, <2>1, <2>2 DEF IInv, BusyTasks, InGroup
  <1>18. \A r \in Tasks : rstate[r] \in {"idle", "stopping", "stopped", "crashed"} => rstate'[r] = rstate[r]
    BY <1>8
  <1>19. ActiveTasks'
    <2>1. \A t \in Tasks : Busy(t) => runnerOf[t] \in Tasks BY DEF IInv, BusyTasks
    <2> QED BY <1>1, <1>3, <1>7, <1>10, <1>18, <2>1 DEF IInv, ActiveTasks
  <1>20. Runners'
    <2>1. \A r \in Tasks : rstate'[r] \in {"starting", "started", "failed"} =>
            \E t \in Tasks : Busy(t)' /\ runnerOf'[t] = r
      BY <1>1, <1>7, <1>8 DEF IInv, Runners
    <2>2. \A r \in Tasks : rstate'[r] = "stopping" =>
            r \in exitPromises \/ \E t \in Tasks : Busy(t)' /\ runnerOf'[t] = r
      BY <1>1, <1>5, <1>7, <1>8 DEF IInv, Runners
    <2>3. \A r \in exitPromises :
            rstate'[r] \in {"stopping", "stopped"} /\ \A t \in Tasks : Busy(t)' => runnerOf'[t] # r
      BY <1>1, <1>3, <1>7, <1>18 DEF IInv, Runners
    <2>4. \A r \in stopWanted' : rstate'[r] # "idle"
      <3>1. \A r \in stopWanted' : r \in Tasks /\ rstate[r] # "idle"
        BY <1>1, <1>3, <1>5 DEF IInv, Runners
      <3> QED BY <1>8, <3>1
    <2>5. sharedRunners' = {} BY <1>1 DEF IInv, Runners
    <2>6. exitPromises' = exitPromises BY <1>1
    <2> QED BY <1>10, <2>1, <2>2, <2>3, <2>4, <2>5, <2>6 DEF Runners
  <1>21. Slots' BY <1>1, <1>7, <1>10 DEF IInv, Slots, Ids, maxWorkers
  <1>22. Cancelling'
    <2>1. AllOver' \/ cancelPromise' # 0 BY <1>2, <1>9, CancelsAssumption
    <2>2. by = "close" => AllOver' BY <1>2, <1>9
    <2>3. \A d \in Cancels : cancels'[d].by = "close" => AllOver'
      BY <1>9, <1>11, <2>2 DEF IInv, Cancelling
    <2> QED BY <1>1, <1>10, <2>1, <2>3 DEF Cancelling
  <1>23. Awaited'
    <2>1. ASSUME NEW d \in Cancels, cancels'[d].at = "tasks", NEW t \in cancels'[d].awaits
          PROVE  /\ runnerOf[t] \in Tasks /\ pc'[t] \notin {"none", "queued"}
                 /\ \/ t \in activeTasks \/ runnerOf[t] \in exitPromises
                    \/ rstate'[runnerOf[t]] \in {"stopped", "crashed"}
      <3>1. CASE d = c
        <4>1. t \in activeTasks /\ t \in Tasks BY <1>3, <1>11, <2>1, <3>1
        <4>2. Busy(t) /\ runnerOf[t] \in Tasks BY <4>1 DEF IInv, ActiveTasks, BusyTasks
        <4>3. Busy(t)' BY <1>7, <4>1, <4>2
        <4> QED BY <4>1, <4>2, <4>3 DEF Busy
      <3>2. CASE d # c
        <4>1. cancels[d].at = "tasks" /\ t \in cancels[d].awaits BY <1>11, <2>1, <3>2
        <4>2. t \in Tasks BY <1>3, <4>1
        <4>3. /\ runnerOf[t] \in Tasks /\ pc[t] \notin {"none", "queued"}
              /\ \/ t \in activeTasks \/ runnerOf[t] \in exitPromises
                 \/ rstate[runnerOf[t]] \in {"stopped", "crashed"}
          BY <4>1 DEF IInv, Awaited
        <4>4. pc'[t] = pc[t] BY <1>4, <1>6, <4>2, <4>3
        <4> QED BY <1>18, <4>3, <4>4
      <3> QED BY <3>1, <3>2
    <2>2. ASSUME NEW d \in Cancels, Live(d)', cancels'[d].at = "tasks", NEW t \in activeTasks
          PROVE  t \in cancels'[d].awaits \/ (rstate'[runnerOf[t]] = "stopped" /\ Settled(t)')
      <3>1. CASE d = c BY <1>11, <3>1
      <3>2. CASE d # c
        <4>1. Live(d) /\ cancels'[d] = cancels[d] BY <1>11, <1>12, <2>2, <3>2
        <4>2. t \in Tasks /\ runnerOf[t] \in Tasks BY <1>3 DEF IInv, ActiveTasks, BusyTasks
        <4> QED BY <1>7, <1>18, <2>2, <4>1, <4>2 DEF IInv, Awaited
      <3> QED BY <3>1, <3>2
    <2>3. \A d \in Cancels : cancels'[d].at \in {"shared", "exits"} => cancels'[d] = cancels[d] /\ d # c
      BY <1>11
    <2>4. \A d \in Cancels : cancels'[d].at = "exits" =>
            /\ \A r \in exitPromises : rstate'[r] = "stopped" \/ r \in cancels'[d].awaits
            /\ \A r \in cancels'[d].awaits : rstate'[r] = "stopped" \/ r \in exitPromises
      <3>1. \A d \in Cancels : cancels[d].awaits \subseteq Tasks BY <1>3
      <3> QED BY <1>3, <1>18, <2>3, <3>1 DEF IInv, Awaited
    <2>5. \A d \in Cancels : /\ (cancels'[d].at \in {"shared", "exits"} => activeTasks = {})
                             /\ (cancels'[d].at = "shared" => cancels'[d].awaits = {} /\ cancels'[d].began = {})
      BY <2>3 DEF IInv, Awaited
    <2>6. /\ runnerOf' = runnerOf /\ activeTasks' = activeTasks /\ exitPromises' = exitPromises
          /\ isCancelling' = TRUE
      BY <1>1
    <2> QED BY <1>10, <2>1, <2>2, <2>4, <2>5, <2>6 DEF Awaited
  <1>24. ClosedPoolIsStill'
    <2>1. \A d \in Cancels : cancels'[d].at = "done" => cancels'[d] = cancels[d] BY <1>11
    <2> QED BY <1>18, <2>1 DEF IInv, ClosedPoolIsStill
  <1> QED BY <1>13, <1>15, <1>16, <1>17, <1>19, <1>20, <1>21, <1>22, <1>23, <1>24 DEF IInv

\* The stop of a task's runner has returned: the task is settled.
LEMMA CancelTaskSettlesKeeps ==
  ASSUME IInv, NEW c \in Cancels, NEW t \in Tasks, CancelTaskSettles(c, t)
  PROVE  IInv'
  <1>1. /\ cancels[c].at = "tasks" /\ t \in cancels[c].awaits /\ rstate[runnerOf[t]] = "stopped"
        /\ cancels' = [cancels EXCEPT ![c].awaits = @ \ {t}]
        /\ resolver' = [resolver EXCEPT ![t] = IF @ = "pending" THEN "cancelled" ELSE @]
        /\ UNCHANGED <<queue, activeTasks, sharedRunners, exitPromises, freeIds, isCancelling,
                       group, toSubmit, ctxCancelling, cancelPromise,
                       pc, runnerOf, mapOf, poolId, rstate, link, stopWanted, graceful>>
    BY DEF CancelTaskSettles, RejectCancelled, poolVars, runnerVars
  <1>2. /\ resolver \in [Tasks -> Outcomes] /\ activeTasks \subseteq Tasks
        /\ cancels \in [Cancels -> [at : CancelAt, force : BOOLEAN, awaits : SUBSET Tasks,
                                    by : {"none", "user", "bail", "close"}, began : SUBSET Tasks]]
    BY DEF IInv, TypeOK
  <1>3. /\ \A u \in Tasks : u # t => resolver'[u] = resolver[u]
        /\ resolver'[t] = IF resolver[t] = "pending" THEN "cancelled" ELSE resolver[t]
    BY <1>1, <1>2
  <1>4. Settled(t)' /\ \A u \in Tasks : Settled(u) => Settled(u)' BY <1>3 DEF Settled
  <1>5. /\ \A d \in Cancels : d # c => cancels'[d] = cancels[d]
        /\ cancels'[c].at = "tasks" /\ cancels'[c].awaits = cancels[c].awaits \ {t}
        /\ cancels'[c].by = cancels[c].by
    BY <1>1, <1>2
  <1>6. (AllOver => AllOver') /\ (GroupCancelled => GroupCancelled') BY <1>1, <1>4, StaysCancelled
  <1>7. \A d \in Cancels : Live(d)' => Live(d)
    <2>1. Live(c)' => Live(c) BY <1>1, <1>5 DEF Live, Waits, Hangs
    <2>2. ASSUME NEW d \in Cancels, d # c, Live(d)' PROVE Live(d)
      BY <1>1, <1>5, <2>2 DEF Live, Waits, Hangs
    <2> QED BY <2>1, <2>2
  <1>8. \A u \in Tasks : Busy(u)' <=> Busy(u) BY <1>1 DEF Busy
  <1>9. pc[t] \notin {"none", "queued"} BY <1>1 DEF IInv, Awaited
  <1>10. TypeOK'
    <2>1. resolver' \in [Tasks -> Outcomes] BY <1>1, <1>2 DEF Outcomes
    <2>2. cancels' \in [Cancels -> [at : CancelAt, force : BOOLEAN, awaits : SUBSET Tasks,
                                    by : {"none", "user", "bail", "close"}, began : SUBSET Tasks]]
      BY <1>1, <1>2
    <2> QED BY <1>1, <2>1, <2>2 DEF IInv, TypeOK, Ids, maxWorkers
  <1>11. WaitingTasks'
    <2>1. \A u \in Tasks : pc[u] \in {"none", "queued"} => resolver'[u] = resolver[u] BY <1>3, <1>9
    <2> QED BY <1>1, <2>1 DEF IInv, WaitingTasks, InGroup
  <1>12. EndedTasks'
    <2>1. \A g \in Groups : InGroup(g) \subseteq Tasks BY GroupFacts
    <2>2. \A u \in Tasks : resolver'[u] = resolver[u] \/ resolver'[u] = "cancelled" BY <1>3
    <2> QED BY <1>1, <1>4, <2>1, <2>2 DEF IInv, EndedTasks, InGroup
  <1>13. BusyTasks' BY <1>1, <1>8 DEF IInv, BusyTasks, InGroup
  <1>14. ActiveTasks' BY <1>1, <1>2, <1>4, <1>6, <1>8 DEF IInv, ActiveTasks
  <1>15. Runners' BY <1>1, <1>6, <1>8 DEF IInv, Runners
  <1>16. Slots' BY <1>1, <1>6, <1>8 DEF IInv, Slots, Ids, maxWorkers
  <1>17. Cancelling'
    <2>1. \A d \in Cancels : cancels'[d].by = cancels[d].by BY <1>5
    <2> QED BY <1>1, <1>6, <1>7, <2>1 DEF IInv, Cancelling
  <1>18. Awaited'
    <2>1. \A d \in Cancels :
            /\ cancels'[d].at = cancels[d].at /\ cancels'[d].awaits \subseteq cancels[d].awaits
            /\ (cancels[d].at # "tasks" => cancels'[d] = cancels[d])
      BY <1>1, <1>5
    <2>2. ASSUME NEW d \in Cancels, cancels'[d].at = "tasks", NEW u \in cancels'[d].awaits
          PROVE  /\ runnerOf[u] \in Tasks /\ pc[u] \notin {"none", "queued"}
                 /\ \/ u \in activeTasks \/ runnerOf[u] \in exitPromises
                    \/ rstate[runnerOf[u]] \in {"stopped", "crashed"}
                 /\ mapOf[u] = group => GroupCancelled'
      BY <1>6, <2>1, <2>2 DEF IInv, Awaited
    <2>3. ASSUME NEW d \in Cancels, Live(d)', cancels'[d].at = "tasks", NEW u \in activeTasks
          PROVE  u \in cancels'[d].awaits \/ (rstate[runnerOf[u]] = "stopped" /\ Settled(u)')
      <3>1. u \in cancels[d].awaits \/ (rstate[runnerOf[u]] = "stopped" /\ Settled(u))
        BY <1>7, <2>1, <2>3 DEF IInv, Awaited
      <3>2. CASE u = t BY <1>1, <1>4, <3>2
      <3>3. CASE u # t BY <1>2, <1>4, <1>5, <3>1, <3>3
      <3> QED BY <3>2, <3>3
    <2>4. ~isCancelling => \A d \in Cancels : Live(d)' =>
            activeTasks = {} /\ \A r \in exitPromises : rstate[r] = "stopped"
      BY <1>7 DEF IInv, Awaited
    <2>5. \A d \in Cancels :
            /\ (cancels'[d].at \in {"shared", "exits"} => activeTasks = {})
            /\ (cancels'[d].at = "shared" => cancels'[d].awaits = {} /\ cancels'[d].began = {})
            /\ (cancels'[d].at = "exits" =>
                  /\ \A r \in exitPromises : rstate[r] = "stopped" \/ r \in cancels'[d].awaits
                  /\ \A r \in cancels'[d].awaits : rstate[r] = "stopped" \/ r \in exitPromises)
      BY <2>1 DEF IInv, Awaited
    <2> QED BY <1>1, <2>2, <2>3, <2>4, <2>5 DEF Awaited
  <1>19. ClosedPoolIsStill'
    <2>1. \A d \in Cancels : cancels'[d].by = cancels[d].by /\ cancels'[d].at = cancels[d].at BY <1>1, <1>5
    <2> QED BY <1>1, <2>1 DEF IInv, ClosedPoolIsStill
  <1> QED BY <1>10, <1>11, <1>12, <1>13, <1>14, <1>15, <1>16, <1>17, <1>18, <1>19 DEF IInv

\* A cancel with nothing left to await forgets the active tasks: all have ended.
LEMMA CancelSharedRunnersKeeps ==
  ASSUME IInv, NEW c \in Cancels, CancelSharedRunners(c)
  PROVE  IInv'
  <1>1. /\ cancels[c].at = "tasks" /\ cancels[c].awaits = {} /\ activeTasks' = {}
        /\ sharedRunners = {}
        /\ rstate' = [r \in Tasks |-> IF r \in sharedRunners THEN StopEffect(rstate[r]) ELSE rstate[r]]
        /\ cancels' = [cancels EXCEPT ![c].at = "shared", ![c].awaits = sharedRunners, ![c].began = {}]
        /\ UNCHANGED <<queue, sharedRunners, exitPromises, freeIds, isCancelling, group, toSubmit,
                       ctxCancelling, cancelPromise, pc, resolver, runnerOf, mapOf, poolId, link, stopWanted, graceful>>
    BY DEF CancelSharedRunners, StopsGracefully, taskVars, IInv, Runners
  <1>2. /\ rstate \in [Tasks -> RunnerStates] /\ activeTasks \subseteq Tasks
        /\ cancels \in [Cancels -> [at : CancelAt, force : BOOLEAN, awaits : SUBSET Tasks,
                                    by : {"none", "user", "bail", "close"}, began : SUBSET Tasks]]
    BY DEF IInv, TypeOK
  <1>3. rstate' = rstate BY <1>1, <1>2
  <1>4. /\ \A d \in Cancels : d # c => cancels'[d] = cancels[d]
        /\ cancels'[c].at = "shared" /\ cancels'[c].awaits = {} /\ cancels'[c].began = {}
        /\ cancels'[c].by = cancels[c].by
    BY <1>1, <1>2
  <1>5. Live(c) BY <1>1 DEF Live, Waits, Hangs
  <1>6. GroupCancelled BY <1>5 DEF IInv, Cancelling
  <1>7. \A t \in activeTasks : rstate[runnerOf[t]] = "stopped" /\ Settled(t)
    BY <1>1, <1>5 DEF IInv, Awaited
  <1>8. queue = <<>> BY <1>6, WaitingMeansAccepting
  <1>9. (GroupCancelled' <=> GroupCancelled) /\ (AllOver' <=> AllOver) /\ maxWorkers' = maxWorkers /\ Ids' = Ids
    BY <1>1 DEF GroupCancelled, AllOver, GroupSettled, Settled, InGroup, maxWorkers, Ids
  <1>10. \A u \in Tasks : (Busy(u)' <=> Busy(u)) /\ (Settled(u)' <=> Settled(u))
    BY <1>1 DEF Busy, Settled
  <1>11. \A d \in Cancels : d # c => (Live(d)' <=> Live(d))
    BY <1>1, <1>3, <1>4, ZenonT(60) DEF Live, Waits, Hangs
  <1>12. TypeOK'
    <2>1. cancels' \in [Cancels -> [at : CancelAt, force : BOOLEAN, awaits : SUBSET Tasks,
                                    by : {"none", "user", "bail", "close"}, began : SUBSET Tasks]]
      <3>1. cancels' = [cancels EXCEPT ![c].at = "shared", ![c].awaits = {}, ![c].began = {}] BY <1>1
      <3>2. "shared" \in CancelAt /\ {} \in SUBSET Tasks BY DEF CancelAt
      <3> QED BY ONLY <1>2, <3>1, <3>2, c \in Cancels, ZenonT(60)
    <2> QED BY <1>1, <1>3, <1>9, <2>1 DEF IInv, TypeOK
  <1>13. WaitingTasks' BY <1>1, <1>3 DEF IInv, WaitingTasks, InGroup
  <1>14. EndedTasks' BY <1>1 DEF IInv, EndedTasks, InGroup, Settled
  <1>15. BusyTasks' BY <1>1, <1>3, <1>10 DEF IInv, BusyTasks, InGroup
  <1>16. ActiveTasks' BY <1>1, <1>3, <1>6, <1>7, <1>9, <1>10 DEF IInv, ActiveTasks
  <1>17. Runners' BY <1>1, <1>3, <1>9, <1>10 DEF IInv, Runners
  <1>18. Slots' BY <1>1, <1>6, <1>8, <1>9, <1>10 DEF IInv, Slots
  <1>19. Cancelling'
    <2>1. \A d \in Cancels : cancels'[d].by = cancels[d].by BY <1>4
    <2> QED BY <1>1, <1>6, <1>9, <2>1 DEF IInv, Cancelling
  <1>20. Awaited'
    <2>1. ASSUME NEW d \in Cancels, cancels'[d].at = "tasks", NEW u \in cancels'[d].awaits
          PROVE  /\ runnerOf[u] \in Tasks /\ pc[u] \notin {"none", "queued"}
                 /\ runnerOf[u] \in exitPromises \/ rstate[runnerOf[u]] \in {"stopped", "crashed"}
      <3>1. d # c /\ cancels'[d] = cancels[d] BY <1>4, <2>1
      <3> QED BY <1>7, <2>1, <3>1 DEF IInv, Awaited
    <2>2. \A d \in Cancels : cancels'[d].at = "shared" => cancels'[d].awaits = {} /\ cancels'[d].began = {}
      BY <1>4 DEF IInv, Awaited
    <2>3. \A d \in Cancels : cancels'[d].at = "exits" =>
            /\ \A r \in exitPromises : rstate[r] = "stopped" \/ r \in cancels'[d].awaits
            /\ \A r \in cancels'[d].awaits : rstate[r] = "stopped" \/ r \in exitPromises
      <3>1. \A d \in Cancels : cancels'[d].at = "exits" => cancels'[d] = cancels[d] BY <1>4
      <3> QED BY <3>1 DEF IInv, Awaited
    <2>4. ~isCancelling => \A r \in exitPromises : rstate[r] = "stopped"
      BY <1>5 DEF IInv, Awaited
    <2> QED BY <1>1, <1>3, <1>6, <1>9, <2>1, <2>2, <2>3, <2>4 DEF Awaited
  <1>21. ClosedPoolIsStill'
    <2>1. \A d \in Cancels : cancels'[d].at = "done" => cancels'[d] = cancels[d] BY <1>4
    <2> QED BY <1>3, <2>1 DEF IInv, ClosedPoolIsStill
  <1> QED BY <1>12, <1>13, <1>14, <1>15, <1>16, <1>17, <1>18, <1>19, <1>20, <1>21 DEF IInv

LEMMA CancelExitPromisesKeeps ==
  ASSUME IInv, NEW c \in Cancels, CancelExitPromises(c)
  PROVE  IInv'
  <1>1. /\ cancels[c].at = "shared" /\ sharedRunners' = {}
        /\ cancels' = [cancels EXCEPT ![c].at = "exits", ![c].awaits = exitPromises]
        /\ UNCHANGED <<queue, activeTasks, exitPromises, freeIds, isCancelling, group, toSubmit,
                       ctxCancelling, cancelPromise, pc, resolver, runnerOf, mapOf,
                       poolId, rstate, link, stopWanted, graceful>>
    BY DEF CancelExitPromises, taskVars, runnerVars
  <1>2. /\ activeTasks = {} /\ sharedRunners = {} /\ exitPromises \subseteq Tasks
        /\ cancels \in [Cancels -> [at : CancelAt, force : BOOLEAN, awaits : SUBSET Tasks,
                                    by : {"none", "user", "bail", "close"}, began : SUBSET Tasks]]
    BY <1>1 DEF IInv, TypeOK, Awaited, Runners
  <1>3. /\ \A d \in Cancels : d # c => cancels'[d] = cancels[d]
        /\ cancels'[c].at = "exits" /\ cancels'[c].awaits = exitPromises /\ cancels'[c].by = cancels[c].by
    BY <1>1, <1>2
  <1>4. Live(c) BY <1>1 DEF Live, Waits, Hangs
  <1>5. (GroupCancelled' <=> GroupCancelled) /\ (AllOver' <=> AllOver) /\ maxWorkers' = maxWorkers /\ Ids' = Ids
    BY <1>1 DEF GroupCancelled, AllOver, GroupSettled, Settled, InGroup, maxWorkers, Ids
  <1>6. \A u \in Tasks : (Busy(u)' <=> Busy(u)) /\ (Settled(u)' <=> Settled(u))
    BY <1>1 DEF Busy, Settled
  <1>7. \A d \in Cancels : Live(d)' => Live(d)
    <2>1. \A d \in Cancels : d # c => (Live(d)' => Live(d)) BY <1>1, <1>3 DEF Live, Waits, Hangs
    <2> QED BY <1>4, <2>1
  <1>8. TypeOK'
    <2>1. cancels' \in [Cancels -> [at : CancelAt, force : BOOLEAN, awaits : SUBSET Tasks,
                                    by : {"none", "user", "bail", "close"}, began : SUBSET Tasks]]
      BY <1>1, <1>2, ZenonT(60) DEF CancelAt
    <2> QED BY <1>1, <1>5, <2>1 DEF IInv, TypeOK
  <1>9. WaitingTasks' BY <1>1 DEF IInv, WaitingTasks, InGroup
  <1>10. EndedTasks' BY <1>1 DEF IInv, EndedTasks, InGroup, Settled
  <1>11. BusyTasks' BY <1>1, <1>6 DEF IInv, BusyTasks, InGroup
  <1>12. ActiveTasks'
    <2>1. \A t \in Tasks : Busy(t) =>
            rstate[runnerOf[t]] = "stopped" /\ Settled(t) /\ (mapOf[t] = group => GroupCancelled)
      BY <1>2 DEF IInv, ActiveTasks
    <2> QED BY <1>1, <1>2, <1>5, <1>6, <2>1 DEF ActiveTasks
  <1>13. Runners' BY <1>1, <1>5, <1>6 DEF IInv, Runners
  <1>14. Slots' BY <1>1, <1>5, <1>6 DEF IInv, Slots
  <1>15. Cancelling'
    <2>1. \A d \in Cancels : cancels'[d].by = cancels[d].by BY <1>3
    <2> QED BY <1>1, <1>5, <1>7, <2>1 DEF IInv, Cancelling
  <1>16. Awaited'
    <2>1. \A d \in Cancels : cancels'[d].at \in {"tasks", "shared"} => cancels'[d] = cancels[d]
      BY <1>3
    <2>2. \A d \in Cancels : cancels'[d].at = "exits" =>
            /\ \A r \in exitPromises : rstate[r] = "stopped" \/ r \in cancels'[d].awaits
            /\ \A r \in cancels'[d].awaits : rstate[r] = "stopped" \/ r \in exitPromises
      BY <1>3 DEF IInv, Awaited
    <2>3. ASSUME NEW d \in Cancels, cancels'[d].at = "tasks", NEW u \in cancels'[d].awaits
          PROVE  /\ runnerOf[u] \in Tasks /\ pc[u] \notin {"none", "queued"}
                 /\ \/ u \in activeTasks \/ runnerOf[u] \in exitPromises
                    \/ rstate[runnerOf[u]] \in {"stopped", "crashed"}
                 /\ mapOf[u] = group => GroupCancelled
      BY <2>1, <2>3 DEF IInv, Awaited
    <2>4. \A d \in Cancels : cancels'[d].at = "shared" => cancels'[d].awaits = {} /\ cancels'[d].began = {}
      BY <2>1 DEF IInv, Awaited
    <2>5. ~isCancelling => \A d \in Cancels : Live(d)' => \A r \in exitPromises : rstate[r] = "stopped"
      BY <1>7 DEF IInv, Awaited
    <2> QED BY <1>1, <1>2, <1>5, <2>2, <2>3, <2>4, <2>5 DEF Awaited
  <1>17. ClosedPoolIsStill'
    <2>1. \A d \in Cancels : cancels'[d].at = "done" => cancels'[d] = cancels[d] BY <1>3
    <2> QED BY <1>1, <2>1 DEF IInv, ClosedPoolIsStill
  <1> QED BY <1>8, <1>9, <1>10, <1>11, <1>12, <1>13, <1>14, <1>15, <1>16, <1>17 DEF IInv

\* A cancel returns when no worker is left: every id is free.
LEMMA CancelEndKeeps ==
  ASSUME IInv, NEW c \in Cancels, CancelEnd(c)
  PROVE  IInv'
  <1>1. /\ cancels[c].at = "exits" /\ StoppedAll(c)
        /\ exitPromises' = {} /\ freeIds' = Ids /\ isCancelling' = FALSE
        /\ cancels' = [cancels EXCEPT ![c].at = "done", ![c].awaits = {}]
        /\ cancelPromise' \in {cancelPromise, 0}
        /\ UNCHANGED <<queue, activeTasks, sharedRunners, group, toSubmit, ctxCancelling,
                       pc, resolver, runnerOf, mapOf, poolId, rstate, link, stopWanted, graceful>>
    BY DEF CancelEnd, taskVars, runnerVars
  <1>2. /\ activeTasks = {} /\ sharedRunners = {} /\ exitPromises \subseteq Tasks
        /\ cancels \in [Cancels -> [at : CancelAt, force : BOOLEAN, awaits : SUBSET Tasks,
                                    by : {"none", "user", "bail", "close"}, began : SUBSET Tasks]]
    BY <1>1 DEF IInv, TypeOK, Awaited, Runners
  <1>3. /\ \A d \in Cancels : d # c => cancels'[d] = cancels[d]
        /\ cancels'[c].at = "done" /\ cancels'[c].awaits = {} /\ cancels'[c].by = cancels[c].by
    BY <1>1, <1>2
  <1>4. Live(c) BY <1>1 DEF Live, Waits, Hangs
  <1>5. GroupCancelled BY <1>4 DEF IInv, Cancelling
  <1>6. queue = <<>> BY <1>5, WaitingMeansAccepting
  <1>7. (GroupCancelled' <=> GroupCancelled) /\ (AllOver' <=> AllOver) /\ maxWorkers' = maxWorkers /\ Ids' = Ids
    BY <1>1 DEF GroupCancelled, AllOver, GroupSettled, Settled, InGroup, maxWorkers, Ids
  <1>8. \A u \in Tasks : (Busy(u)' <=> Busy(u)) /\ (Settled(u)' <=> Settled(u))
    BY <1>1 DEF Busy, Settled
  <1>9. \A r \in exitPromises : rstate[r] = "stopped"
    <2>1. \A r \in exitPromises : rstate[r] \in {"stopping", "stopped"} BY DEF IInv, Runners
    <2>2. \A r \in exitPromises : rstate[r] = "stopped" \/ r \in cancels[c].awaits
      BY <1>1 DEF IInv, Awaited
    <2>3. \A r \in cancels[c].awaits : rstate[r] \in {"stopped", "crashed"}
      BY <1>1 DEF StoppedAll, IsTerminated
    <2> QED BY <2>1, <2>2, <2>3
  <1>10. TypeOK'
    <2>1. cancels' \in [Cancels -> [at : CancelAt, force : BOOLEAN, awaits : SUBSET Tasks,
                                    by : {"none", "user", "bail", "close"}, began : SUBSET Tasks]]
      BY <1>1, <1>2, ZenonT(60) DEF CancelAt
    <2> QED BY <1>1, <1>7, <2>1 DEF IInv, TypeOK
  <1>11. WaitingTasks' BY <1>1 DEF IInv, WaitingTasks, InGroup
  <1>12. EndedTasks' BY <1>1 DEF IInv, EndedTasks, InGroup, Settled
  <1>13. BusyTasks' BY <1>1, <1>8 DEF IInv, BusyTasks, InGroup
  <1>14. ActiveTasks'
    <2>1. \A t \in Tasks : Busy(t) =>
            rstate[runnerOf[t]] = "stopped" /\ Settled(t) /\ (mapOf[t] = group => GroupCancelled)
      BY <1>2 DEF IInv, ActiveTasks
    <2> QED BY <1>1, <1>2, <1>7, <1>8, <2>1 DEF ActiveTasks
  <1>15. Runners'
    <2>1. \A r \in Tasks : rstate[r] = "stopping" => \E t \in Tasks : Busy(t) /\ runnerOf[t] = r
      BY <1>9 DEF IInv, Runners
    <2> QED BY <1>1, <1>5, <1>7, <1>8, <2>1 DEF IInv, Runners
  <1>16. Slots' BY <1>1, <1>2, <1>5, <1>6, <1>7, <1>8 DEF IInv, Slots
  <1>17. Cancelling'
    <2>1. \A d \in Cancels : cancels'[d].by = cancels[d].by BY <1>3
    <2> QED BY <1>1, <1>5, <1>7, <2>1 DEF IInv, Cancelling
  <1>18. Awaited'
    <2>1. \A d \in Cancels : cancels'[d].at \in {"tasks", "shared", "exits"} => cancels'[d] = cancels[d]
      BY <1>3
    <2>2. ASSUME NEW d \in Cancels, cancels'[d].at = "tasks", NEW u \in cancels'[d].awaits
          PROVE  /\ runnerOf[u] \in Tasks /\ pc[u] \notin {"none", "queued"}
                 /\ rstate[runnerOf[u]] \in {"stopped", "crashed"}
      BY <1>2, <1>9, <2>1, <2>2 DEF IInv, Awaited
    <2>3. \A d \in Cancels : cancels'[d].at = "exits" =>
            \A r \in cancels'[d].awaits : rstate[r] = "stopped"
      BY <1>9, <2>1 DEF IInv, Awaited
    <2>4. \A d \in Cancels : cancels'[d].at = "shared" => cancels'[d].awaits = {} /\ cancels'[d].began = {}
      BY <2>1 DEF IInv, Awaited
    <2> QED BY <1>1, <1>2, <1>5, <1>7, <2>2, <2>3, <2>4 DEF Awaited
  <1>19. \A r \in Tasks : rstate[r] \in {"idle", "stopped", "crashed"}
    <2>1. \A t \in Tasks : Busy(t) => rstate[runnerOf[t]] = "stopped" BY <1>2 DEF IInv, ActiveTasks
    <2>2. \A r \in Tasks : rstate[r] \in {"starting", "started", "failed", "stopping"} =>
            r \in exitPromises \/ \E t \in Tasks : Busy(t) /\ runnerOf[t] = r
      BY DEF IInv, Runners
    <2>3. \A r \in Tasks : rstate[r] \in RunnerStates BY DEF IInv, TypeOK
    <2> QED BY <1>9, <2>1, <2>2, <2>3 DEF RunnerStates
  <1>20. ClosedPoolIsStill' BY <1>1, <1>19 DEF ClosedPoolIsStill
  <1> QED BY <1>10, <1>11, <1>12, <1>13, <1>14, <1>15, <1>16, <1>17, <1>18, <1>20 DEF IInv

-----------------------------------------------------------------------------
(* The invariant.                                                          *)

LEMMA InitKeeps == Init => IInv
  <1> SUFFICES ASSUME Init PROVE IInv OBVIOUS
  <1>1. /\ group = 0 /\ toSubmit = <<>> /\ queue = <<>>
        /\ activeTasks = {} /\ sharedRunners = {} /\ exitPromises = {} /\ freeIds = {}
        /\ isCancelling = FALSE /\ ctxCancelling = FALSE /\ cancelPromise = 0
        /\ cancels = [c \in Cancels |-> [at |-> "idle", force |-> FALSE, awaits |-> {}, by |-> "none", began |-> {}]]
        /\ pc = [t \in Tasks |-> "none"] /\ resolver = [t \in Tasks |-> "pending"]
        /\ runnerOf = [t \in Tasks |-> NoTask] /\ mapOf = [t \in Tasks |-> 0]
        /\ poolId = [r \in Tasks |-> 0] /\ rstate = [r \in Tasks |-> "idle"]
        /\ link = [r \in Tasks |-> "up"] /\ stopWanted = {} /\ graceful = {}
    BY DEF Init
  <1>2. /\ \A t \in Tasks : pc[t] = "none" /\ resolver[t] = "pending" /\ rstate[t] = "idle" /\ mapOf[t] = 0
        /\ \A c \in Cancels : cancels[c].at = "idle" /\ cancels[c].by = "none"
        /\ \A t \in Tasks : ~Busy(t)
    BY <1>1 DEF Busy
  <1>3. \A g \in Groups : g > 0 /\ InGroup(g) \subseteq Tasks BY GroupFacts
  <1>4. \A c \in Cancels : ~Live(c) BY <1>2 DEF Live, Waits
  <1>5. TypeOK
    <2>1. cancels \in [Cancels -> [at : CancelAt, force : BOOLEAN, awaits : SUBSET Tasks,
                                   by : {"none", "user", "bail", "close"}, began : SUBSET Tasks]]
      BY <1>1 DEF CancelAt
    <2>2. 0 \in 0..Len(Plan) BY GroupFacts
    <2>3. /\ pc \in [Tasks -> {"none", "queued", "starting", "startSettled", "running", "done"}]
          /\ resolver \in [Tasks -> Outcomes] /\ rstate \in [Tasks -> RunnerStates]
          /\ link \in [Tasks -> {"up", "broken", "exited", "killed"}]
      BY <1>1 DEF Outcomes, RunnerStates
    <2>4. /\ runnerOf \in [Tasks -> Tasks \cup {NoTask}] /\ poolId \in [Tasks -> Nat]
          /\ mapOf \in [Tasks -> 0..Len(Plan)]
      BY <1>1, <2>2
    <2>5. toSubmit \in Seq(Tasks) /\ queue \in Seq(Tasks) BY <1>1
    <2> QED BY <1>1, <2>1, <2>2, <2>3, <2>4, <2>5 DEF TypeOK
  <1>6. WaitingTasks BY <1>1, <1>2, <1>3 DEF WaitingTasks
  <1>7. EndedTasks
    <2>1. \A g \in Groups : ~(g < 0) BY GroupFacts
    <2> QED BY <1>1, <1>2, <2>1 DEF EndedTasks
  <1>8. BusyTasks BY <1>2 DEF BusyTasks
  <1>9. ActiveTasks BY <1>1, <1>2 DEF ActiveTasks
  <1>10. Runners BY <1>1, <1>2 DEF Runners
  <1>11. Slots
    <2>1. Ids = {} BY <1>1 DEF Ids, maxWorkers
    <2> QED BY <1>1, <1>2, <2>1 DEF Slots
  <1>12. Cancelling BY <1>1, <1>2, <1>4 DEF Cancelling
  <1>13. Awaited BY <1>1, <1>2, <1>4 DEF Awaited
  <1>14. ClosedPoolIsStill BY <1>2 DEF ClosedPoolIsStill
  <1> QED BY <1>5, <1>6, <1>7, <1>8, <1>9, <1>10, <1>11, <1>12, <1>13, <1>14 DEF IInv

LEMMA NextKeeps ==
  ASSUME IInv, LateTasks, LateAreAlone, [Next]_vars
  PROVE  IInv'
  <1>1. CASE UNCHANGED vars
    <2>1. UNCHANGED <<poolVars, ctxVars, pc, resolver, runnerOf, mapOf, poolId, rstate, link, stopWanted, graceful>>
      BY <1>1 DEF vars, taskVars, runnerVars
    <2>2. resolver \in [Tasks -> Outcomes] /\ rstate \in [Tasks -> RunnerStates]
          /\ link \in [Tasks -> {"up", "broken", "exited", "killed"}]
      BY DEF IInv, TypeOK
    <2>3. TypeOK' /\ GoesOn BY <2>1, <2>2, SettlingGoesOn
    <2> QED BY <2>3, GoesOnKeeps
  <1>2. CASE Submit BY <1>2, SubmitKeeps
  <1>3. CASE NextGroup \/ StartRun BY <1>3, OpensGroupKeeps
  <1>4. ASSUME NEW t \in Tasks, AfterStart(t) \/ Continue(t) \/ StopAfterLock(t) PROVE IInv'
    BY <1>4, AfterStartGoesOn, StopAfterLockGoesOn, GoesOnKeeps, ContinueKeeps
  <1>5. ASSUME NEW c \in Cancels,
               \/ CancelSharedRunners(c) \/ CancelExitPromises(c) \/ CancelEnd(c)
               \/ \E t \in Tasks : CancelTaskSettles(c, t)
        PROVE  IInv'
    BY <1>5, CancelSharedRunnersKeeps, CancelExitPromisesKeeps, CancelEndKeeps, CancelTaskSettlesKeeps
  <1>6. ASSUME \/ \E r \in Tasks :
                    \/ StartOk(r) \/ StartFail(r) \/ StopDone(r) \/ StopTimesOut(r)
                    \/ BreakChannel(r) \/ HeldErrorAtStart(r) \/ HeldError(r)
                    \/ \E how \in {"exited", "killed"} : ExitAtStart(r, how) \/ Exit(r, how)
               \/ \E t \in Tasks :
                    StartTimer(t) \/ \E outcome \in {"resolved", "memoryLimit"} : Finish(t, outcome)
        PROVE  IInv'
    BY <1>6, EventsGoOn, GoesOnKeeps
  <1>7. ASSUME NEW c \in Cancels, Close(c) PROVE IInv' BY <1>7, CancelCallKeeps
  <1>8. ASSUME NEW c \in Cancels, NEW by \in CancelledBy, CancelCurrentRun(c, by) PROVE IInv'
    BY <1>8, CancelsAssumption, CancelCallKeeps
  <1> QED BY <1>1, <1>2, <1>3, <1>4, <1>5, <1>6, <1>7, <1>8 DEF Next, Resumed

-----------------------------------------------------------------------------
(* Late starts, and workers that are gone.                                 *)

\* A step of a group that settles no task in its start unless that is slow.
LEMMA StaysLate ==
  ASSUME LateTasks, group' = group,
         \A t \in Tasks : Busy(t)' => \/ /\ Busy(t) /\ mapOf'[t] = mapOf[t]
                                         /\ pc'[t] = "starting" /\ Settled(t)' =>
                                              t \in SlowStart \/ (pc[t] = "starting" /\ Settled(t))
                                      \/ mapOf'[t] = group /\ ~Settled(t)'
  PROVE  LateTasks'
  BY DEF LateTasks

\* A step of schedule() or of a cancel, and an event.
LEMMA GoesOnLate ==
  ASSUME IInv, LateTasks, GoesOn,
         \A t \in Tasks : pc[t] = "starting" /\ pc'[t] = "starting" /\ Settled(t)' =>
           t \in SlowStart \/ Settled(t)
  PROVE  LateTasks'
  <1>1. \A t \in Tasks : Busy(t)' => Busy(t) /\ mapOf'[t] = mapOf[t] BY DEF GoesOn
  <1>2. ASSUME NEW t \in Tasks, Busy(t), pc'[t] = "starting" PROVE pc[t] = "starting"
    <2>1. runnerOf[t] \in Tasks /\ rstate'[runnerOf[t]] = "starting"
      BY <1>2, Continuing DEF GoesOn
    <2>2. rstate[runnerOf[t]] = "starting" BY <2>1 DEF GoesOn
    <2> QED BY <1>2, <2>2 DEF IInv, BusyTasks
  <1>3. group' = group BY DEF GoesOn, ctxVars
  <1> QED BY <1>1, <1>2, <1>3, StaysLate

LEMMA EventsLate ==
  ASSUME IInv, LateTasks,
         \/ \E r \in Tasks :
              \/ StartOk(r) \/ StartFail(r) \/ StopDone(r) \/ StopTimesOut(r)
              \/ BreakChannel(r) \/ HeldErrorAtStart(r) \/ HeldError(r)
              \/ \E how \in {"exited", "killed"} : ExitAtStart(r, how) \/ Exit(r, how)
         \/ \E t \in Tasks :
              StartTimer(t) \/ \E outcome \in {"resolved", "memoryLimit"} : Finish(t, outcome)
  PROVE  LateTasks'
  <1> DEFINE Late == \A t \in Tasks : pc[t] = "starting" /\ pc'[t] = "starting" /\ Settled(t)' =>
                       t \in SlowStart \/ Settled(t)
  <1>1. GoesOn BY EventsGoOn
  <1>2. pc \in [Tasks -> {"none", "queued", "starting", "startSettled", "running", "done"}]
        /\ resolver \in [Tasks -> Outcomes]
    BY DEF IInv, TypeOK
  <1>3. ASSUME NEW r \in Tasks, NEW state, StartOutcome(r, state) PROVE Late
    <2>1. \A t \in Tasks : pc'[t] = "starting" => pc[t] = "starting" /\ runnerOf[t] # r
      BY <1>3 DEF StartOutcome
    <2>2. resolver' = resolver \/ Reject({t \in Tasks : Listens(t, r)}) BY <1>3 DEF StartOutcome
    <2> QED BY <2>1, <2>2 DEF Reject, Listens, Settled
  <1>4. ASSUME NEW r \in Tasks,
               \/ StartOk(r) \/ StartFail(r) \/ HeldErrorAtStart(r)
               \/ \E how \in {"exited", "killed"} : ExitAtStart(r, how)
        PROVE  Late
    <2>1. \E state : StartOutcome(r, state)
      BY <1>4 DEF StartOk, StartFail, HeldErrorAtStart, ExitAtStart
    <2> HIDE DEF Late
    <2> QED BY <1>3, <2>1
  <1>5. ASSUME NEW r \in Tasks, HeldError(r) \/ \E how \in {"exited", "killed"} : Exit(r, how)
        PROVE  Late
    <2>1. Reject({t \in Tasks : Listens(t, r)}) /\ rstate[r] = "started" BY <1>5 DEF HeldError, Exit
    <2>2. \A t \in Tasks : Listens(t, r) => pc[t] # "starting"
      BY <2>1 DEF Listens, IInv, BusyTasks, Busy
    <2> QED BY <2>1, <2>2 DEF Reject, Settled
  <1>6. ASSUME NEW r \in Tasks, StopDone(r) \/ StopTimesOut(r) \/ BreakChannel(r) PROVE Late
    BY <1>6 DEF StopDone, StopTimesOut, BreakChannel, taskVars, Settled
  <1>7. ASSUME NEW t \in Tasks, StartTimer(t) PROVE Late
    BY <1>7 DEF StartTimer, Reject, Settled
  <1>8. ASSUME NEW t \in Tasks, NEW outcome \in {"resolved", "memoryLimit"}, Finish(t, outcome) PROVE Late
    BY <1>2, <1>8 DEF Finish, Settled
  <1>9. Late BY <1>4, <1>5, <1>6, <1>7, <1>8
  <1> QED BY <1>1, <1>9, GoesOnLate

\* When a group opens only late starts are not through.
LEMMA OpensGroupLate ==
  ASSUME IInv, LateTasks, NextGroup \/ StartRun
  PROVE  LateTasks'
  <1>1. /\ group \in 0..Len(Plan) /\ GroupSettled /\ group' = group + 1
        /\ pc' = pc /\ resolver' = resolver /\ mapOf' = mapOf
    BY DEF NextGroup, StartRun, StartGroup, HasNextGroup, taskVars, IInv, TypeOK
  <1>2. ASSUME NEW t \in Tasks, Busy(t) PROVE Settled(t) /\ mapOf[t] \in 1..group
    <2>1. mapOf[t] \in Groups /\ t \in InGroup(mapOf[t]) BY <1>2, Continuing
    <2>2. mapOf[t] \in 1..group BY <1>2 DEF IInv, BusyTasks
    <2>3. mapOf[t] < group \/ mapOf[t] = group BY <1>1, <2>2, GroupFacts
    <2>4. group > 0 BY <1>1, <2>2, GroupFacts
    <2> QED BY <1>1, <2>1, <2>2, <2>3, <2>4 DEF IInv, EndedTasks, GroupSettled
  <1>3. CASE NextGroup
    <2>1. Plan[group + 1].run = Plan[group].run BY <1>3 DEF NextGroup, HasNextGroup, SameRun
    <2> QED BY <1>1, <2>1 DEF LateTasks, Busy, Settled
  <1>4. CASE StartRun
    <2>1. ASSUME NEW t \in Tasks, Busy(t) PROVE t \in SlowStart
      <3>1. Settled(t) BY <1>2, <2>1
      <3>2. pc[t] = "starting" BY <1>4, <2>1, <3>1 DEF StartRun, Quiescent, Busy
      <3> QED BY <2>1, <3>1, <3>2 DEF LateTasks
    <2> QED BY <1>1, <2>1 DEF LateTasks, Busy
  <1> QED BY <1>3, <1>4

\* Tasks whose place and promise stay.
LEMMA OthersAsBefore ==
  ASSUME NEW u \in Tasks, pc'[u] = pc[u], resolver'[u] = resolver[u]
  PROVE  (Busy(u)' <=> Busy(u)) /\ (Settled(u)' <=> Settled(u))
  BY DEF Settled, Busy

\* A task that begins is pending and of the current group.
LEMMA SubmitLate ==
  ASSUME IInv, LateTasks, Submit
  PROVE  LateTasks'
  <1>0. PICK t : t = Head(toSubmit) OBVIOUS
  <1>1. SubmitFrame /\ toSubmit # <<>> /\ (Skips(t) \/ Enqueues(t) \/ \E id \in freeIds : Begins(t, id))
    BY <1>0, SubmitCases
  <1>2. t \in Tasks /\ pc[t] = "none" /\ resolver[t] = "pending" BY <1>0, <1>1, NextInLoop
  <1>3. group' = group BY <1>1 DEF SubmitFrame
  <1>4. /\ pc \in [Tasks -> {"none", "queued", "starting", "startSettled", "running", "done"}]
        /\ resolver \in [Tasks -> Outcomes] /\ mapOf \in [Tasks -> 0..Len(Plan)]
    BY DEF IInv, TypeOK
  <1>5. \A u \in Tasks : u # t => pc'[u] = pc[u] /\ mapOf'[u] = mapOf[u] /\ resolver'[u] = resolver[u]
    BY <1>1, <1>4 DEF Skips, Enqueues, Begins
  <1>6. pc'[t] \in {"done", "queued"} \/ (mapOf'[t] = group /\ resolver'[t] = "pending")
    BY <1>1, <1>2, <1>4 DEF Skips, Enqueues, Begins
  <1>7. \A u \in Tasks : u # t => (Busy(u)' <=> Busy(u)) /\ (Settled(u)' <=> Settled(u))
    BY <1>5, OthersAsBefore
  <1>8. Busy(t)' => mapOf'[t] = group /\ ~Settled(t)' BY <1>6 DEF Busy, Settled
  <1> QED BY <1>3, <1>5, <1>7, <1>8, StaysLate

LEMMA ContinueLate ==
  ASSUME IInv, LateTasks, LateAreAlone, NEW t \in Tasks, Continue(t)
  PROVE  LateTasks'
  <1>0. PICK h : h = Head(queue) OBVIOUS
  <1>1. /\ pc[t] = "running" /\ Settled(t) /\ ContinueFrame
        /\ Leaves(t) \/ HandsOver(t, h) \/ \E id \in FreedIds(t) : Replaces(t, h, id)
    BY <1>0, ContinueCases
  <1>2. group' = group BY <1>1 DEF ContinueFrame, ctxVars
  <1>3. /\ pc \in [Tasks -> {"none", "queued", "starting", "startSettled", "running", "done"}]
        /\ mapOf \in [Tasks -> 0..Len(Plan)]
    BY DEF IInv, TypeOK
  <1>4. resolver' = resolver BY <1>1 DEF Leaves, HandsOver, Replaces
  <1>5. CASE Leaves(t)
    <2>1. \A u \in Tasks : Busy(u)' => pc'[u] = pc[u] /\ mapOf'[u] = mapOf[u]
      BY <1>3, <1>5 DEF Leaves, Busy
    <2> QED BY <1>2, <1>4, <2>1, StaysLate DEF Busy, Settled
  <1>6. CASE HandsOver(t, h) \/ \E id \in FreedIds(t) : Replaces(t, h, id)
    <2>1. /\ queue # <<>> /\ mapOf' = [mapOf EXCEPT ![h] = group]
          /\ \E v \in {"running", "starting"} : pc' = [pc EXCEPT ![t] = "done", ![h] = v]
      BY <1>6 DEF HandsOver, Replaces
    <2>2. h \in Tasks /\ resolver[h] = "pending" BY <1>0, <2>1, NextInQueue
    <2>3. \A u \in Tasks : Busy(u)' /\ u # h => pc'[u] = pc[u] /\ mapOf'[u] = mapOf[u]
      BY <1>3, <2>1 DEF Busy
    <2>4. mapOf'[h] = group /\ ~Settled(h)' BY <1>3, <1>4, <2>1, <2>2 DEF Settled
    <2> QED BY <1>2, <1>4, <2>3, <2>4, StaysLate DEF Busy, Settled
  <1> QED BY <1>1, <1>5, <1>6

LEMMA CancelLate ==
  ASSUME IInv, LateTasks, NEW c \in Cancels,
         \/ CancelSharedRunners(c) \/ CancelExitPromises(c) \/ CancelEnd(c)
         \/ \E t \in Tasks : CancelTaskSettles(c, t)
         \/ \E by : CancelCall(c, by)
  PROVE  LateTasks'
  <1>1. resolver \in [Tasks -> Outcomes] BY DEF IInv, TypeOK
  <1>2. CASE CancelSharedRunners(c) \/ CancelExitPromises(c) \/ CancelEnd(c)
    BY <1>2 DEF CancelSharedRunners, CancelExitPromises, CancelEnd, taskVars, LateTasks, Busy, Settled
  <1>3. ASSUME NEW t \in Tasks, CancelTaskSettles(c, t) PROVE LateTasks'
    <2>1. /\ rstate[runnerOf[t]] = "stopped" /\ UNCHANGED <<group, pc, mapOf>>
          /\ resolver' = [resolver EXCEPT ![t] = IF @ = "pending" THEN "cancelled" ELSE @]
      BY <1>3 DEF CancelTaskSettles, RejectCancelled
    <2>2. \A u \in Tasks : u # t => resolver'[u] = resolver[u] BY <1>1, <2>1
    <2>3. pc[t] # "starting" BY <2>1 DEF IInv, BusyTasks, Busy
    <2> QED BY <2>1, <2>2, <2>3, StaysLate DEF Busy, Settled
  <1>4. ASSUME NEW by, CancelCall(c, by) PROVE LateTasks'
    <2>0. PICK S : S = {queue[i] : i \in DOMAIN queue} OBVIOUS
    <2>1. /\ UNCHANGED <<group, mapOf>>
          /\ resolver' = [t \in Tasks |-> IF t \in S THEN "cancelled" ELSE resolver[t]]
          /\ pc' = [t \in Tasks |-> IF t \in S THEN "done" ELSE pc[t]]
      BY <1>4, <2>0 DEF CancelCall
    <2>2. \A t \in Tasks : Busy(t)' => pc'[t] = pc[t] /\ resolver'[t] = resolver[t]
      BY <2>1 DEF Busy
    <2> QED BY <2>1, <2>2, StaysLate DEF Busy, Settled
  <1> QED BY <1>2, <1>3, <1>4

LEMMA NextLate ==
  ASSUME IInv, LateTasks, LateAreAlone, [Next]_vars
  PROVE  LateTasks'
  <1>1. CASE UNCHANGED vars BY <1>1 DEF vars, ctxVars, taskVars, LateTasks, Busy, Settled
  <1>2. ASSUME NEW t \in Tasks, AfterStart(t) \/ StopAfterLock(t) PROVE LateTasks'
    <2>1. GoesOn /\ resolver' = resolver
      BY <1>2, AfterStartGoesOn, StopAfterLockGoesOn DEF AfterStart, StopAfterLock, taskVars
    <2> QED BY <2>1, GoesOnLate DEF Settled
  <1>3. ASSUME NEW c \in Cancels, Close(c) \/ \E by \in CancelledBy : CancelCurrentRun(c, by)
        PROVE  LateTasks'
    BY <1>3, CancelLate DEF Close, CancelCurrentRun
  <1> QED BY <1>1, <1>2, <1>3, SubmitLate, OpensGroupLate, ContinueLate, CancelLate, EventsLate
          DEF Next, Resumed

\* A step that ends no worker.
LEMMA StaysGone ==
  ASSUME Gone,
         \A r \in Tasks : /\ r \in graceful => r \in graceful'
                          /\ link[r] \in {"exited", "killed"} => link'[r] \in {"exited", "killed"}
                          /\ rstate'[r] \in {"stopped", "crashed"} =>
                               rstate'[r] = rstate[r] \/ link'[r] \in {"exited", "killed"}
                               \/ (rstate'[r] = "stopped" /\ r \in graceful' \cap CanHang)
  PROVE  Gone'
  BY DEF Gone

\* A runner that was stopped gracefully stays known as such.
LEMMA Grows ==
  ASSUME NEW t \in Tasks, Continue(t)
  PROVE  \A r \in Tasks : r \in graceful => r \in graceful'
  <1>1. graceful' = graceful \/ StopsGracefully({}) \/ StopsGracefully({runnerOf[t]}) BY DEF Continue
  <1> QED BY <1>1 DEF StopsGracefully

LEMMA NextGone ==
  ASSUME IInv, LateTasks, LateAreAlone, Gone, [Next]_vars
  PROVE  Gone'
  <1> DEFINE Stays == \A r \in Tasks : rstate'[r] \in {"stopped", "crashed"} => rstate'[r] = rstate[r]
  <1>0. /\ rstate \in [Tasks -> RunnerStates] /\ link \in [Tasks -> {"up", "broken", "exited", "killed"}]
        /\ sharedRunners = {}
    BY DEF IInv, TypeOK, Runners
  <1>1. ASSUME Stays, UNCHANGED link, \A r \in Tasks : r \in graceful => r \in graceful' PROVE Gone'
    BY <1>1, StaysGone
  <1>2. CASE UNCHANGED vars BY <1>1, <1>2 DEF vars, runnerVars
  <1>3. CASE Submit
    <2>1. PICK t : /\ toSubmit # <<>> /\ t = Head(toSubmit)
                   /\ SubmitFrame /\ (Skips(t) \/ Enqueues(t) \/ \E id \in freeIds : Begins(t, id))
      BY <1>3, SubmitCases
    <2>2. t \in Tasks BY <2>1, NextInLoop
    <2>3. rstate' = rstate \/ rstate' = [rstate EXCEPT ![t] = "starting"]
      BY <2>1 DEF Skips, Enqueues, Begins
    <2>4. Stays BY <1>0, <2>2, <2>3
    <2> QED BY <1>1, <2>1, <2>4 DEF SubmitFrame
  <1>4. CASE NextGroup \/ StartRun
    BY <1>1, <1>4 DEF NextGroup, StartRun, StartGroup, runnerVars
  <1>5. ASSUME NEW t \in Tasks, Continue(t) PROVE Gone'
    <2>1. PICK h : /\ h = Head(queue) /\ pc[t] = "running" /\ Settled(t) /\ ContinueFrame
                   /\ Leaves(t) \/ HandsOver(t, h) \/ \E id \in FreedIds(t) : Replaces(t, h, id)
      BY <1>5, ContinueCases
    <2>2. runnerOf[t] \in Tasks BY <2>1, TaskEnds
    <2>3. queue # <<>> => h \in Tasks BY <2>1, NextInQueue
    <2>4. CASE Leaves(t)
      <3>1. rstate' = [rstate EXCEPT ![runnerOf[t]] = StopEffect(@)] BY <2>4 DEF Leaves
      <3>2. Stays BY <1>0, <2>2, <3>1 DEF StopEffect
      <3> QED BY <1>1, <2>1, <3>2, Grows, <1>5 DEF ContinueFrame
    <2>5. CASE HandsOver(t, h)
      <3>1. rstate' = [rstate EXCEPT ![runnerOf[t]] = IF @ = "started" THEN @ ELSE "starting"]
        BY <2>5 DEF HandsOver
      <3>2. Stays BY <1>0, <2>2, <3>1
      <3> QED BY <1>1, <2>1, <3>2, Grows, <1>5 DEF ContinueFrame
    <2>6. ASSUME NEW id \in FreedIds(t), Replaces(t, h, id) PROVE Gone'
      <3>1. /\ rstate' = [rstate EXCEPT ![runnerOf[t]] = StopEffect(@), ![h] = "starting"]
            /\ h \in Tasks
        BY <2>3, <2>6 DEF Replaces
      <3>2. Stays BY <1>0, <2>2, <3>1 DEF StopEffect
      <3> QED BY <1>1, <2>1, <3>2, Grows, <1>5 DEF ContinueFrame
    <2> QED BY <2>1, <2>4, <2>5, <2>6
  <1>6. ASSUME NEW r \in Tasks, AfterStart(r) \/ StopAfterLock(r) PROVE Gone'
    <2>1. UNCHANGED <<link, graceful>> /\ (rstate' = rstate \/ rstate' = [rstate EXCEPT ![r] = StopEffect(@)])
      BY <1>6 DEF AfterStart, StopAfterLock, runnerVars
    <2>2. Stays BY <1>0, <2>1 DEF StopEffect
    <2> QED BY <1>1, <2>1, <2>2
  <1>7. ASSUME NEW c \in Cancels,
               \/ CancelSharedRunners(c) \/ CancelExitPromises(c) \/ CancelEnd(c)
               \/ \E t \in Tasks : CancelTaskSettles(c, t)
        PROVE  Gone'
    <2>1. CASE CancelSharedRunners(c)
      <3>1. Stays /\ UNCHANGED link /\ graceful \subseteq graceful'
        BY <1>0, <2>1 DEF CancelSharedRunners, StopsGracefully
      <3> QED BY <1>1, <3>1
    <2>2. CASE \/ CancelExitPromises(c) \/ CancelEnd(c)
               \/ \E t \in Tasks : CancelTaskSettles(c, t)
      BY <1>1, <2>2 DEF CancelExitPromises, CancelEnd, CancelTaskSettles, runnerVars
    <2> QED BY <1>7, <2>1, <2>2
  <1>8. ASSUME NEW c \in Cancels, NEW by, CancelCall(c, by) PROVE Gone'
    <2>1. /\ \A r \in Tasks : rstate'[r] \in {rstate[r], StopEffect(rstate[r])}
          /\ UNCHANGED <<link, graceful>>
      BY <1>8 DEF CancelCall
    <2>2. Stays BY <2>1 DEF StopEffect
    <2> QED BY <1>1, <2>1, <2>2
  <1>9. ASSUME NEW r \in Tasks, NEW state \in {"started", "failed"}, StartOutcome(r, state)
        PROVE  Stays /\ UNCHANGED graceful
    BY <1>0, <1>9 DEF StartOutcome
  <1>10. ASSUME NEW r \in Tasks,
                StartOk(r) \/ StartFail(r) \/ BreakChannel(r) \/ HeldErrorAtStart(r) \/ HeldError(r)
         PROVE  Gone'
    <2>1. Stays /\ UNCHANGED graceful
      BY <1>9, <1>10 DEF StartOk, StartFail, BreakChannel, HeldErrorAtStart, HeldError, runnerVars
    <2>2. link' = link \/ (link[r] = "up" /\ link' = [link EXCEPT ![r] = "broken"])
      BY <1>10 DEF StartOk, StartFail, BreakChannel, HeldErrorAtStart, HeldError, runnerVars
    <2> QED BY <1>0, <2>1, <2>2, StaysGone
  <1>11. ASSUME NEW r \in Tasks, NEW how \in {"exited", "killed"}, ExitAtStart(r, how) \/ Exit(r, how)
         PROVE  Gone'
    <2>1. link' = [link EXCEPT ![r] = how] BY <1>11 DEF ExitAtStart, Exit, ProcessEnds
    <2>2. CASE ExitAtStart(r, how)
      <3>1. Stays /\ UNCHANGED graceful BY <1>9, <2>2 DEF ExitAtStart
      <3> QED BY <1>0, <2>1, <3>1, StaysGone
    <2>3. CASE Exit(r, how)
      <3>1. rstate' = [rstate EXCEPT ![r] = "crashed"] /\ UNCHANGED graceful BY <2>3 DEF Exit
      <3> QED BY <1>0, <2>1, <3>1, StaysGone
    <2> QED BY <1>11, <2>2, <2>3
  <1>12. ASSUME NEW r \in Tasks, StopDone(r) \/ StopTimesOut(r) PROVE Gone'
    <2>1. rstate' = [rstate EXCEPT ![r] = "stopped"] /\ UNCHANGED graceful
      BY <1>12 DEF StopDone, StopTimesOut
    <2>2. CASE StopDone(r)
      <3>1. link' = [link EXCEPT ![r] = "exited"] BY <2>2 DEF StopDone
      <3> QED BY <1>0, <2>1, <3>1, StaysGone
    <2>3. CASE StopTimesOut(r)
      <3>1. link' = link /\ r \in graceful \cap CanHang BY <2>3 DEF StopTimesOut
      <3> QED BY <1>0, <2>1, <3>1, StaysGone
    <2> QED BY <1>12, <2>2, <2>3
  <1>13. ASSUME NEW t \in Tasks,
                StartTimer(t) \/ \E outcome \in {"resolved", "memoryLimit"} : Finish(t, outcome)
         PROVE  Gone'
    BY <1>1, <1>13 DEF StartTimer, Finish, runnerVars
  <1> HIDE DEF Stays
  <1> QED BY <1>2, <1>3, <1>4, <1>5, <1>6, <1>7, <1>8, <1>10, <1>11, <1>12, <1>13
          DEF Next, Resumed, Close, CancelCurrentRun

\* The inductive invariant holds of every state of the pool: tasks, slots, ids, shared runners
\* and exit promises agree, whatever is submitted, cancelled, slow, and whatever dies, as long
\* as no runner that starts late fits a task of a later run.
THEOREM PoolInvariant ==
  ASSUME LateAreAlone
  PROVE  Spec => [](IInv /\ LateTasks /\ Gone)
  <1>1. Init => IInv BY InitKeeps
  <1>2. Init => LateTasks /\ Gone BY DEF Init, LateTasks, Gone, Busy
  <1>3. IInv /\ LateTasks /\ Gone /\ [Next]_vars => IInv' /\ LateTasks' /\ Gone'
    BY NextKeeps, NextLate, NextGone
  <1> QED BY <1>1, <1>2, <1>3, PTL DEF Spec

-----------------------------------------------------------------------------
(* What follows from the invariant.                                        *)

\* The variables have their types.
THEOREM PoolTypeOK ==
  ASSUME LateAreAlone
  PROVE  Spec => []TypeOK
  BY PoolInvariant, PTL DEF IInv

\* Files that run at the same time see different VITEST_POOL_IDs, between 1 and
\* maxWorkers, for any groups, isolation, sharing and cancels.
THEOREM PoolDistinctIds ==
  ASSUME LateAreAlone
  PROVE  Spec => []DistinctPoolIds
  <1>1. IInv => DistinctPoolIds
    <2> SUFFICES ASSUME IInv PROVE DistinctPoolIds OBVIOUS
    <2>1. ASSUME NEW t \in Tasks, Working(t) PROVE t \in activeTasks /\ mapOf[t] = group
      <3>1. Busy(t) /\ ~Settled(t) BY <2>1 DEF Working, Busy
      <3>2. t \in activeTasks BY <3>1 DEF IInv, ActiveTasks
      <3>3. mapOf[t] \in Groups /\ t \in InGroup(mapOf[t]) BY <3>1, Continuing
      <3>4. ~(mapOf[t] < group) BY <3>1, <3>3 DEF IInv, EndedTasks
      <3>5. mapOf[t] \in 1..group /\ group \in Nat BY <3>1 DEF IInv, BusyTasks, TypeOK
      <3> QED BY <3>2, <3>4, <3>5
    <2> QED BY <2>1 DEF DistinctPoolIds, IInv, Slots
  <1> QED BY <1>1, PoolInvariant, PTL

\* No task is left behind: run() is never refused, there is an id for every task that
\* schedule() takes, and tasks wait only while every slot is taken.
THEOREM PoolForgetsNoTask ==
  ASSUME LateAreAlone
  PROVE  Spec => []NoTaskForgotten
  <1>1. IInv => NoTaskForgotten BY DEF IInv, EndedTasks, Slots, NoTaskForgotten
  <1> QED BY <1>1, PoolInvariant, PTL

\* A live worker that is not being stopped always has a task whose listeners see its
\* exit, and none is left over among the shared runners.
THEOREM PoolLeavesNoOrphan ==
  ASSUME LateAreAlone
  PROVE  Spec => []NoOrphanRunner
  <1>1. IInv => NoOrphanRunner
    <2> SUFFICES ASSUME IInv, Quiescent, NEW r \in Tasks, rstate[r] \in {"starting", "started"}
                 PROVE  \E t \in Tasks : Listens(t, r)
      BY DEF NoOrphanRunner, IInv, Runners
    <2>1. PICK t \in Tasks : Busy(t) /\ runnerOf[t] = r BY DEF IInv, Runners
    <2>2. pc[t] # "startSettled" BY DEF Quiescent
    <2> QED BY <2>1, <2>2 DEF Busy, Listens
  <1> QED BY <1>1, PoolInvariant, PTL

\* Once close() has returned no worker process is left, neither running nor stopping, but
\* those whose worker did not answer a graceful stop.
THEOREM PoolClosesClean ==
  ASSUME LateAreAlone
  PROVE  Spec => []CloseLeavesNoWorker
  <1>1. IInv /\ Gone => CloseLeavesNoWorker
    BY DEF IInv, ClosedPoolIsStill, Gone, CloseLeavesNoWorker
  <1> QED BY <1>1, PoolInvariant, PTL

\* The life of a runner, step by step.
RunnerMoves ==
  \A r \in Tasks : rstate'[r] # rstate[r] =>
    \/ rstate[r] \in {"idle", "failed"} /\ rstate'[r] = "starting"
    \/ rstate[r] = "starting" /\ rstate'[r] \in {"started", "failed"}
    \/ rstate[r] \in {"started", "failed"} /\ rstate'[r] = "stopping"
    \/ rstate[r] = "stopping" /\ rstate'[r] = "stopped"
    \/ rstate[r] = "started" /\ rstate'[r] = "crashed"

LEMMA NextMoves ==
  ASSUME IInv, LateTasks, LateAreAlone, Next
  PROVE  RunnerMoves
  <1>1. rstate \in [Tasks -> RunnerStates] /\ sharedRunners = {} BY DEF IInv, TypeOK, Runners
  <1>2. ASSUME TypeOK' /\ GoesOn PROVE RunnerMoves BY <1>2 DEF GoesOn, RunnerMoves
  <1>3. CASE Submit
    <2> DEFINE t == Head(toSubmit)
    <2>1. /\ toSubmit # <<>>
          /\ Skips(t) \/ Enqueues(t) \/ \E id \in freeIds : Begins(t, id)
      BY <1>3, SubmitCases
    <2>2. t \in Tasks /\ rstate[t] = "idle" BY <2>1, NextInLoop
    <2> HIDE DEF t
    <2>3. rstate' = rstate \/ rstate' = [rstate EXCEPT ![t] = "starting"]
      BY <2>1 DEF Skips, Enqueues, Begins
    <2> QED BY <1>1, <2>2, <2>3 DEF RunnerMoves
  <1>4. ASSUME NEW t \in Tasks, Continue(t) PROVE RunnerMoves
    <2> DEFINE h == Head(queue)
    <2>1. /\ pc[t] = "running" /\ Settled(t)
          /\ Leaves(t) \/ HandsOver(t, h) \/ \E id \in FreedIds(t) : Replaces(t, h, id)
      BY <1>4, ContinueCases
    <2>2. runnerOf[t] \in Tasks BY <2>1, TaskEnds
    <2>3. queue # <<>> => h \in Tasks /\ rstate[h] = "idle" BY NextInQueue
    <2> HIDE DEF h
    <2>4. CASE Leaves(t) BY <1>1, <2>2, <2>4 DEF Leaves, StopEffect, RunnerMoves
    <2>5. CASE HandsOver(t, h) BY <1>1, <2>2, <2>5 DEF HandsOver, RunnerMoves
    <2>6. ASSUME NEW id \in FreedIds(t), Replaces(t, h, id) PROVE RunnerMoves
      <3>1. /\ h \in Tasks /\ rstate[h] = "idle"
            /\ rstate' = [rstate EXCEPT ![runnerOf[t]] = StopEffect(@), ![h] = "starting"]
        BY <2>3, <2>6 DEF Replaces
      <3> QED BY <1>1, <2>2, <3>1 DEF StopEffect, RunnerMoves
    <2> QED BY <2>1, <2>4, <2>5, <2>6
  <1>5. CASE NextGroup \/ StartRun
    BY <1>5 DEF NextGroup, StartRun, StartGroup, runnerVars, RunnerMoves
  <1>6. ASSUME NEW c \in Cancels,
               \/ CancelSharedRunners(c) \/ CancelExitPromises(c) \/ CancelEnd(c)
               \/ \E t \in Tasks : CancelTaskSettles(c, t)
        PROVE  RunnerMoves
    <2>1. CASE CancelSharedRunners(c) BY <1>1, <2>1 DEF CancelSharedRunners, RunnerMoves
    <2>2. CASE \/ CancelExitPromises(c) \/ CancelEnd(c)
               \/ \E t \in Tasks : CancelTaskSettles(c, t)
      BY <2>2 DEF CancelExitPromises, CancelEnd, CancelTaskSettles, runnerVars, RunnerMoves
    <2> QED BY <1>6, <2>1, <2>2
  <1>7. ASSUME NEW c \in Cancels, NEW by, CancelCall(c, by) PROVE RunnerMoves
    <2>1. \A r \in Tasks : rstate'[r] \in {rstate[r], StopEffect(rstate[r])}
      BY <1>7 DEF CancelCall
    <2> QED BY <2>1 DEF StopEffect, RunnerMoves
  <1>8. ASSUME NEW t \in Tasks, AfterStart(t) \/ StopAfterLock(t) PROVE RunnerMoves
    BY <1>2, <1>8, AfterStartGoesOn, StopAfterLockGoesOn
  <1>9. ASSUME \/ \E r \in Tasks :
                    \/ StartOk(r) \/ StartFail(r) \/ StopDone(r) \/ StopTimesOut(r)
                    \/ BreakChannel(r) \/ HeldErrorAtStart(r) \/ HeldError(r)
                    \/ \E how \in {"exited", "killed"} : ExitAtStart(r, how) \/ Exit(r, how)
               \/ \E t \in Tasks :
                    StartTimer(t) \/ \E outcome \in {"resolved", "memoryLimit"} : Finish(t, outcome)
        PROVE  RunnerMoves
    BY <1>2, <1>9, EventsGoOn
  <1> QED BY <1>3, <1>4, <1>5, <1>6, <1>7, <1>8, <1>9 DEF Next, Resumed, Close, CancelCurrentRun

\* Every runner lives the life of RunnerLifecycle: the pool never starts a runner that is
\* stopping, nor stops one that is gone.
THEOREM PoolKeepsLifecycles ==
  ASSUME LateAreAlone
  PROVE  Spec => KeepsLifecycles
  <1>1. Init => \A r \in Tasks : Life(r)!Init
    BY DEF Init, Life!Init, Life!Idle
  <1>2. IInv /\ LateTasks /\ [Next]_vars => [\A r \in Tasks : rstate'[r] # rstate[r] => Life(r)!Next]_vars
    <2> SUFFICES ASSUME IInv, LateTasks, Next, NEW r \in Tasks, rstate'[r] # rstate[r] PROVE Life(r)!Next
      OBVIOUS
    <2>1. RunnerMoves BY NextMoves
    <2> QED BY <2>1 DEF RunnerMoves, Life!Next, Life!Start, Life!StartSettles, Life!Stop,
                        Life!StopSettles, Life!Crash, Life!Idle, Life!Starting, Life!Started,
                        Life!StartFailure, Life!Stopping, Life!Stopped
  <1> QED BY <1>1, <1>2, PoolInvariant, PTL DEF Spec, KeepsLifecycles

-----------------------------------------------------------------------------
(* The schedule the pool promises.                                         *)

\* The state of a file for whoever started the run.
Status == [t \in Tasks |-> IF Settled(t) THEN "settled" ELSE IF Working(t) THEN "running" ELSE "waiting"]

\* The steps of FileSchedule, said of Status.
LEMMA AsStutter ==
  ASSUME UNCHANGED <<group, ctxCancelling, Status>>
  PROVE  UNCHANGED Schedules!scheduleVars
  BY DEF Schedules!scheduleVars, Status

LEMMA AsSettle ==
  ASSUME NEW t \in Tasks, Status[t] = "running", Status' = [Status EXCEPT ![t] = "settled"],
         UNCHANGED <<group, ctxCancelling>>
  PROVE  Schedules!Next
  BY DEF Status, Schedules!Next, Schedules!Settle

LEMMA SameCardinality ==
  ASSUME NEW S PROVE Schedules!Cardinality(S) = Cardinality(S)
  BY DEF Schedules!Cardinality, Cardinality

LEMMA AsBegin ==
  ASSUME NEW t \in Tasks, ~ctxCancelling, group > 0, t \in InGroup(group), Status[t] = "waiting",
         Cardinality({u \in Tasks : Status[u] = "running"}) < Plan[group].max,
         Status' = [Status EXCEPT ![t] = "running"], UNCHANGED <<group, ctxCancelling>>
  PROVE  Schedules!Next
  <1>1. Schedules!Running = {u \in Tasks : Status[u] = "running"}
    BY DEF Status, Schedules!Running
  <1>2. Schedules!Cardinality(Schedules!Running) < Plan[group].max BY <1>1, SameCardinality
  <1>3. Schedules!Begin(t) BY <1>2 DEF Status, InGroup, Schedules!Begin, Schedules!InGroup
  <1> QED BY <1>3 DEF Schedules!Next

LEMMA AsDrop ==
  ASSUME ctxCancelling', group > 0, group' = group,
         NEW S, S \subseteq {t \in InGroup(group) : Status[t] = "waiting"},
         Status' = [t \in Tasks |-> IF t \in S THEN "settled" ELSE Status[t]]
  PROVE  Schedules!Next
  BY DEF Status, InGroup, Schedules!Next, Schedules!Drop, Schedules!InGroup

LEMMA AsOpenGroup ==
  ASSUME group < Len(Plan), group > 0 => \A t \in InGroup(group) : Status[t] = "settled",
         group' = group + 1,
         ctxCancelling' = (ctxCancelling /\ group > 0 /\ Plan[group + 1].run = Plan[group].run),
         Status' = Status
  PROVE  Schedules!Next
  BY DEF Status, InGroup, Schedules!Next, Schedules!OpenGroup, Schedules!InGroup

LEMMA StatusOf ==
  /\ \A t \in Tasks : Status[t] = IF Settled(t) THEN "settled" ELSE IF Busy(t) THEN "running" ELSE "waiting"
  /\ \A t \in Tasks : Status'[t] = IF Settled(t)' THEN "settled" ELSE IF Busy(t)' THEN "running" ELSE "waiting"
  /\ Status \in [Tasks -> {"settled", "running", "waiting"}]
  /\ Status' \in [Tasks -> {"settled", "running", "waiting"}]
  BY DEF Status, Working, Busy

\* A step that neither begins nor settles a task.
LEMMA NothingHappens ==
  ASSUME UNCHANGED <<group, ctxCancelling>>,
         \A t \in Tasks : (Settled(t)' <=> Settled(t)) /\ (~Settled(t) => (Busy(t)' <=> Busy(t)))
  PROVE  UNCHANGED Schedules!scheduleVars
  <1>1. Status' = Status BY StatusOf
  <1> QED BY <1>1, AsStutter

\* A step that settles one.
LEMMA OneSettles ==
  ASSUME IInv, UNCHANGED <<group, ctxCancelling>>,
         \A t \in Tasks : /\ (Busy(t)' <=> Busy(t)) /\ (Settled(t) => Settled(t)')
                          /\ (~Busy(t) => (Settled(t)' <=> Settled(t))),
         \A t, u \in Tasks : ~Settled(t) /\ Settled(t)' /\ ~Settled(u) /\ Settled(u)' => t = u
  PROVE  Schedules!Next \/ UNCHANGED Schedules!scheduleVars
  <1>1. CASE \A t \in Tasks : Settled(t)' <=> Settled(t) BY <1>1, NothingHappens
  <1>2. ASSUME NEW t \in Tasks, ~Settled(t), Settled(t)'
        PROVE  Schedules!Next
    <2>1. Busy(t) /\ \A u \in Tasks : u # t => (Settled(u)' <=> Settled(u)) BY <1>2
    <2>2. Status[t] = "running" BY <1>2, <2>1, StatusOf
    <2>3. Status' = [Status EXCEPT ![t] = "settled"] BY <1>2, <2>1, StatusOf
    <2> QED BY <2>2, <2>3, AsSettle
  <1> QED BY <1>1, <1>2

\* A step that begins one: the tasks that run have a slot each.
LEMMA OneBegins ==
  ASSUME IInv, UNCHANGED <<group, ctxCancelling>>, ~ctxCancelling, group \in Groups,
         NEW h \in Tasks, h \in InGroup(group), ~Settled(h), ~Busy(h), Busy(h)',
         \A t \in Tasks : (Settled(t)' <=> Settled(t)) /\ (~Settled(t) /\ t # h => (Busy(t)' <=> Busy(t))),
         NEW A \in SUBSET Tasks, Cardinality(A) < maxWorkers,
         \A t \in activeTasks : ~Settled(t) => t \in A
  PROVE  Schedules!Next
  <1>1. group > 0 /\ maxWorkers = Plan[group].max /\ maxWorkers \in Nat
    BY GroupFacts, IdsOfGroup DEF IInv
  <1> DEFINE R == {t \in Tasks : Status[t] = "running"}
  <1>2. R \subseteq A
    <2> SUFFICES ASSUME NEW t \in Tasks, Status[t] = "running" PROVE t \in A OBVIOUS
    <2>1. ~Settled(t) /\ Busy(t) BY StatusOf
    <2> QED BY <2>1 DEF IInv, ActiveTasks
  <1>3. Cardinality(R) <= Cardinality(A) /\ Cardinality(R) \in Nat /\ Cardinality(A) \in Nat
    <2>1. IsFiniteSet(A) BY PlanAssumption, FS_Subset
    <2>2. IsFiniteSet(R) /\ Cardinality(R) <= Cardinality(A) BY <1>2, <2>1, FS_Subset
    <2> QED BY <2>1, <2>2, FS_CardinalityType
  <1>4. Cardinality(R) < Plan[group].max BY <1>1, <1>3
  <1>5. Status[h] = "waiting" BY StatusOf
  <1>6. Status' = [Status EXCEPT ![h] = "running"] BY StatusOf
  <1> QED BY <1>1, <1>4, <1>5, <1>6, AsBegin

LEMMA SubmitOnSchedule ==
  ASSUME IInv, Submit
  PROVE  Schedules!Next \/ UNCHANGED Schedules!scheduleVars
  <1>0. PICK t : t = Head(toSubmit) OBVIOUS
  <1>1. /\ toSubmit # <<>> /\ SubmitFrame
        /\ Skips(t) \/ Enqueues(t) \/ \E id \in freeIds : Begins(t, id)
    BY <1>0, SubmitCases
  <1>2. /\ t \in Tasks /\ group \in Groups /\ t \in InGroup(group) /\ pc[t] = "none" /\ resolver[t] = "pending"
    BY <1>0, <1>1, NextInLoop
  <1>3. ~Settled(t) /\ ~Busy(t) /\ group > 0 BY <1>2, GroupFacts DEF Settled, Busy
  <1>4. group' = group /\ ctxCancelling' = ctxCancelling BY <1>1 DEF SubmitFrame
  <1>5. /\ pc \in [Tasks -> {"none", "queued", "starting", "startSettled", "running", "done"}]
        /\ resolver \in [Tasks -> Outcomes] /\ activeTasks \in SUBSET Tasks
    BY DEF IInv, TypeOK
  <1>6. CASE Skips(t)
    <2>1. /\ ctxCancelling /\ resolver' = [resolver EXCEPT ![t] = "skipped"]
          /\ pc' = [pc EXCEPT ![t] = "done"]
      BY <1>6 DEF Skips
    <2>2. /\ resolver'[t] = "skipped"
          /\ \A u \in Tasks : u # t => pc'[u] = pc[u] /\ resolver'[u] = resolver[u]
      BY <1>2, <1>5, <2>1
    <2>3. Settled(t)' BY <2>2 DEF Settled
    <2>4. \A u \in Tasks : u # t => (Settled(u)' <=> Settled(u)) /\ (Busy(u)' <=> Busy(u))
      BY <2>2, OthersAsBefore
    <2>5. \A u \in Tasks : Status'[u] = IF u \in {t} THEN "settled" ELSE Status[u]
      BY <2>3, <2>4, StatusOf
    <2>6. Status' = [u \in Tasks |-> IF u \in {t} THEN "settled" ELSE Status[u]]
      BY <2>5, StatusOf
    <2>7. Status[t] = "waiting" BY <1>2, <1>3, StatusOf
    <2>8. {t} \subseteq {u \in InGroup(group) : Status[u] = "waiting"} BY <1>2, <2>7
    <2> QED BY ONLY <1>3, <1>4, <2>1, <2>6, <2>8, AsDrop
  <1>7. CASE Enqueues(t)
    <2>1. resolver' = resolver /\ pc' = [pc EXCEPT ![t] = "queued"] BY <1>7 DEF Enqueues
    <2>2. \A u \in Tasks : (Settled(u)' <=> Settled(u)) /\ (Busy(u)' <=> Busy(u))
      <3>1. \A u \in Tasks : u # t => pc'[u] = pc[u] /\ resolver'[u] = resolver[u]
        BY <1>5, <2>1
      <3>2. pc'[t] = "queued" /\ resolver'[t] = resolver[t] BY <1>2, <1>5, <2>1
      <3>3. (Settled(t)' <=> Settled(t)) /\ (Busy(t)' <=> Busy(t))
        BY <1>2, <3>2 DEF Settled, Busy
      <3> QED BY <3>1, <3>3, OthersAsBefore
    <2> QED BY <1>4, <2>2, NothingHappens
  <1>8. ASSUME NEW id \in freeIds, Begins(t, id) PROVE Schedules!Next
    <2>1. /\ ~ctxCancelling /\ Cardinality(activeTasks) < maxWorkers
          /\ resolver' = resolver /\ pc' = [pc EXCEPT ![t] = "starting"]
      BY <1>8 DEF Begins, GroupCancelled
    <2>2. \A u \in Tasks : u # t => pc'[u] = pc[u] /\ resolver'[u] = resolver[u]
      BY <1>5, <2>1
    <2>3. pc'[t] = "starting" /\ resolver'[t] = resolver[t] BY <1>2, <1>5, <2>1
    <2>4. Busy(t)' /\ (Settled(t)' <=> Settled(t)) BY <2>3 DEF Busy, Settled
    <2>5. \A u \in Tasks : (Settled(u)' <=> Settled(u)) /\ (~Settled(u) /\ u # t => (Busy(u)' <=> Busy(u)))
      BY <2>2, <2>4, OthersAsBefore
    <2>6. \A u \in activeTasks : ~Settled(u) => u \in activeTasks OBVIOUS
    <2>7. group \in Groups /\ t \in Tasks /\ t \in InGroup(group) BY <1>2
    <2>8. activeTasks \in SUBSET Tasks /\ Cardinality(activeTasks) < maxWorkers /\ ~ctxCancelling
      BY <1>5, <2>1
    <2>9. UNCHANGED <<group, ctxCancelling>> /\ ~Settled(t) /\ ~Busy(t) /\ Busy(t)' BY <1>3, <1>4, <2>4
    <2> QED BY ONLY IInv, <2>5, <2>6, <2>7, <2>8, <2>9, OneBegins
  <1> QED BY <1>1, <1>6, <1>7, <1>8

LEMMA ContinueOnSchedule ==
  ASSUME IInv, LateTasks, LateAreAlone, NEW t \in Tasks, Continue(t)
  PROVE  Schedules!Next \/ UNCHANGED Schedules!scheduleVars
  <1>0. PICK h : h = Head(queue) OBVIOUS
  <1> DEFINE A == activeTasks \ {t}
  <1>1. /\ pc[t] = "running" /\ Settled(t) /\ ContinueFrame
        /\ Leaves(t) \/ HandsOver(t, h) \/ \E id \in FreedIds(t) : Replaces(t, h, id)
    BY <1>0, ContinueCases
  <1>2. group' = group /\ ctxCancelling' = ctxCancelling BY <1>1 DEF ContinueFrame, ctxVars
  <1>3. pc \in [Tasks -> {"none", "queued", "starting", "startSettled", "running", "done"}]
        /\ activeTasks \in SUBSET Tasks
    BY DEF IInv, TypeOK
  <1>4. CASE Leaves(t)
    <2>1. resolver' = resolver /\ pc' = [pc EXCEPT ![t] = "done"] BY <1>4 DEF Leaves
    <2>2. \A u \in Tasks : u # t => pc'[u] = pc[u] /\ resolver'[u] = resolver[u] BY <1>3, <2>1
    <2>3. Settled(t)' <=> Settled(t) BY <2>1 DEF Settled
    <2>4. \A u \in Tasks : (Settled(u)' <=> Settled(u)) /\ (~Settled(u) => (Busy(u)' <=> Busy(u)))
      BY <1>1, <2>2, <2>3, OthersAsBefore
    <2> QED BY <1>2, <2>4, NothingHappens
  <1>5. ASSUME HandsOver(t, h) \/ \E id \in FreedIds(t) : Replaces(t, h, id)
        PROVE  Schedules!Next
    <2>1. /\ ~ctxCancelling /\ Cardinality(A) < maxWorkers /\ queue # <<>> /\ resolver' = resolver
          /\ \E v \in {"running", "starting"} : pc' = [pc EXCEPT ![t] = "done", ![h] = v]
      <3>1. CASE HandsOver(t, h) BY <3>1 DEF HandsOver, GroupCancelled
      <3>2. ASSUME NEW id \in FreedIds(t), Replaces(t, h, id)
            PROVE  /\ ~ctxCancelling /\ Cardinality(A) < maxWorkers /\ queue # <<>> /\ resolver' = resolver
                   /\ pc' = [pc EXCEPT ![t] = "done", ![h] = "starting"]
        BY <3>2 DEF Replaces, GroupCancelled
      <3> QED BY <1>5, <3>1, <3>2
    <2>2. /\ h \in Tasks /\ group \in Groups /\ h \in InGroup(group) /\ pc[h] = "queued" /\ resolver[h] = "pending"
      BY <1>0, <2>1, NextInQueue
    <2>3. ~Settled(h) /\ ~Busy(h) BY <2>2 DEF Settled, Busy
    <2>4. A \in SUBSET Tasks /\ \A u \in activeTasks : ~Settled(u) => u \in A BY <1>1, <1>3
    <2> HIDE DEF A
    <2>5. PICK v \in {"running", "starting"} : pc' = [pc EXCEPT ![t] = "done", ![h] = v] BY <2>1
    <2>6. \A u \in Tasks : u # t /\ u # h => pc'[u] = pc[u] /\ resolver'[u] = resolver[u]
      BY <1>3, <2>1, <2>5
    <2>7. pc'[h] = v BY <1>3, <2>2, <2>5
    <2>8. Busy(h)' BY <2>7 DEF Busy
    <2>9. (Settled(h)' <=> Settled(h)) /\ (Settled(t)' <=> Settled(t)) BY <2>1 DEF Settled
    <2>10. \A u \in Tasks : (Settled(u)' <=> Settled(u)) /\ (~Settled(u) /\ u # h => (Busy(u)' <=> Busy(u)))
      BY <1>1, <2>6, <2>9, OthersAsBefore
    <2>11. UNCHANGED <<group, ctxCancelling>> /\ ~ctxCancelling /\ Cardinality(A) < maxWorkers BY <1>2, <2>1
    <2>12. h \in Tasks /\ group \in Groups /\ h \in InGroup(group) BY <2>2
    <2> QED BY ONLY IInv, <2>3, <2>4, <2>8, <2>10, <2>11, <2>12, OneBegins
  <1> QED BY <1>1, <1>4, <1>5

\* An event settles one task at most: a runner has one task whose listeners are attached.
AtMostOneSettles ==
  \A t, u \in Tasks : ~Settled(t) /\ Settled(t)' /\ ~Settled(u) /\ Settled(u)' => t = u

LEMMA RejectSettlesOne ==
  ASSUME NEW S, Reject(S), \A t, u \in S : t = u
  PROVE  AtMostOneSettles
  BY DEF Reject, AtMostOneSettles, Settled

LEMMA OneListens ==
  ASSUME IInv, NEW r \in Tasks
  PROVE  \A t, u \in {v \in Tasks : Listens(v, r)} : t = u
  <1>1. \A t \in Tasks : Listens(t, r) => Busy(t) /\ runnerOf[t] = r BY DEF Listens, Busy
  <1> QED BY <1>1 DEF IInv, BusyTasks

LEMMA EventsSettleOne ==
  ASSUME IInv,
         \/ \E r \in Tasks :
              \/ StartOk(r) \/ StartFail(r) \/ StopDone(r) \/ StopTimesOut(r)
              \/ BreakChannel(r) \/ HeldErrorAtStart(r) \/ HeldError(r)
              \/ \E how \in {"exited", "killed"} : ExitAtStart(r, how) \/ Exit(r, how)
         \/ \E t \in Tasks :
              \/ AfterStart(t) \/ StopAfterLock(t) \/ StartTimer(t)
              \/ \E outcome \in {"resolved", "memoryLimit"} : Finish(t, outcome)
  PROVE  AtMostOneSettles
  <1>1. ASSUME resolver' = resolver PROVE AtMostOneSettles
    BY <1>1 DEF AtMostOneSettles, Settled
  <1>2. ASSUME NEW r \in Tasks, NEW state, StartOutcome(r, state) PROVE AtMostOneSettles
    <2>1. resolver' = resolver \/ Reject({t \in Tasks : Listens(t, r)}) BY <1>2 DEF StartOutcome
    <2> QED BY <1>1, <2>1, RejectSettlesOne, OneListens
  <1>3. ASSUME NEW r \in Tasks,
               \/ StartOk(r) \/ StartFail(r) \/ HeldErrorAtStart(r)
               \/ \E how \in {"exited", "killed"} : ExitAtStart(r, how)
        PROVE  AtMostOneSettles
    <2>1. \E state : StartOutcome(r, state)
      BY <1>3 DEF StartOk, StartFail, HeldErrorAtStart, ExitAtStart
    <2> QED BY <1>2, <2>1
  <1>4. ASSUME NEW r \in Tasks, HeldError(r) \/ \E how \in {"exited", "killed"} : Exit(r, how)
        PROVE  AtMostOneSettles
    <2>1. Reject({t \in Tasks : Listens(t, r)}) BY <1>4 DEF HeldError, Exit
    <2> QED BY <2>1, RejectSettlesOne, OneListens
  <1>5. ASSUME NEW t \in Tasks, StartTimer(t) PROVE AtMostOneSettles
    <2>1. Reject({t}) BY <1>5 DEF StartTimer
    <2> QED BY <2>1, RejectSettlesOne
  <1>6. ASSUME NEW t \in Tasks, NEW outcome \in {"resolved", "memoryLimit"}, Finish(t, outcome)
        PROVE  AtMostOneSettles
    <2>1. resolver' = [resolver EXCEPT ![t] = outcome] /\ resolver \in [Tasks -> Outcomes]
      BY <1>6 DEF Finish, IInv, TypeOK
    <2>2. \A u \in Tasks : u # t => resolver'[u] = resolver[u] BY <2>1
    <2> QED BY <2>2 DEF AtMostOneSettles, Settled
  <1>7. ASSUME NEW t \in Tasks,
               \/ AfterStart(t) \/ StopAfterLock(t)
               \/ StopDone(t) \/ StopTimesOut(t) \/ BreakChannel(t)
        PROVE  AtMostOneSettles
    <2>1. resolver' = resolver
      BY <1>7 DEF AfterStart, StopAfterLock, StopDone, StopTimesOut, BreakChannel, taskVars
    <2> QED BY <1>1, <2>1
  <1> QED BY <1>3, <1>4, <1>5, <1>6, <1>7

LEMMA GoesOnOnSchedule ==
  ASSUME IInv, GoesOn, AtMostOneSettles
  PROVE  Schedules!Next \/ UNCHANGED Schedules!scheduleVars
  <1>1. UNCHANGED <<group, ctxCancelling>> BY DEF GoesOn, ctxVars
  <1>2. \A t \in Tasks : /\ (Busy(t)' <=> Busy(t)) /\ (Settled(t) => Settled(t)')
                         /\ (~Busy(t) => (Settled(t)' <=> Settled(t)))
    BY DEF GoesOn, Settled
  <1>3. \A t, u \in Tasks : ~Settled(t) /\ Settled(t)' /\ ~Settled(u) /\ Settled(u)' => t = u
    BY DEF AtMostOneSettles
  <1> QED BY <1>1, <1>2, <1>3, OneSettles

LEMMA CancelTaskSettlesOnSchedule ==
  ASSUME IInv, NEW c \in Cancels, NEW t \in Tasks, CancelTaskSettles(c, t)
  PROVE  Schedules!Next \/ UNCHANGED Schedules!scheduleVars
  <1>1. /\ cancels[c].at = "tasks" /\ t \in cancels[c].awaits
        /\ resolver' = [resolver EXCEPT ![t] = IF @ = "pending" THEN "cancelled" ELSE @]
        /\ pc' = pc /\ UNCHANGED <<group, ctxCancelling>>
    BY DEF CancelTaskSettles, RejectCancelled
  <1>2. resolver \in [Tasks -> Outcomes]
        /\ pc \in [Tasks -> {"none", "queued", "starting", "startSettled", "running", "done"}]
    BY DEF IInv, TypeOK
  <1>3. \A u \in Tasks : u # t => resolver'[u] = resolver[u] BY <1>1, <1>2
  <1>4. resolver'[t] = IF resolver[t] = "pending" THEN "cancelled" ELSE resolver[t] BY <1>1, <1>2
  <1>5. Busy(t) \/ Settled(t)
    <2>1. pc[t] \notin {"none", "queued"} BY <1>1 DEF IInv, Awaited
    <2>2. pc[t] = "done" => Settled(t) BY DEF IInv, EndedTasks
    <2> QED BY <1>2, <2>1, <2>2 DEF Busy
  <1>6. \A u \in Tasks : (Busy(u)' <=> Busy(u)) /\ (Settled(u) => Settled(u)')
    BY <1>1, <1>3, <1>4 DEF Busy, Settled
  <1>7. \A u \in Tasks : ~Busy(u) => (Settled(u)' <=> Settled(u))
    BY <1>3, <1>5, <1>6 DEF Settled
  <1>8. \A u, v \in Tasks : ~Settled(u) /\ Settled(u)' /\ ~Settled(v) /\ Settled(v)' => u = v
    BY <1>3 DEF Settled
  <1> QED BY <1>1, <1>6, <1>7, <1>8, OneSettles

LEMMA OpensGroupOnSchedule ==
  ASSUME IInv, NextGroup \/ StartRun
  PROVE  Schedules!Next
  <1>1. /\ group < Len(Plan) /\ GroupSettled /\ group' = group + 1
        /\ pc' = pc /\ resolver' = resolver
    BY DEF NextGroup, StartRun, StartGroup, HasNextGroup, taskVars
  <1>2. /\ NextGroup => SameRun(group + 1) /\ ctxCancelling' = ctxCancelling
        /\ StartRun => ~SameRun(group + 1) /\ ctxCancelling' = FALSE
    BY DEF NextGroup, StartRun, HasNextGroup
  <1>3. ctxCancelling \in BOOLEAN BY DEF IInv, TypeOK
  <1>4. ctxCancelling' = (ctxCancelling /\ group > 0 /\ Plan[group + 1].run = Plan[group].run)
    BY <1>2, <1>3 DEF SameRun
  <1>5. group > 0 => \A t \in InGroup(group) : t \in Tasks
    <2>1. group \in 0..Len(Plan) BY DEF IInv, TypeOK
    <2>2. Len(Plan) \in Nat BY GroupFacts
    <2>3. group > 0 => group \in Groups BY ONLY <2>1, <2>2 DEF Groups
    <2> QED BY <2>3, GroupFacts
  <1>6. group > 0 => \A t \in InGroup(group) : Status[t] = "settled"
    BY <1>1, <1>5, StatusOf DEF GroupSettled
  <1>7. Status' = Status BY <1>1 DEF Status, Working, Settled
  <1> QED BY <1>1, <1>4, <1>6, <1>7, AsOpenGroup

LEMMA CancelCurrentRunOnSchedule ==
  ASSUME IInv, NEW c \in Cancels, NEW by, CancelCurrentRun(c, by)
  PROVE  Schedules!Next
  <1>0. PICK S : S = {queue[i] : i \in DOMAIN queue} OBVIOUS
  <1>1. /\ group > 0 /\ group' = group /\ ctxCancelling' = TRUE
        /\ resolver' = [t \in Tasks |-> IF t \in S THEN "cancelled" ELSE resolver[t]]
        /\ pc' = [t \in Tasks |-> IF t \in S THEN "done" ELSE pc[t]]
    BY <1>0 DEF CancelCurrentRun, CancelCall
  <1>2. \A t \in S : t \in InGroup(group) /\ t \in Tasks /\ pc[t] = "queued" /\ resolver[t] = "pending"
    <2>1. queue \in Seq(Tasks) BY DEF IInv, TypeOK
    <2>2. \A i \in DOMAIN queue : queue[i] \in Tasks BY <2>1, ElementOf
    <2> QED BY <1>0, <2>2 DEF IInv, WaitingTasks
  <1>3. \A t \in S : Status[t] = "waiting"
    <2>1. \A t \in S : ~Settled(t) /\ ~Busy(t) BY <1>2 DEF Settled, Busy
    <2> QED BY <1>2, <2>1, StatusOf
  <1>4. \A t \in Tasks : t \notin S => pc'[t] = pc[t] /\ resolver'[t] = resolver[t] BY <1>1
  <1>5. \A t \in Tasks : t \in S => Settled(t)' BY <1>1 DEF Settled
  <1>6. \A t \in Tasks : Status'[t] = IF t \in S THEN "settled" ELSE Status[t]
    <2>1. \A t \in Tasks : t \notin S => (Settled(t)' <=> Settled(t)) /\ (Busy(t)' <=> Busy(t))
      BY <1>4, OthersAsBefore
    <2> QED BY <1>5, <2>1, StatusOf
  <1>7. Status' = [t \in Tasks |-> IF t \in S THEN "settled" ELSE Status[t]] BY <1>6, StatusOf
  <1>8. S \subseteq {t \in InGroup(group) : Status[t] = "waiting"} BY <1>2, <1>3
  <1> QED BY ONLY <1>1, <1>7, <1>8, AsDrop

LEMMA CloseOnSchedule ==
  ASSUME IInv, NEW c \in Cancels, Close(c)
  PROVE  UNCHANGED Schedules!scheduleVars
  <1>1. group = Len(Plan) /\ GroupSettled /\ toSubmit = <<>> BY DEF Close, Quiescent, LoopDone
  <1>2. queue = <<>> BY <1>1, WaitingMeansAccepting DEF GroupCancelled, AllOver
  <1>3. /\ resolver' = [t \in Tasks |-> IF t \in {queue[i] : i \in DOMAIN queue} THEN "cancelled" ELSE resolver[t]]
        /\ pc' = [t \in Tasks |-> IF t \in {queue[i] : i \in DOMAIN queue} THEN "done" ELSE pc[t]]
        /\ UNCHANGED <<group, ctxCancelling>>
    BY DEF Close, CancelCall
  <1>4. \A t \in Tasks : pc'[t] = pc[t] /\ resolver'[t] = resolver[t] BY <1>2, <1>3
  <1>5. \A t \in Tasks : (Settled(t)' <=> Settled(t)) /\ (~Settled(t) => (Busy(t)' <=> Busy(t)))
    BY <1>4, OthersAsBefore
  <1> QED BY <1>3, <1>5, NothingHappens

LEMMA InitOnSchedule == Init => Schedules!Init
  BY DEF Init, Schedules!Init, Settled, Working

LEMMA NextOnSchedule ==
  ASSUME IInv, LateTasks, LateAreAlone, [Next]_vars
  PROVE  [Schedules!Next]_(Schedules!scheduleVars)
  <1>1. ASSUME UNCHANGED <<group, ctxCancelling, pc, resolver>>
        PROVE  UNCHANGED Schedules!scheduleVars
    BY <1>1, AsStutter DEF Status, Working, Settled
  <1>2. CASE UNCHANGED vars BY <1>1, <1>2 DEF vars, ctxVars, taskVars
  <1>3. CASE Submit BY <1>3, SubmitOnSchedule
  <1>4. CASE NextGroup \/ StartRun BY <1>4, OpensGroupOnSchedule
  <1>5. ASSUME NEW t \in Tasks, Continue(t) PROVE [Schedules!Next]_(Schedules!scheduleVars)
    BY <1>5, ContinueOnSchedule
  <1>6. ASSUME NEW t \in Tasks, AfterStart(t) \/ StopAfterLock(t)
        PROVE  [Schedules!Next]_(Schedules!scheduleVars)
    <2>1. GoesOn BY <1>6, AfterStartGoesOn, StopAfterLockGoesOn
    <2>2. AtMostOneSettles BY <1>6, EventsSettleOne
    <2> QED BY <2>1, <2>2, GoesOnOnSchedule
  <1>7. ASSUME \/ \E r \in Tasks :
                    \/ StartOk(r) \/ StartFail(r) \/ StopDone(r) \/ StopTimesOut(r)
                    \/ BreakChannel(r) \/ HeldErrorAtStart(r) \/ HeldError(r)
                    \/ \E how \in {"exited", "killed"} : ExitAtStart(r, how) \/ Exit(r, how)
               \/ \E t \in Tasks :
                    StartTimer(t) \/ \E outcome \in {"resolved", "memoryLimit"} : Finish(t, outcome)
        PROVE  [Schedules!Next]_(Schedules!scheduleVars)
    <2>1. GoesOn BY <1>7, EventsGoOn
    <2>2. AtMostOneSettles BY <1>7, EventsSettleOne
    <2> QED BY <2>1, <2>2, GoesOnOnSchedule
  <1>8. ASSUME NEW c \in Cancels, CancelSharedRunners(c) \/ CancelExitPromises(c) \/ CancelEnd(c)
        PROVE  [Schedules!Next]_(Schedules!scheduleVars)
    BY <1>1, <1>8 DEF CancelSharedRunners, CancelExitPromises, CancelEnd, taskVars
  <1>9. ASSUME NEW c \in Cancels, NEW t \in Tasks, CancelTaskSettles(c, t)
        PROVE  [Schedules!Next]_(Schedules!scheduleVars)
    BY <1>9, CancelTaskSettlesOnSchedule
  <1>10. ASSUME NEW c \in Cancels, Close(c) PROVE [Schedules!Next]_(Schedules!scheduleVars)
    BY <1>10, CloseOnSchedule
  <1>11. ASSUME NEW c \in Cancels, NEW by \in CancelledBy, CancelCurrentRun(c, by)
         PROVE  [Schedules!Next]_(Schedules!scheduleVars)
    BY <1>11, CancelCurrentRunOnSchedule
  <1> QED BY <1>2, <1>3, <1>4, <1>5, <1>6, <1>7, <1>8, <1>9, <1>10, <1>11 DEF Next, Resumed

\* The pool implements FileSchedule: groups one after another, at most maxWorkers files of
\* a group at a time, each file run once at most, and nothing begins in a cancelled run.
THEOREM PoolKeepsSchedule ==
  ASSUME LateAreAlone
  PROVE  Spec => KeepsSchedule
  <1>1. Init => Schedules!Init BY InitOnSchedule
  <1>2. IInv /\ LateTasks /\ [Next]_vars => [Schedules!Next]_(Schedules!scheduleVars) BY NextOnSchedule
  <1> QED BY <1>1, <1>2, PoolInvariant, PTL DEF Spec, KeepsSchedule, Schedules!Spec
=============================================================================
