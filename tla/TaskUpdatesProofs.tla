-------------------------- MODULE TaskUpdatesProofs --------------------------
(***************************************************************************)
(* That the events of a worker reach the main process once and in order,   *)
(* that reporters are told them in order unless a message overtakes the    *)
(* report of another, and that the main process knows the results that     *)
(* reporters are told of.                                                  *)
(*                                                                         *)
(* First what FlattenSeq does with sequences one longer, or joined, then   *)
(* the invariant.  All steps of a worker that tell something send the      *)
(* first part of what waits and what is new, and leave the rest: Sending.  *)
(* It is shown once what that keeps, and for each step that it is one.     *)
(* The steps of the main process take a message from the channel.          *)
(***************************************************************************)
EXTENDS TaskUpdates, SequenceTheorems, FiniteSetTheorems, WellFoundedInduction, TLAPS

\* A set of numbers that is not empty has a least one.
LEMMA Least ==
  ASSUME NEW B \in SUBSET Nat, B # {}
  PROVE  \E n \in B : \A m \in B : n <= m
  <1> DEFINE R == OpToRel(<, Nat)
  <1>1. PICK n \in B : \A m \in B : ~(<<m, n>> \in R)
    BY NatLessThanWellFounded, WFMin
  <1>2. \A m \in B : ~(m < n) BY <1>1 DEF OpToRel
  <1> QED BY <1>2

\* f runs through the prefixes of q, each the one before and one sequence more.
Joins(f, q, n) == f = [i \in 1..n |-> IF i = 1 THEN q[i] ELSE f[i - 1] \o q[i]]

LEMMA JoinsAt ==
  ASSUME NEW f, NEW q, NEW n \in Nat, Joins(f, q, n), NEW i \in 1..n
  PROVE  f[i] = IF i = 1 THEN q[i] ELSE f[i - 1] \o q[i]
  <1> DEFINE e(j) == IF j = 1 THEN q[j] ELSE f[j - 1] \o q[j]
  <1>1. f = [j \in 1..n |-> e(j)] BY DEF Joins
  <1> HIDE DEF e
  <1>2. f[i] = e(i) BY <1>1
  <1> QED BY <1>2 DEF e

\* There is one such function.
LEMMA JoinsExists ==
  ASSUME NEW q, NEW n \in Nat PROVE \E f : Joins(f, q, n)
  <1> DEFINE B == {k \in Nat : ~\E f : Joins(f, q, k)}
  <1> SUFFICES ASSUME B # {} PROVE FALSE OBVIOUS
  <1>1. PICK k \in B : \A m \in B : k <= m BY Least
  <1>2. CASE k = 0
    <2>1. Joins([i \in 1..0 |-> q[i]], q, 0) BY DEF Joins
    <2> QED BY <1>2, <2>1
  <1>3. CASE k # 0
    <2>1. k - 1 \in Nat /\ k - 1 \notin B BY <1>1, <1>3
    <2>2. PICK f : Joins(f, q, k - 1) BY <2>1
    <2> DEFINE g == [i \in 1..k |-> IF i < k THEN f[i] ELSE IF i = 1 THEN q[i] ELSE f[i - 1] \o q[i]]
    <2>3. \A i \in 1..k : g[i] = IF i = 1 THEN q[i] ELSE g[i - 1] \o q[i]
      <3> TAKE i \in 1..k
      <3>1. CASE i < k
        <4>1. f[i] = IF i = 1 THEN q[i] ELSE f[i - 1] \o q[i] BY <2>1, <2>2, <3>1, JoinsAt
        <4> QED BY <3>1, <4>1
      <3>2. CASE i = k
        <4>1. i # 1 => g[i - 1] = f[i - 1] BY <3>2
        <4> QED BY <3>2, <4>1
      <3> QED BY <3>1, <3>2
    <2>4. g = [i \in 1..k |-> g[i]] OBVIOUS
    <2>5. Joins(g, q, k) BY <2>3, <2>4 DEF Joins
    <2> QED BY <2>5
  <1> QED BY <1>2, <1>3

LEMMA JoinsUnique ==
  ASSUME NEW q, NEW m \in Nat, NEW f, NEW g, Joins(f, q, m), Joins(g, q, m)
  PROVE  \A i \in 1..m : f[i] = g[i]
  <1> DEFINE B == {k \in 1..m : f[k] # g[k]}
  <1> SUFFICES ASSUME B # {} PROVE FALSE OBVIOUS
  <1>0. B \in SUBSET Nat OBVIOUS
  <1>1. PICK k \in B : \A j \in B : k <= j BY <1>0, Least
  <1>2. f[k] = (IF k = 1 THEN q[k] ELSE f[k - 1] \o q[k]) /\ g[k] = (IF k = 1 THEN q[k] ELSE g[k - 1] \o q[k])
    BY JoinsAt
  <1>3. k # 1 => f[k - 1] = g[k - 1] BY <1>1
  <1> QED BY <1>2, <1>3

LEMMA FlattenIs ==
  ASSUME NEW S, NEW q \in Seq(Seq(S)), q # <<>>, NEW f, Joins(f, q, Len(q))
  PROVE  FlattenSeq(q) = f[Len(q)]
  <1> DEFINE g == CHOOSE g : Joins(g, q, Len(q))
  <1>1. Len(q) \in Nat /\ Len(q) # 0 OBVIOUS
  <1>2. Joins(g, q, Len(q)) BY <1>1, JoinsExists
  <1>3. FlattenSeq(q) = g[Len(q)] BY <1>1 DEF FlattenSeq, Joins
  <1> HIDE DEF g
  <1>4. f[Len(q)] = g[Len(q)] BY <1>1, <1>2, JoinsUnique
  <1> QED BY <1>3, <1>4

LEMMA FlattenEmpty == FlattenSeq(<<>>) = <<>>
  BY DEF FlattenSeq

\* What is joined is a sequence.
LEMMA FlattenType ==
  ASSUME NEW S, NEW q \in Seq(Seq(S)) PROVE FlattenSeq(q) \in Seq(S)
  <1>1. CASE q = <<>>
    <2>1. <<>> \in Seq(S) OBVIOUS
    <2>2. FlattenSeq(q) = <<>> BY <1>1, FlattenEmpty
    <2> QED BY <2>1, <2>2
  <1>2. CASE q # <<>>
    <2>1. PICK n \in Nat : n = Len(q) /\ n # 0 BY <1>2
    <2>2. PICK f : Joins(f, q, n) BY JoinsExists
    <2> DEFINE B == {k \in 1..n : f[k] \notin Seq(S)}
    <2>3. ASSUME B # {} PROVE FALSE
      <3>0. B \in SUBSET Nat OBVIOUS
      <3>1. PICK k \in B : \A j \in B : k <= j BY <2>3, <3>0, Least
      <3>2. f[k] = IF k = 1 THEN q[k] ELSE f[k - 1] \o q[k] BY <2>2, JoinsAt
      <3>3. q[k] \in Seq(S) BY <2>1
      <3>4. k # 1 => f[k - 1] \in Seq(S) BY <3>1
      <3> HIDE DEF B
      <3>5. f[k] \in Seq(S) BY <3>2, <3>3, <3>4, ConcatProperties
      <3> QED BY <3>5 DEF B
    <2> QED BY <1>2, <2>1, <2>2, <2>3, FlattenIs
  <1> QED BY <1>1, <1>2

\* One sequence more at the end.
LEMMA FlattenAppend ==
  ASSUME NEW S, NEW q \in Seq(Seq(S)), NEW x \in Seq(S)
  PROVE  FlattenSeq(Append(q, x)) = FlattenSeq(q) \o x
  <1>1. PICK r \in Seq(Seq(S)) : r = Append(q, x) BY AppendProperties
  <1>2. PICK n \in Nat : n = Len(q) OBVIOUS
  <1>0. PICK m \in Nat : m = n + 1 OBVIOUS
  <1>3. Len(r) = m /\ r # <<>> /\ r[m] = x /\ \A i \in 1..n : q[i] = r[i]
    BY <1>0, <1>1, <1>2
  <1>4. PICK g : Joins(g, r, m) BY JoinsExists
  <1>5. FlattenSeq(r) = g[m] BY <1>3, <1>4, FlattenIs
  <1>6. g[m] = IF m = 1 THEN x ELSE g[n] \o x
    <2>1. m \in 1..m /\ m - 1 = n BY <1>0
    <2>2. g[m] = IF m = 1 THEN r[m] ELSE g[m - 1] \o r[m]
      BY <1>4, <2>1, JoinsAt
    <2> QED BY <2>1, <2>2, <1>3
  <1>7. CASE q = <<>>
    <2>1. m = 1 BY <1>0, <1>2, <1>7
    <2>2. FlattenSeq(r) = x BY <1>5, <1>6, <2>1
    <2> QED BY <1>1, <1>7, <2>2, FlattenEmpty, ConcatEmptySeq
  <1>8. CASE q # <<>>
    <2>1. n # 0 /\ m # 1 /\ n <= m /\ n \in 1..n BY <1>0, <1>2, <1>8
    <2>2. PICK f : Joins(f, q, n) BY JoinsExists
    <2>3. FlattenSeq(q) = f[n] BY <1>2, <1>8, <2>2, FlattenIs
    <2>4. \A i \in 1..n : q[i] = r[i] BY <1>3
    <2>5. \A i \in 1..n : f[i] = g[i]
      <3> DEFINE B == {k \in 1..n : f[k] # g[k]}
      <3> SUFFICES ASSUME B # {} PROVE FALSE OBVIOUS
      <3>0. B \in SUBSET Nat OBVIOUS
      <3>1. PICK k \in B : \A j \in B : k <= j BY <3>0, Least
      <3>2. k \in 1..n /\ k \in 1..m BY <2>1
      <3>3. f[k] = (IF k = 1 THEN q[k] ELSE f[k - 1] \o q[k]) BY <2>2, <3>2, JoinsAt
      <3>4. g[k] = (IF k = 1 THEN r[k] ELSE g[k - 1] \o r[k]) BY <1>4, <3>2, JoinsAt
      <3>5. k # 1 => f[k - 1] = g[k - 1] BY <3>1, <3>2
      <3> QED BY <2>4, <3>2, <3>3, <3>4, <3>5
    <2> QED BY <1>1, <1>5, <1>6, <2>1, <2>3, <2>5
  <1> QED BY <1>7, <1>8

LEMMA FlattenOne ==
  ASSUME NEW S, NEW x \in Seq(S) PROVE FlattenSeq(<<x>>) = x
  <1>1. <<>> \in Seq(Seq(S)) /\ Append(<<>>, x) = <<x>> OBVIOUS
  <1>2. FlattenSeq(Append(<<>>, x)) = FlattenSeq(<<>>) \o x BY <1>1, FlattenAppend
  <1> QED BY <1>1, <1>2, FlattenEmpty, ConcatEmptySeq

\* Joining is the same for two parts.
LEMMA FlattenConcat ==
  ASSUME NEW S, NEW a \in Seq(Seq(S)), NEW b \in Seq(Seq(S))
  PROVE  FlattenSeq(a \o b) = FlattenSeq(a) \o FlattenSeq(b)
  <1>1. \A u, v, x \in Seq(S) : (u \o v) \o x = u \o (v \o x) BY ConcatAssociative, SMTT(30)
  <1> DEFINE Bad == {n \in Nat : \E c \in Seq(Seq(S)) :
                       Len(c) = n /\ FlattenSeq(a \o c) # FlattenSeq(a) \o FlattenSeq(c)}
  <1>2. ASSUME Bad # {} PROVE FALSE
    <2>0. Bad \in SUBSET Nat OBVIOUS
    <2>1. PICK n \in Bad : \A m \in Bad : n <= m BY <1>2, <2>0, Least
    <2>2. PICK c \in Seq(Seq(S)) : Len(c) = n /\ FlattenSeq(a \o c) # FlattenSeq(a) \o FlattenSeq(c)
      BY <2>1
    <2>11. PICK u \in Seq(S) : u = FlattenSeq(a) BY FlattenType
    <2>3. c # <<>>
      <3> SUFFICES ASSUME c = <<>> PROVE FALSE OBVIOUS
      <3>1. a \o c = a BY ConcatEmptySeq
      <3>2. u \o FlattenSeq(c) = u BY FlattenEmpty, ConcatEmptySeq
      <3> QED BY <2>2, <2>11, <3>1, <3>2
    <2>4. PICK d \in Seq(Seq(S)), x \in Seq(S) : c = Append(d, x) BY <2>3, SequenceEmptyOrAppend
    <2>5. Len(d) \in Nat /\ Len(d) < n BY <2>2, <2>4
    <2>6. Len(d) \notin Bad BY <2>1, <2>5
    <2>7. FlattenSeq(a \o d) = FlattenSeq(a) \o FlattenSeq(d) BY <2>5, <2>6
    <2> HIDE DEF Bad
    <2>8. a \o c = Append(a \o d, x) /\ a \o d \in Seq(Seq(S))
      <3>1. c = d \o <<x>> /\ <<x>> \in Seq(Seq(S)) BY <2>4, AppendIsConcat
      <3>2. a \o d \in Seq(Seq(S)) BY ConcatProperties
      <3>3. Append(a \o d, x) = (a \o d) \o <<x>> BY <3>2, AppendIsConcat
      <3> QED BY <3>1, <3>2, <3>3, ConcatAssociative, SMTT(30)
    <2>9. FlattenSeq(a \o c) = (FlattenSeq(a) \o FlattenSeq(d)) \o x
      BY <2>7, <2>8, FlattenAppend, ZenonT(60)
    <2>10. FlattenSeq(c) = FlattenSeq(d) \o x BY <2>4, FlattenAppend
    <2>12. PICK v \in Seq(S) : v = FlattenSeq(d) BY FlattenType
    <2>13. u \in Seq(S) /\ v \in Seq(S) /\ x \in Seq(S) OBVIOUS
    <2>14. (u \o v) \o x = u \o (v \o x) BY ONLY <1>1, <2>13
    <2> QED BY <2>2, <2>9, <2>10, <2>11, <2>12, <2>14
  <1>3. Len(b) \in Nat OBVIOUS
  <1> QED BY <1>2, <1>3

-----------------------------------------------------------------------------
(* The invariant                                                           *)

Kinds == {"suite-prepare", "suite-finished", "test-prepare", "test-retried", "test-cancel",
          "test-finished"}
TasksOfWorker(w) == TestsOf(w) \cup {FileOf[w]}

\* What a worker tells is about its own tasks.
OwnEvents(w) == TasksOfWorker(w) \X Kinds

\* A message about the events has one result for each of their tasks, and for no other.
Packs(m, x, v) == m.kind = "update" /\ <<x, v>> \in m.packs
UpdateMessages(w) ==
  {m \in [kind : {"update"}, packs : SUBSET (TasksOfWorker(w) \X States), events : Seq(OwnEvents(w))] :
     /\ m.events # <<>>
     /\ \A p \in m.packs : p[1] \in TasksOf(m.events)
     /\ \A x \in TasksOf(m.events) : \E v \in States : <<x, v>> \in m.packs
     /\ \A p, q \in m.packs : p[1] = q[1] => p = q}
Messages(w) == UpdateMessages(w) \cup [kind : {"ask"}, test : TestsOf(w)]

Sequences ==
  /\ DOMAIN emitted = Workers /\ DOMAIN told = Workers /\ DOMAIN eventsPacks = Workers
  /\ DOMAIN channel = Workers /\ DOMAIN handlers = Workers
  /\ DOMAIN received = Workers /\ DOMAIN alone = Workers
  /\ \A w \in Workers :
       /\ emitted[w] \in Seq(OwnEvents(w)) /\ told[w] \in Seq(OwnEvents(w))
       /\ received[w] \in Seq(OwnEvents(w)) /\ eventsPacks[w] \in Seq(OwnEvents(w))
       /\ channel[w] \in Seq(Messages(w)) /\ handlers[w] \in Seq(Seq(OwnEvents(w)))

\* A test is under way in a file that is, and never finished in the way of a file.
Places ==
  /\ \A t \in Tests :
       /\ place[t] \notin {"finished", "flushing"}
       /\ place[t] \in {"running", "asking"} => place[FileOf[WorkerOf[t]]] = "running"
       /\ place[t] = "asking" => result[t] = "fail"
       /\ place[t] = "done" /\ result[t] \in {"none", "run"} => cancelRun[WorkerOf[t]]
  /\ \A w \in Workers :
       /\ place[FileOf[w]] \in {"flushing", "done"} => eventsPacks[w] = <<>>
       /\ place[FileOf[w]] = "done" => channel[w] = <<>> /\ handlers[w] = <<>>

\* As long as no message comes while another is being reported, one at most is, and what is still
\* to be reported is the end of what was received.
EventsReceived == \A w \in Workers : emitted[w] = received[w] \o OnTheWay(w) \o eventsPacks[w]
ToldInOrder ==
  \A w \in Workers : alone[w] =>
    Len(handlers[w]) <= 1 /\ received[w] = told[w] \o FlattenSeq(handlers[w])
InOrder == EventsReceived /\ ToldInOrder

\* What is emitted and not told is under way, each event once.
AllThere(w) ==
  /\ Len(emitted[w]) = Len(told[w]) + Len(FlattenSeq(handlers[w])) + Len(OnTheWay(w)) + Len(eventsPacks[w])
  /\ Range(emitted[w]) = Range(told[w]) \cup Range(FlattenSeq(handlers[w])) \cup Range(OnTheWay(w))
                           \cup Range(eventsPacks[w])
AllAreThere == \A w \in Workers : AllThere(w)

\* The last that the main process knows, or is told, of a task is its result, unless an event
\* of the task waits to be sent.
LastIs(w, x, v) ==
  \/ \E j \in DOMAIN channel[w] :
       /\ Packs(channel[w][j], x, v)
       /\ \A k \in DOMAIN channel[w] : k > j => \A u \in States : ~Packs(channel[w][k], x, u)
  \/ /\ \A k \in DOMAIN channel[w] : \A u \in States : ~Packs(channel[w][k], x, u)
     /\ tasks[x] = v
LastIsSo ==
  \A w \in Workers : \A x \in TasksOfWorker(w) :
    x \in TasksOf(eventsPacks[w]) \/ LastIs(w, x, result[x])

\* The end of a test is an event like any other, but nothing comes after it: from the message
\* that tells it on, every result of the test is the last one.
Finish(t) == <<t, "test-finished">>
IsLast(t, m) == \A v \in States : Packs(m, t, v) => v = result[t]
Tells(m, t) == m.kind = "update" /\ Finish(t) \in Range(m.events)
FinishIsLast ==
  \A t \in Tests : LET w == WorkerOf[t] IN
    /\ Finish(t) \in Range(eventsPacks[w]) => place[t] = "done"
    /\ \A j \in DOMAIN channel[w] : Tells(channel[w][j], t) =>
         place[t] = "done" /\ \A k \in DOMAIN channel[w] : k >= j => IsLast(t, channel[w][k])
    /\ Finish(t) \in Range(told[w]) \cup Range(FlattenSeq(handlers[w])) =>
         /\ place[t] = "done" /\ tasks[t] = result[t]
         /\ \A k \in DOMAIN channel[w] : IsLast(t, channel[w][k])

Typed == TypeOK /\ Sequences
IInv == Typed /\ Places /\ InOrder /\ AllAreThere /\ LastIsSo /\ FinishIsLast
-----------------------------------------------------------------------------
(* Tasks, messages and what is in them                                     *)

\* No two workers have a task in common.
LEMMA OneWorkerEach ==
  /\ \A w \in Workers : TasksOfWorker(w) \subseteq Tasks
  /\ \A x \in Tasks : \E w \in Workers : x \in TasksOfWorker(w)
  /\ \A t \in Tests : WorkerOf[t] \in Workers /\ t \in TasksOfWorker(WorkerOf[t])
  /\ \A v, w \in Workers : v # w => TasksOfWorker(v) \cap TasksOfWorker(w) = {}
  <1>1. \A v, w \in Workers : FileOf[v] = FileOf[w] => v = w
    BY UpdatesAssumption DEF IsInjective
  <1>2. \A w \in Workers : FileOf[w] \in Files /\ FileOf[w] \notin Tests
    BY UpdatesAssumption DEF Files
  <1>3. \A t \in Tests : WorkerOf[t] \in Workers
    BY UpdatesAssumption
  <1>4. \A v, w \in Workers : v # w => TasksOfWorker(v) \cap TasksOfWorker(w) = {}
    BY <1>1, <1>2 DEF TasksOfWorker, TestsOf
  <1> QED BY <1>2, <1>3, <1>4 DEF TasksOfWorker, TestsOf, Tasks, Files

\* The tasks of events put together.
LEMMA TasksOfConcat ==
  ASSUME NEW S, NEW a \in Seq(S), NEW b \in Seq(S)
  PROVE  /\ Range(a \o b) = Range(a) \cup Range(b)
         /\ TasksOf(a \o b) = TasksOf(a) \cup TasksOf(b)
  <1>1. Range(a \o b) = Range(a) \cup Range(b)
    <2>1. DOMAIN a = 1..Len(a) /\ DOMAIN b = 1..Len(b) /\ DOMAIN (a \o b) = 1..(Len(a) + Len(b))
      BY ConcatProperties, LenProperties
    <2>2. \A i \in 1..Len(a) : (a \o b)[i] = a[i]
      OBVIOUS
    <2>3. \A i \in 1..Len(b) : (a \o b)[Len(a) + i] = b[i] /\ Len(a) + i \in 1..(Len(a) + Len(b))
      OBVIOUS
    <2>4. \A i \in 1..(Len(a) + Len(b)) : i \in 1..Len(a) \/ \E j \in 1..Len(b) : i = Len(a) + j
      <3>1. PICK n \in Nat, m \in Nat : n = Len(a) /\ m = Len(b) BY LenProperties
      <3>2. \A i \in 1..(n + m) : i \in 1..n \/ (i - n \in 1..m /\ i = n + (i - n)) OBVIOUS
      <3>3. \A i \in 1..(n + m) : i \in 1..n \/ \E j \in 1..m : i = n + j BY <3>2
      <3> QED BY <3>1, <3>3
    <2>5. Range(a \o b) \subseteq Range(a) \cup Range(b)
      BY <2>1, <2>2, <2>3, <2>4, SMTT(30) DEF Range
    <2>6. Range(a) \subseteq Range(a \o b)
      <3> SUFFICES ASSUME NEW e \in Range(a) PROVE e \in Range(a \o b) OBVIOUS
      <3>1. PICK i \in 1..Len(a) : e = a[i] BY <2>1 DEF Range
      <3>2. i \in 1..(Len(a) + Len(b)) /\ (a \o b)[i] = e BY <2>2, <3>1
      <3> QED BY <2>1, <3>2 DEF Range
    <2>7. Range(b) \subseteq Range(a \o b)
      BY <2>1, <2>3 DEF Range
    <2> QED BY <2>5, <2>6, <2>7
  <1>2. TasksOf(a \o b) = TasksOf(a) \cup TasksOf(b)
    BY <1>1 DEF TasksOf
  <1> QED BY <1>1, <1>2

\* The events in a sequence of messages.
EventsIn(q) == FlattenSeq([i \in DOMAIN q |-> EventsOf(q[i])])

LEMMA EventsOfType ==
  ASSUME NEW w, NEW m \in Messages(w) PROVE EventsOf(m) \in Seq(OwnEvents(w))
  <1>1. CASE m \in UpdateMessages(w) BY <1>1 DEF UpdateMessages, EventsOf
  <1>2. CASE m \in [kind : {"ask"}, test : TestsOf(w)]
    <2>1. EventsOf(m) = <<>> BY <1>2 DEF EventsOf
    <2> QED BY <2>1
  <1> QED BY <1>1, <1>2 DEF Messages

LEMMA EventsMapped ==
  ASSUME NEW w, NEW q \in Seq(Messages(w))
  PROVE  /\ [i \in DOMAIN q |-> EventsOf(q[i])] \in Seq(Seq(OwnEvents(w)))
         /\ Len([i \in DOMAIN q |-> EventsOf(q[i])]) = Len(q)
  <1>1. DOMAIN q = 1..Len(q) /\ Len(q) \in Nat BY LenProperties
  <1>2. \A i \in 1..Len(q) : EventsOf(q[i]) \in Seq(OwnEvents(w))
    BY <1>1, ElementOfSeq, EventsOfType
  <1>3. [i \in 1..Len(q) |-> EventsOf(q[i])] \in [1..Len(q) -> Seq(OwnEvents(w))]
    BY <1>2
  <1>4. [i \in 1..Len(q) |-> EventsOf(q[i])] \in Seq(Seq(OwnEvents(w)))
    BY <1>1, <1>3, SeqDef
  <1>5. Len([i \in 1..Len(q) |-> EventsOf(q[i])]) = Len(q)
    BY <1>1, <1>4, LenProperties
  <1> QED BY <1>1, <1>4, <1>5

LEMMA EventsInType ==
  ASSUME NEW w, NEW q \in Seq(Messages(w)) PROVE EventsIn(q) \in Seq(OwnEvents(w))
  BY EventsMapped, FlattenType DEF EventsIn

LEMMA EventsInConcat ==
  ASSUME NEW w, NEW a \in Seq(Messages(w)), NEW b \in Seq(Messages(w))
  PROVE  EventsIn(a \o b) = EventsIn(a) \o EventsIn(b)
  <1> DEFINE M(q) == [i \in DOMAIN q |-> EventsOf(q[i])]
  <1>1. a \o b \in Seq(Messages(w)) /\ Len(a \o b) = Len(a) + Len(b)
    BY ConcatProperties
  <1>2. M(a) \in Seq(Seq(OwnEvents(w))) /\ M(b) \in Seq(Seq(OwnEvents(w))) /\ M(a \o b) \in Seq(Seq(OwnEvents(w)))
        /\ Len(M(a)) = Len(a) /\ Len(M(b)) = Len(b) /\ Len(M(a \o b)) = Len(a) + Len(b)
    BY <1>1, EventsMapped
  <1>3. \A i \in 1..(Len(a) + Len(b)) : M(a \o b)[i] = (M(a) \o M(b))[i]
    <2> TAKE i \in 1..(Len(a) + Len(b))
    <2>1. DOMAIN a = 1..Len(a) /\ DOMAIN b = 1..Len(b) /\ DOMAIN (a \o b) = 1..(Len(a) + Len(b))
      BY <1>1, LenProperties
    <2>2. M(a \o b)[i] = EventsOf((a \o b)[i]) BY <2>1
    <2>3. (a \o b)[i] = IF i <= Len(a) THEN a[i] ELSE b[i - Len(a)] BY ConcatProperties
    <2>4. i <= Len(a) => M(a)[i] = EventsOf(a[i]) BY <2>1
    <2>5. i > Len(a) => i - Len(a) \in 1..Len(b) OBVIOUS
    <2>6. i > Len(a) => M(b)[i - Len(a)] = EventsOf(b[i - Len(a)]) BY <2>1, <2>5
    <2> HIDE DEF M
    <2>7. (M(a) \o M(b))[i] = IF i <= Len(a) THEN M(a)[i] ELSE M(b)[i - Len(a)]
      BY <1>2, ConcatProperties, SMTT(30)
    <2> QED BY <2>2, <2>3, <2>4, <2>6, <2>7
  <1> HIDE DEF M
  <1>4. M(a) \o M(b) \in Seq(Seq(OwnEvents(w))) /\ Len(M(a) \o M(b)) = Len(a) + Len(b)
    BY <1>2, ConcatProperties
  <1>5. M(a \o b) = M(a) \o M(b) BY <1>2, <1>3, <1>4, SeqEqual
  <1>6. FlattenSeq(M(a) \o M(b)) = FlattenSeq(M(a)) \o FlattenSeq(M(b)) BY <1>2, FlattenConcat
  <1> QED BY <1>5, <1>6 DEF EventsIn, M

LEMMA EventsInOne ==
  ASSUME NEW w, NEW m \in Messages(w) PROVE EventsIn(<<m>>) = EventsOf(m)
  <1>1. [i \in DOMAIN <<m>> |-> EventsOf(<<m>>[i])] = <<EventsOf(m)>> OBVIOUS
  <1> QED BY <1>1, EventsOfType, FlattenOne DEF EventsIn

LEMMA EventsInEmpty == EventsIn(<<>>) = <<>>
  <1>1. [i \in DOMAIN <<>> |-> EventsOf(<<>>[i])] = <<>> OBVIOUS
  <1> QED BY <1>1, FlattenEmpty DEF EventsIn

-----------------------------------------------------------------------------
(* The worker tells what has happened                                      *)

\* The events `new` come to those that wait; the first of all of them are sent, and the rest
\* waits.  Only the results of the tasks of new events change, and none of a test that is done.
Sending(w, new, sent, rest, calls) ==
  /\ new \in Seq(OwnEvents(w)) /\ sent \in Seq(OwnEvents(w)) /\ rest \in Seq(OwnEvents(w))
  /\ calls = <<>> \/ \E t \in TestsOf(w) : calls = <<Ask(t)>>
  /\ eventsPacks[w] \o new = sent \o rest
  /\ DOMAIN emitted' = Workers
  /\ \A v \in Workers : emitted'[v] = IF v = w THEN emitted[w] \o new ELSE emitted[v]
  /\ SendTasksUpdate(w, result', sent, calls)
  /\ eventsPacks' = [eventsPacks EXCEPT ![w] = rest]
  /\ UNCHANGED <<told, handlers, tasks, received, alone>>
  /\ result' \in [Tasks -> States]
  /\ \A x \in Tasks : result'[x] # result[x] => x \in TasksOf(new)
  /\ \A t \in Tests : place[t] = "done" => place'[t] = "done" /\ result'[t] = result[t]
  /\ \A t \in Tests : Finish(t) \in Range(new) => place'[t] = "done"

LEMMA PairOf ==
  ASSUME NEW x, NEW y
  PROVE  <<x>> \o <<y>> = <<x, y>> /\ Len(<<x, y>>) = 2 /\ <<x, y>>[1] = x /\ <<x, y>>[2] = y
  <1>1. <<x>> \in Seq({x, y}) /\ y \in {x, y} OBVIOUS
  <1>2. Append(<<x>>, y) = <<x>> \o <<y>> BY <1>1, AppendIsConcat
  <1>3. Append(<<x>>, y) = <<x, y>>
    <2>1. PICK a \in Seq({x, y}) : a = Append(<<x>>, y) BY <1>1, AppendProperties
    <2>6. <<x, y>> \in Seq({x, y}) OBVIOUS
    <2>2. PICK b \in Seq({x, y}) : b = <<x, y>> BY <2>6
    <2>3. Len(a) = 2 /\ a[1] = x /\ a[2] = y BY <1>1, <2>1, AppendProperties
    <2>4. Len(b) = 2 /\ b[1] = x /\ b[2] = y BY <2>2
    <2>5. \A i \in 1..Len(a) : a[i] = b[i] BY <2>3, <2>4
    <2> QED BY <2>1, <2>2, <2>3, <2>4, <2>5, SeqEqual
  <1>4. Len(<<x, y>>) = 2 /\ <<x, y>>[1] = x /\ <<x, y>>[2] = y OBVIOUS
  <1> QED BY <1>2, <1>3, <1>4

LEMMA UpdateIsMessage ==
  ASSUME NEW w \in Workers, NEW results \in [Tasks -> States], NEW events \in Seq(OwnEvents(w))
  PROVE  /\ events # <<>> => Update(results, events) \in UpdateMessages(w)
         /\ EventsOf(Update(results, events)) = events
         /\ \A x, v : Packs(Update(results, events), x, v) <=> x \in TasksOf(events) /\ v = results[x]
         /\ \A t : Tells(Update(results, events), t) <=> Finish(t) \in Range(events)
  <1> DEFINE m == Update(results, events)
  <1>1. TasksOf(events) \subseteq TasksOfWorker(w)
    <2>1. Range(events) \subseteq OwnEvents(w) BY DEF Range
    <2> QED BY <2>1 DEF TasksOf, OwnEvents
  <1>2. TasksOfWorker(w) \subseteq Tasks BY OneWorkerEach
  <1>3. m.packs = {<<t, results[t]>> : t \in TasksOf(events)} /\ m.kind = "update" /\ m.events = events
    BY DEF Update
  <1>4. m \in [kind : {"update"}, packs : SUBSET (TasksOfWorker(w) \X States), events : Seq(OwnEvents(w))]
    BY <1>1, <1>2 DEF Update
  <1>5. \A x, v : <<x, v>> \in m.packs <=> x \in TasksOf(events) /\ v = results[x]
    BY <1>3
  <1>6. \A p \in m.packs : p[1] \in TasksOf(m.events) BY <1>3
  <1>7. \A x \in TasksOf(m.events) : \E v \in States : <<x, v>> \in m.packs
    BY <1>1, <1>2, <1>3, <1>5
  <1>8. \A p, q \in m.packs : p[1] = q[1] => p = q BY <1>3
  <1>9. events # <<>> => m \in UpdateMessages(w) BY <1>3, <1>4, <1>6, <1>7, <1>8 DEF UpdateMessages
  <1>10. EventsOf(m) = events BY <1>3 DEF EventsOf
  <1>11. \A t : Tells(m, t) <=> Finish(t) \in Range(events) BY <1>3 DEF Tells
  <1>12. \A x, v : Packs(m, x, v) <=> x \in TasksOf(events) /\ v = results[x] BY <1>3, <1>5 DEF Packs
  <1> QED BY <1>9, <1>10, <1>11, <1>12

\* What is sent comes behind what is on its way.
SentIs(s, w, sent) ==
  /\ channel' = [channel EXCEPT ![w] = @ \o s]
  /\ EventsIn(s) = sent
  /\ sent # <<>> => 1 \in 1..Len(s)
  /\ \A k \in 1..Len(s) : \A x, v :
       Packs(s[k], x, v) <=> k = 1 /\ x \in TasksOf(sent) /\ v = result'[x]
  /\ \A k \in 1..Len(s) : \A t : Tells(s[k], t) <=> k = 1 /\ Finish(t) \in Range(sent)

LEMMA Sent ==
  ASSUME Sequences, NEW w \in Workers, NEW new, NEW sent, NEW rest, NEW calls, Sending(w, new, sent, rest, calls)
  PROVE  \E s \in Seq(Messages(w)) : SentIs(s, w, sent)
  <1> DEFINE m == Update(result', sent)
  <1> DEFINE a == IF sent = <<>> THEN <<>> ELSE <<m>>
  <1>1. (sent # <<>> => m \in Messages(w)) /\ EventsOf(m) = sent
        /\ (\A x, v : Packs(m, x, v) <=> x \in TasksOf(sent) /\ v = result'[x])
        /\ (\A t : Tells(m, t) <=> Finish(t) \in Range(sent))
    BY UpdateIsMessage DEF Sending, Messages
  <1> HIDE DEF m
  <1>2. a \in Seq(Messages(w)) /\ EventsIn(a) = sent
    <2>1. CASE sent = <<>> BY <2>1, EventsInEmpty
    <2>2. CASE sent # <<>>
      <3>1. a = <<m>> BY <2>2
      <3> QED BY <1>1, <2>2, <3>1, EventsInOne
    <2> QED BY <2>1, <2>2
  <1>3. calls \in Seq(Messages(w)) /\ EventsIn(calls) = <<>> /\ calls \in {<<>>} \cup {<<Ask(t)>> : t \in TestsOf(w)}
    <2>1. CASE calls = <<>> BY <2>1, EventsInEmpty
    <2>2. ASSUME NEW t \in TestsOf(w), calls = <<Ask(t)>> PROVE <1>3!:
      <3>1. Ask(t) \in Messages(w) /\ EventsOf(Ask(t)) = <<>> BY DEF Ask, Messages, EventsOf
      <3> QED BY <2>2, <3>1, EventsInOne
    <2> QED BY <2>1, <2>2 DEF Sending
  <1>20. a = IF sent = <<>> THEN <<>> ELSE <<m>> OBVIOUS
  <1> HIDE DEF a
  <1> DEFINE s == a \o calls
  <1>4. s \in Seq(Messages(w)) BY <1>2, <1>3, ConcatProperties
  <1>5. EventsIn(s) = sent
    <2>3. EventsIn(a \o calls) = EventsIn(a) \o EventsIn(calls)
      BY ONLY <1>2, <1>3, EventsInConcat
    <2>1. EventsIn(s) = sent \o <<>> BY <1>2, <1>3, <2>3
    <2>2. sent \in Seq(OwnEvents(w)) BY DEF Sending
    <2> QED BY <2>1, <2>2, ConcatEmptySeq
  <1>6. channel' = [channel EXCEPT ![w] = @ \o s]
    <2>1. channel[w] \in Seq(Messages(w)) BY DEF Sequences
    <2>2. (IF sent = <<>> THEN channel[w] ELSE Append(channel[w], m)) = channel[w] \o a
      <3>1. CASE sent = <<>> BY <1>20, <2>1, <3>1, ConcatEmptySeq
      <3>2. CASE sent # <<>> BY <1>1, <1>20, <2>1, <3>2, AppendIsConcat
      <3> QED BY <3>1, <3>2
    <2>3. (channel[w] \o a) \o calls = channel[w] \o (a \o calls)
      <3>1. PICK M : M = Messages(w) OBVIOUS
      <3>2. channel[w] \in Seq(M) /\ a \in Seq(M) /\ calls \in Seq(M) BY <1>2, <1>3, <2>1, <3>1
      <3>3. PICK c \in Seq(M), b \in Seq(M), d \in Seq(M) : c = channel[w] /\ b = a /\ d = calls BY ONLY <3>2
      <3>4. (c \o b) \o d = c \o (b \o d) BY ONLY ConcatAssociative
      <3> QED BY ONLY <3>3, <3>4
    <2>4. channel' = [channel EXCEPT ![w] = (IF sent = <<>> THEN @ ELSE Append(@, m)) \o calls]
      BY DEF Sending, SendTasksUpdate, m
    <2> QED BY <2>2, <2>3, <2>4
  <1>7. \A k \in 1..Len(s) : (sent # <<>> /\ k = 1 /\ s[k] = m) \/ ((sent = <<>> \/ k # 1) /\ s[k].kind = "ask")
    <2>1. CASE calls = <<>>
      <3>1. s = a BY <1>2, <2>1, ConcatEmptySeq
      <3>2. sent = <<>> => Len(s) = 0 BY <1>20, <3>1
      <3>3. sent # <<>> => Len(s) = 1 /\ s[1] = m BY <1>20, <3>1
      <3> QED BY <3>2, <3>3
    <2>2. ASSUME NEW t \in TestsOf(w), calls = <<Ask(t)>> PROVE <1>7!:
      <3>0. Ask(t).kind = "ask" BY DEF Ask
      <3>1. PICK x : x = Ask(t) /\ x.kind = "ask" BY <3>0
      <3>6. Len(<<x>>) = 1 /\ <<x>>[1] = x OBVIOUS
      <3>7. <<m>> \o <<x>> = <<m, x>> BY PairOf
      <3>2. sent = <<>> => s = <<x>> BY <1>20, <2>2, <3>1
      <3>3. sent # <<>> => s = <<m, x>> BY <1>20, <2>2, <3>1, <3>7
      <3>4. sent = <<>> => Len(s) = 1 /\ s[1].kind = "ask" BY <3>1, <3>2, <3>6
      <3>8. Len(<<m, x>>) = 2 /\ <<m, x>>[1] = m /\ <<m, x>>[2] = x BY PairOf
      <3>5. sent # <<>> => Len(s) = 2 /\ s[1] = m /\ s[2].kind = "ask" BY <3>1, <3>3, <3>8
      <3> HIDE DEF s
      <3> QED BY <3>4, <3>5
    <2> QED BY <1>3, <2>1, <2>2
  <1>8. sent # <<>> => 1 \in 1..Len(s)
    BY <1>3, <1>20
  <1> HIDE DEF s, a
  <1>9. sent = <<>> => TasksOf(sent) = {} /\ Range(sent) = {} BY DEF TasksOf, Range
  <1>10. \A k \in 1..Len(s) : \A x, v :
           Packs(s[k], x, v) <=> k = 1 /\ x \in TasksOf(sent) /\ v = result'[x]
    BY <1>1, <1>7, <1>9 DEF Packs
  <1>11. \A k \in 1..Len(s) : \A t : Tells(s[k], t) <=> k = 1 /\ Finish(t) \in Range(sent)
    BY <1>1, <1>7, <1>9 DEF Tells
  <1> QED BY <1>4, <1>5, <1>6, <1>8, <1>10, <1>11 DEF SentIs

LEMMA Behind ==
  ASSUME NEW S, NEW q \in Seq(S), NEW s \in Seq(S), NEW n \in Nat, NEW l \in Nat, n = Len(q), l = Len(s)
  PROVE  /\ DOMAIN q = 1..n /\ DOMAIN (q \o s) = 1..(n + l)
         /\ \A k \in 1..n : (q \o s)[k] = q[k]
         /\ \A k \in (n + 1)..(n + l) : k - n \in 1..l /\ (q \o s)[k] = s[k - n]
  <1>1. DOMAIN q = 1..n /\ DOMAIN (q \o s) = 1..(n + l) BY ConcatProperties, LenProperties
  <1>2. \A k \in 1..(n + l) : (q \o s)[k] = IF k <= n THEN q[k] ELSE s[k - n] BY ConcatProperties
  <1>3. \A k \in 1..n : k \in 1..(n + l) /\ k <= n OBVIOUS
  <1>4. \A k \in (n + 1)..(n + l) : k \in 1..(n + l) /\ ~(k <= n) /\ k - n \in 1..l OBVIOUS
  <1> QED BY <1>1, <1>2, <1>3, <1>4

\* The message after the first n tells what is sent, with the results of its tasks; no other of
\* the new ones has any.
GrowsBy(n, l, before, after, results, sent) ==
  /\ DOMAIN before = 1..n /\ DOMAIN after = 1..(n + l)
  /\ \A k \in 1..n : after[k] = before[k]
  /\ sent # <<>> => n + 1 \in 1..(n + l)
  /\ \A k \in (n + 1)..(n + l) : \A x, v :
       Packs(after[k], x, v) <=> k = n + 1 /\ x \in TasksOf(sent) /\ v = results[x]
  /\ \A k \in (n + 1)..(n + l) : \A t : Tells(after[k], t) <=> k = n + 1 /\ Finish(t) \in Range(sent)

LEMMA Grows ==
  ASSUME Sequences, NEW w \in Workers, NEW new, NEW sent, NEW rest, NEW calls, Sending(w, new, sent, rest, calls)
  PROVE  \E n \in Nat, l \in Nat : GrowsBy(n, l, channel[w], channel'[w], result', sent)
  <1>1. PICK s \in Seq(Messages(w)) :
           /\ channel' = [channel EXCEPT ![w] = @ \o s]
           /\ sent # <<>> => 1 \in 1..Len(s)
           /\ \A k \in 1..Len(s) : \A x, v :
                Packs(s[k], x, v) <=> k = 1 /\ x \in TasksOf(sent) /\ v = result'[x]
           /\ \A k \in 1..Len(s) : \A t : Tells(s[k], t) <=> k = 1 /\ Finish(t) \in Range(sent)
    <2>1. PICK s \in Seq(Messages(w)) :
            SentIs(s, w, sent) BY Sent
    <2> QED BY <2>1 DEF SentIs
  <1>2. PICK q \in Seq(Messages(w)) : q = channel[w] BY DEF Sequences
  <1>3. channel'[w] = q \o s BY <1>1, <1>2 DEF Sequences
  <1>4. PICK n \in Nat, l \in Nat : n = Len(q) /\ l = Len(s) BY LenProperties
  <1>5. /\ DOMAIN q = 1..n /\ DOMAIN (q \o s) = 1..(n + l)
        /\ \A k \in 1..n : (q \o s)[k] = q[k]
        /\ \A k \in (n + 1)..(n + l) : k - n \in 1..l /\ (q \o s)[k] = s[k - n]
    BY <1>4, Behind
  <1>6. \A k \in (n + 1)..(n + l) : (k - n = 1) <=> (k = n + 1) OBVIOUS
  <1>7. sent # <<>> => n + 1 \in 1..(n + l)
    <2>1. sent # <<>> => 1 \in 1..l BY <1>1, <1>4
    <2>2. 1 \in 1..l => n + 1 \in 1..(n + l) OBVIOUS
    <2> QED BY <2>1, <2>2
  <1>8. \A k \in (n + 1)..(n + l) : k - n \in 1..Len(s) /\ channel'[w][k] = s[k - n]
    BY <1>3, <1>4, <1>5
  <1>9. \A k \in (n + 1)..(n + l) : \A x, v :
          Packs(channel'[w][k], x, v) <=> k = n + 1 /\ x \in TasksOf(sent) /\ v = result'[x]
    BY ONLY <1>1, <1>6, <1>8, ZenonT(60)
  <1>10. \A k \in (n + 1)..(n + l) : \A t :
           Tells(channel'[w][k], t) <=> k = n + 1 /\ Finish(t) \in Range(sent)
    BY ONLY <1>1, <1>6, <1>8
  <1>11. /\ DOMAIN channel[w] = 1..n /\ DOMAIN (channel'[w]) = 1..(n + l)
         /\ \A k \in 1..n : channel'[w][k] = channel[w][k]
    BY <1>2, <1>3, <1>5
  <1> QED BY ONLY <1>7, <1>9, <1>10, <1>11 DEF GrowsBy

LEMMA SendSequences ==
  ASSUME Sequences, NEW w \in Workers, NEW new, NEW sent, NEW rest, NEW calls, Sending(w, new, sent, rest, calls)
  PROVE  Sequences'
  <1>1. PICK s \in Seq(Messages(w)) : channel' = [channel EXCEPT ![w] = @ \o s] BY Sent DEF SentIs
  <1>2. channel[w] \o s \in Seq(Messages(w)) /\ emitted[w] \o new \in Seq(OwnEvents(w))
    BY ConcatProperties DEF Sequences, Sending
  <1>3. /\ DOMAIN emitted' = Workers
        /\ \A v \in Workers : emitted'[v] = IF v = w THEN emitted[w] \o new ELSE emitted[v]
        /\ eventsPacks' = [eventsPacks EXCEPT ![w] = rest] /\ rest \in Seq(OwnEvents(w))
        /\ channel' = [channel EXCEPT ![w] = channel[w] \o s]
        /\ UNCHANGED <<told, handlers, received, alone>>
    BY <1>1 DEF Sending
  <1> QED BY <1>2, <1>3 DEF Sequences

\* What each worker has on its way, after.
LEMMA SendOnTheWay ==
  ASSUME Sequences, NEW w \in Workers, NEW new, NEW sent, NEW rest, NEW calls, Sending(w, new, sent, rest, calls)
  PROVE  /\ OnTheWay(w)' = OnTheWay(w) \o sent
         /\ \A v \in Workers : v # w => OnTheWay(v)' = OnTheWay(v)
         /\ \A v \in Workers : OnTheWay(v) \in Seq(OwnEvents(v))
  <1>1. PICK s \in Seq(Messages(w)) : channel' = [channel EXCEPT ![w] = @ \o s] /\ EventsIn(s) = sent BY Sent DEF SentIs
  <1>2. \A v \in Workers : OnTheWay(v) = EventsIn(channel[v]) /\ OnTheWay(v)' = EventsIn(channel'[v])
    BY DEF OnTheWay, EventsIn
  <1>3. channel[w] \in Seq(Messages(w)) BY DEF Sequences
  <1>4. EventsIn(channel[w] \o s) = EventsIn(channel[w]) \o EventsIn(s) BY <1>3, EventsInConcat
  <1>5. \A v \in Workers : channel'[v] = IF v = w THEN channel[w] \o s ELSE channel[v]
    BY <1>1 DEF Sequences
  <1>6. \A v \in Workers : EventsIn(channel[v]) \in Seq(OwnEvents(v)) BY EventsInType DEF Sequences
  <1> QED BY <1>1, <1>2, <1>4, <1>5, <1>6

LEMMA SendOrder ==
  ASSUME Sequences, InOrder, NEW w \in Workers, NEW new, NEW sent, NEW rest, NEW calls,
         Sending(w, new, sent, rest, calls)
  PROVE  InOrder'
  <1>8. ToldInOrder' BY DEF InOrder, ToldInOrder, Sending
  <1> SUFFICES ASSUME NEW v \in Workers
               PROVE  emitted'[v] = received'[v] \o OnTheWay(v)' \o eventsPacks'[v]
    BY <1>8 DEF InOrder, EventsReceived
  <1>1. emitted[v] = received[v] \o OnTheWay(v) \o eventsPacks[v] BY DEF InOrder, EventsReceived
  <1>2. OnTheWay(w)' = OnTheWay(w) \o sent /\ (v # w => OnTheWay(v)' = OnTheWay(v))
        /\ OnTheWay(w) \in Seq(OwnEvents(w))
    BY SendOnTheWay
  <1>3. received' = received BY DEF Sending
  <1>4. emitted'[v] = IF v = w THEN emitted[w] \o new ELSE emitted[v] BY DEF Sending, Sequences
  <1>5. eventsPacks'[v] = IF v = w THEN rest ELSE eventsPacks[v] BY DEF Sending, Sequences
  <1>6. CASE v # w BY <1>1, <1>2, <1>3, <1>4, <1>5, <1>6
  <1>7. CASE v = w
    <2>1. PICK M : M = OwnEvents(w) OBVIOUS
    <2>2. PICK a, b, c, n, s, r : /\ a = received[w] /\ b = OnTheWay(w) /\ c = eventsPacks[w]
                                  /\ n = new /\ s = sent /\ r = rest
      OBVIOUS
    <2>3. a \in Seq(M) /\ b \in Seq(M) /\ c \in Seq(M) BY <1>2, <2>1, <2>2 DEF Sequences
    <2>4. c \o n = s \o r /\ n \in Seq(M) /\ s \in Seq(M) /\ r \in Seq(M) BY <2>1, <2>2 DEF Sending
    <2>5. ((a \o b) \o c) \o n = (a \o (b \o s)) \o r
      <3>1. PICK d : d = a \o b OBVIOUS
      <3>2. d \in Seq(M) BY ONLY <2>3, <3>1, ConcatProperties
      <3>3. c \in Seq(M) /\ n \in Seq(M) BY ONLY <2>3, <2>4
      <3>4. s \in Seq(M) /\ r \in Seq(M) BY ONLY <2>4
      <3>5. a \in Seq(M) /\ b \in Seq(M) BY ONLY <2>3
      <3>6. (d \o c) \o n = d \o (c \o n) BY ONLY <3>2, <3>3, ConcatAssociative, SMTT(30)
      <3>7. (d \o s) \o r = d \o (s \o r) BY ONLY <3>2, <3>4, ConcatAssociative, SMTT(30)
      <3>8. s \in Seq(M) BY ONLY <3>4
      <3>9. (a \o b) \o s = a \o (b \o s) BY ONLY <3>5, <3>8, ConcatAssociative
      <3> QED BY ONLY <2>4, <3>1, <3>6, <3>7, <3>9
    <2>6. emitted'[v] = ((a \o b) \o c) \o n BY <1>1, <1>4, <1>7, <2>2
    <2>7. received'[v] = a /\ OnTheWay(v)' = b \o s /\ eventsPacks'[v] = r
      BY <1>2, <1>3, <1>5, <1>7, <2>2
    <2> QED BY ONLY <2>5, <2>6, <2>7
  <1> QED BY <1>6, <1>7

LEMMA LenConcat ==
  ASSUME NEW S, NEW a \in Seq(S), NEW b \in Seq(S) PROVE Len(a \o b) = Len(a) + Len(b)
  BY ConcatProperties

LEMMA SendCounts ==
  ASSUME Sequences, AllAreThere, NEW w \in Workers, NEW new, NEW sent, NEW rest, NEW calls,
         Sending(w, new, sent, rest, calls)
  PROVE  AllAreThere'
  <1> SUFFICES ASSUME NEW v \in Workers PROVE AllThere(v)'
    BY DEF AllAreThere
  <1>1. AllThere(v) BY DEF AllAreThere
  <1>2. OnTheWay(w)' = OnTheWay(w) \o sent /\ (v # w => OnTheWay(v)' = OnTheWay(v))
        /\ OnTheWay(w) \in Seq(OwnEvents(w))
    BY SendOnTheWay
  <1>3. told' = told /\ handlers' = handlers BY DEF Sending
  <1>4. emitted'[v] = IF v = w THEN emitted[w] \o new ELSE emitted[v] BY DEF Sending, Sequences
  <1>5. eventsPacks'[v] = IF v = w THEN rest ELSE eventsPacks[v] BY DEF Sending, Sequences
  <1>6. CASE v # w BY <1>1, <1>2, <1>3, <1>4, <1>5, <1>6 DEF AllThere
  <1>7. CASE v = w
    <2>1. emitted[w] \in Seq(OwnEvents(w)) /\ new \in Seq(OwnEvents(w)) /\ sent \in Seq(OwnEvents(w))
          /\ rest \in Seq(OwnEvents(w)) /\ eventsPacks[w] \in Seq(OwnEvents(w))
          /\ told[w] \in Seq(OwnEvents(w)) /\ FlattenSeq(handlers[w]) \in Seq(OwnEvents(w))
      BY FlattenType DEF Sending, Sequences
    <2>2. Len(emitted'[w]) = Len(emitted[w]) + Len(new) /\ Range(emitted'[w]) = Range(emitted[w]) \cup Range(new)
      <3>1. emitted[w] \in Seq(OwnEvents(w)) /\ new \in Seq(OwnEvents(w)) BY <2>1
      <3>2. Len(emitted[w] \o new) = Len(emitted[w]) + Len(new) BY ONLY <3>1, LenConcat
      <3>3. Range(emitted[w] \o new) = Range(emitted[w]) \cup Range(new) BY ONLY <3>1, TasksOfConcat
      <3> QED BY <1>4, <1>7, <3>2, <3>3
    <2>3. Len(OnTheWay(w)') = Len(OnTheWay(w)) + Len(sent)
          /\ Range(OnTheWay(w)') = Range(OnTheWay(w)) \cup Range(sent)
      <3>1. OnTheWay(w) \in Seq(OwnEvents(w)) /\ sent \in Seq(OwnEvents(w)) BY <1>2, <2>1
      <3>2. Len(OnTheWay(w) \o sent) = Len(OnTheWay(w)) + Len(sent) BY ONLY <3>1, LenConcat
      <3>3. Range(OnTheWay(w) \o sent) = Range(OnTheWay(w)) \cup Range(sent) BY ONLY <3>1, TasksOfConcat
      <3> QED BY <1>2, <3>2, <3>3
    <2>4. Len(eventsPacks[w]) + Len(new) = Len(sent) + Len(rest)
          /\ Range(eventsPacks[w]) \cup Range(new) = Range(sent) \cup Range(rest)
      <3>1. eventsPacks[w] \o new = sent \o rest BY DEF Sending
      <3>2. eventsPacks[w] \in Seq(OwnEvents(w)) /\ new \in Seq(OwnEvents(w)) BY <2>1
      <3>3. sent \in Seq(OwnEvents(w)) /\ rest \in Seq(OwnEvents(w)) BY <2>1
      <3>4. Len(eventsPacks[w] \o new) = Len(eventsPacks[w]) + Len(new) BY ONLY <3>2, LenConcat
      <3>5. Len(sent \o rest) = Len(sent) + Len(rest) BY ONLY <3>3, LenConcat
      <3>6. Range(eventsPacks[w] \o new) = Range(eventsPacks[w]) \cup Range(new) BY ONLY <3>2, TasksOfConcat
      <3>7. Range(sent \o rest) = Range(sent) \cup Range(rest) BY ONLY <3>3, TasksOfConcat
      <3> QED BY ONLY <3>1, <3>4, <3>5, <3>6, <3>7
    <2>5. eventsPacks'[w] = rest BY <1>5, <1>7
    <2>6. Len(emitted'[w]) = Len(told'[w]) + Len(FlattenSeq(handlers'[w])) + Len(OnTheWay(w)') + Len(eventsPacks'[w])
      <3>1. {Len(emitted[w]), Len(new), Len(sent), Len(rest), Len(eventsPacks[w]), Len(told[w]),
             Len(FlattenSeq(handlers[w])), Len(OnTheWay(w))} \subseteq Nat
        BY <1>2, <2>1, LenProperties
      <3>2. Len(emitted[w]) = Len(told[w]) + Len(FlattenSeq(handlers[w])) + Len(OnTheWay(w)) + Len(eventsPacks[w])
        BY <1>1, <1>7 DEF AllThere
      <3>3. PICK e \in Nat, n \in Nat, s \in Nat, r \in Nat, p \in Nat, t \in Nat, f \in Nat, o \in Nat :
              /\ e = Len(emitted[w]) /\ n = Len(new) /\ s = Len(sent) /\ r = Len(rest)
              /\ p = Len(eventsPacks[w]) /\ t = Len(told[w]) /\ f = Len(FlattenSeq(handlers[w]))
              /\ o = Len(OnTheWay(w))
        BY ONLY <3>1
      <3>4. e + n = t + f + (o + s) + r
        <4>1. e = t + f + o + p /\ p + n = s + r BY <2>4, <3>2, <3>3
        <4> QED BY ONLY <4>1
      <3> QED BY <1>3, <2>2, <2>3, <2>5, <3>3, <3>4
    <2>7. Range(emitted'[w]) = Range(told'[w]) \cup Range(FlattenSeq(handlers'[w])) \cup Range(OnTheWay(w)')
                                 \cup Range(eventsPacks'[w])
      <3>1. Range(emitted[w]) = Range(told[w]) \cup Range(FlattenSeq(handlers[w])) \cup Range(OnTheWay(w))
                                 \cup Range(eventsPacks[w])
        BY <1>1, <1>7 DEF AllThere
      <3> QED BY <1>3, <2>2, <2>3, <2>4, <2>5, <3>1
    <2> QED BY <1>7, <2>6, <2>7 DEF AllThere
  <1> QED BY <1>6, <1>7

LEMMA SendLast ==
  ASSUME Sequences, LastIsSo, result \in [Tasks -> States], NEW w \in Workers, NEW new, NEW sent, NEW rest, NEW calls,
         Sending(w, new, sent, rest, calls)
  PROVE  LastIsSo'
  <1> SUFFICES ASSUME NEW v \in Workers, NEW x \in TasksOfWorker(v), x \notin TasksOf(eventsPacks'[v])
               PROVE  LastIs(v, x, result[x])'
    BY DEF LastIsSo
  <1>1. channel'[v] = channel[v] \/ v = w BY DEF Sending, SendTasksUpdate, Sequences
  <1>2. eventsPacks'[v] = IF v = w THEN rest ELSE eventsPacks[v] BY DEF Sending, Sequences
  <1>3. tasks' = tasks BY DEF Sending
  <1>4. TasksOf(new) \subseteq TasksOfWorker(w)
    <2>1. Range(new) \subseteq OwnEvents(w) BY DEF Range, Sending
    <2> QED BY <2>1 DEF TasksOf, OwnEvents
  <1>5. x \in Tasks BY OneWorkerEach
  <1>6. x \in TasksOf(eventsPacks[v]) \/ LastIs(v, x, result[x]) BY DEF LastIsSo
  <1>7. CASE v # w
    <2>1. x \notin TasksOf(new) BY <1>4, <1>7, OneWorkerEach
    <2>2. result'[x] = result[x] BY <1>5, <2>1 DEF Sending
    <2>3. LastIs(v, x, result[x]) BY <1>2, <1>6, <1>7
    <2> QED BY <1>1, <1>3, <1>7, <2>2, <2>3 DEF LastIs, Packs
  <1>8. CASE v = w
    <2>1. PICK n \in Nat, l \in Nat : GrowsBy(n, l, channel[w], channel'[w], result', sent) BY Grows
    <2>2. x \notin TasksOf(rest) BY <1>2, <1>8
    <2>3. TasksOf(eventsPacks[w]) \cup TasksOf(new) = TasksOf(sent) \cup TasksOf(rest)
      <3>1. eventsPacks[w] \o new = sent \o rest BY DEF Sending
      <3>2. eventsPacks[w] \in Seq(OwnEvents(w)) /\ new \in Seq(OwnEvents(w)) BY DEF Sending, Sequences
      <3>3. sent \in Seq(OwnEvents(w)) /\ rest \in Seq(OwnEvents(w)) BY DEF Sending
      <3>4. TasksOf(eventsPacks[w] \o new) = TasksOf(eventsPacks[w]) \cup TasksOf(new) BY ONLY <3>2, TasksOfConcat
      <3>5. TasksOf(sent \o rest) = TasksOf(sent) \cup TasksOf(rest) BY ONLY <3>3, TasksOfConcat
      <3> QED BY ONLY <3>1, <3>4, <3>5
    <2>4. CASE x \in TasksOf(sent)
      <3>1. sent # <<>> BY <2>4 DEF TasksOf, Range
      <3>2. n + 1 \in DOMAIN (channel'[w]) /\ n + 1 \in (n + 1)..(n + l) BY <2>1, <3>1 DEF GrowsBy
      <3>3. Packs(channel'[w][n + 1], x, result'[x]) BY <2>1, <2>4, <3>2 DEF GrowsBy
      <3>4. \A k \in DOMAIN (channel'[w]) : k > n + 1 => \A u \in States : ~Packs(channel'[w][k], x, u)
        <4>1. DOMAIN (channel'[w]) = 1..(n + l) BY <2>1 DEF GrowsBy
        <4>2. \A k \in (n + 1)..(n + l) : k # n + 1 => \A u : ~Packs(channel'[w][k], x, u)
          BY <2>1 DEF GrowsBy
        <4>3. \A k \in 1..(n + l) : k > n + 1 => k \in (n + 1)..(n + l) /\ k # n + 1 OBVIOUS
        <4> QED BY ONLY <4>1, <4>2, <4>3
      <3> QED BY <1>8, <3>2, <3>3, <3>4 DEF LastIs, Packs
    <2>5. CASE x \notin TasksOf(sent)
      <3>1. x \notin TasksOf(eventsPacks[w]) /\ x \notin TasksOf(new) BY <2>2, <2>3, <2>5
      <3>2. result'[x] = result[x] BY <1>5, <3>1 DEF Sending
      <3>3. LastIs(w, x, result[x]) BY <1>6, <1>8, <3>1
      <3>4. \A k \in (n + 1)..(n + l) : \A u : ~Packs(channel'[w][k], x, u) BY <2>1, <2>5 DEF GrowsBy
      <3>5. /\ DOMAIN channel[w] = 1..n /\ DOMAIN (channel'[w]) = 1..(n + l)
            /\ \A k \in 1..n : channel'[w][k] = channel[w][k]
        BY <2>1 DEF GrowsBy
      <3>6. \A k \in DOMAIN (channel'[w]) : k \in 1..n \/ k \in (n + 1)..(n + l) BY <3>5
      <3>7. DOMAIN channel[w] \subseteq DOMAIN (channel'[w]) BY <3>5
      <3>8. CASE \A k \in DOMAIN channel[w] : \A u \in States : ~Packs(channel[w][k], x, u)
        <4>0. result[x] \in States BY <1>5
        <4>1. tasks[x] = result[x] BY <3>3, <3>8, <4>0 DEF LastIs
        <4>2. \A k \in DOMAIN (channel'[w]) : \A u \in States : ~Packs(channel'[w][k], x, u)
          BY <3>4, <3>5, <3>6, <3>8
        <4> QED BY <1>3, <1>8, <3>2, <4>1, <4>2 DEF LastIs, Packs
      <3>9. ASSUME NEW j \in DOMAIN channel[w], Packs(channel[w][j], x, result[x]),
                   \A k \in DOMAIN channel[w] : k > j => \A u \in States : ~Packs(channel[w][k], x, u)
            PROVE  LastIs(w, x, result[x])'
        <4>1. j \in DOMAIN (channel'[w]) /\ Packs(channel'[w][j], x, result'[x]) BY <3>2, <3>5, <3>7, <3>9
        <4>2. \A k \in DOMAIN (channel'[w]) : k > j => \A u \in States : ~Packs(channel'[w][k], x, u)
          BY <3>4, <3>5, <3>6, <3>9
        <4> QED BY <4>1, <4>2 DEF LastIs, Packs
      <3> QED BY <1>8, <3>3, <3>8, <3>9 DEF LastIs
    <2> QED BY <2>4, <2>5
  <1> QED BY <1>7, <1>8

LEMMA SendFinish ==
  ASSUME Sequences, FinishIsLast, NEW w \in Workers, NEW new, NEW sent, NEW rest, NEW calls,
         Sending(w, new, sent, rest, calls)
  PROVE  FinishIsLast'
  <1> SUFFICES ASSUME NEW t \in Tests
               PROVE  LET v == WorkerOf[t] IN
                 /\ Finish(t) \in Range(eventsPacks'[v]) => place'[t] = "done"
                 /\ \A j \in DOMAIN (channel'[v]) : Tells(channel'[v][j], t) =>
                      place'[t] = "done" /\ \A k \in DOMAIN (channel'[v]) : k >= j => IsLast(t, channel[v][k])'
                 /\ Finish(t) \in Range(told'[v]) \cup Range(FlattenSeq(handlers'[v])) =>
                      /\ place'[t] = "done" /\ tasks'[t] = result'[t]
                      /\ \A k \in DOMAIN (channel'[v]) : IsLast(t, channel[v][k])'
    BY DEF FinishIsLast, Tells
  <1>1. PICK v \in Workers : v = WorkerOf[t] BY OneWorkerEach
  <1>2. /\ Finish(t) \in Range(eventsPacks[v]) => place[t] = "done"
        /\ \A j \in DOMAIN channel[v] : Tells(channel[v][j], t) =>
             place[t] = "done" /\ \A k \in DOMAIN channel[v] : k >= j => IsLast(t, channel[v][k])
        /\ Finish(t) \in Range(told[v]) \cup Range(FlattenSeq(handlers[v])) =>
             /\ place[t] = "done" /\ tasks[t] = result[t]
             /\ \A k \in DOMAIN channel[v] : IsLast(t, channel[v][k])
    BY <1>1 DEF FinishIsLast
  <1>3. /\ place[t] = "done" => place'[t] = "done" /\ result'[t] = result[t]
        /\ told' = told /\ handlers' = handlers /\ tasks' = tasks
    BY DEF Sending
  <1>4. \A k : IsLast(t, channel[v][k])' <=> \A x \in States : Packs(channel'[v][k], t, x) => x = result'[t]
    BY DEF IsLast, Packs
  <1>5. CASE v # w
    <2>1. channel'[v] = channel[v] /\ eventsPacks'[v] = eventsPacks[v]
      BY <1>5 DEF Sending, SendTasksUpdate, Sequences
    <2>2. \A k : place[t] = "done" /\ IsLast(t, channel[v][k]) => IsLast(t, channel[v][k])'
      BY <1>3, <1>4, <2>1 DEF IsLast
    <2> QED BY <1>1, <1>2, <1>3, <2>1, <2>2
  <1>6. CASE v = w
    <2>1. PICK n \in Nat, l \in Nat : GrowsBy(n, l, channel[w], channel'[w], result', sent) BY Grows
    <2>2. /\ DOMAIN channel[w] = 1..n /\ DOMAIN (channel'[w]) = 1..(n + l)
          /\ \A k \in 1..n : channel'[w][k] = channel[w][k]
          /\ \A k \in (n + 1)..(n + l) : \A x, u :
               Packs(channel'[w][k], x, u) <=> k = n + 1 /\ x \in TasksOf(sent) /\ u = result'[x]
          /\ \A k \in (n + 1)..(n + l) :
               Tells(channel'[w][k], t) <=> k = n + 1 /\ Finish(t) \in Range(sent)
      BY <2>1 DEF GrowsBy
    <2>3. \A k \in 1..(n + l) : k \in 1..n \/ k \in (n + 1)..(n + l) OBVIOUS
    <2>4. \A k \in (n + 1)..(n + l) : IsLast(t, channel[w][k])'
      BY <1>4, <1>6, <2>2
    <2>5. \A k \in 1..n : place[t] = "done" /\ IsLast(t, channel[w][k]) => IsLast(t, channel[w][k])'
      BY <1>3, <1>4, <1>6, <2>2 DEF IsLast
    <2>6. Range(eventsPacks[w]) \cup Range(new) = Range(sent) \cup Range(rest)
      <3>1. eventsPacks[w] \o new = sent \o rest BY DEF Sending
      <3>2. eventsPacks[w] \in Seq(OwnEvents(w)) /\ new \in Seq(OwnEvents(w)) BY DEF Sending, Sequences
      <3>3. sent \in Seq(OwnEvents(w)) /\ rest \in Seq(OwnEvents(w)) BY DEF Sending
      <3>4. Range(eventsPacks[w] \o new) = Range(eventsPacks[w]) \cup Range(new) BY ONLY <3>2, TasksOfConcat
      <3>5. Range(sent \o rest) = Range(sent) \cup Range(rest) BY ONLY <3>3, TasksOfConcat
      <3> QED BY ONLY <3>1, <3>4, <3>5
    <2>7. Finish(t) \in Range(eventsPacks[w]) \cup Range(new) => place'[t] = "done"
      <3>1. Finish(t) \in Range(new) => place'[t] = "done" BY DEF Sending
      <3> QED BY <1>2, <1>3, <1>6, <3>1
    <2>8. eventsPacks'[w] = rest BY DEF Sending, Sequences
    <2>9. Finish(t) \in Range(eventsPacks'[w]) => place'[t] = "done" BY <2>6, <2>7, <2>8
    <2>10. ASSUME NEW j \in DOMAIN (channel'[w]), Tells(channel'[w][j], t)
           PROVE  place'[t] = "done" /\ \A k \in DOMAIN (channel'[w]) : k >= j => IsLast(t, channel[w][k])'
      <3>1. CASE j \in 1..n
        <4>1. Tells(channel[w][j], t) BY <2>2, <2>10, <3>1
        <4>2. place[t] = "done" /\ \A k \in 1..n : k >= j => IsLast(t, channel[w][k])
          BY <1>2, <1>6, <2>2, <3>1, <4>1
        <4> QED BY <1>3, <2>2, <2>3, <2>4, <2>5, <4>2
      <3>2. CASE j \in (n + 1)..(n + l)
        <4>1. Finish(t) \in Range(sent) BY <2>2, <2>10, <3>2
        <4>2. place'[t] = "done" BY <2>6, <2>7, <4>1
        <4>3. \A k \in 1..(n + l) : k >= j => k \in (n + 1)..(n + l) BY <3>2
        <4> QED BY <2>2, <2>4, <4>2, <4>3
      <3> QED BY <2>2, <2>3, <3>1, <3>2
    <2>11. Finish(t) \in Range(told'[w]) \cup Range(FlattenSeq(handlers'[w])) =>
             /\ place'[t] = "done" /\ tasks'[t] = result'[t]
             /\ \A k \in DOMAIN (channel'[w]) : IsLast(t, channel[w][k])'
      BY <1>2, <1>3, <1>6, <2>2, <2>3, <2>4, <2>5
    <2> QED BY <1>1, <1>6, <2>9, <2>10, <2>11
  <1> QED BY <1>5, <1>6

\* All parts that say something of sequences, at once.
LEMMA SendKeeps ==
  ASSUME IInv, NEW w \in Workers, NEW new, NEW sent, NEW rest, NEW calls, Sending(w, new, sent, rest, calls)
  PROVE  Sequences' /\ InOrder' /\ AllAreThere' /\ LastIsSo' /\ FinishIsLast'
  BY SendSequences, SendOrder, SendCounts, SendLast, SendFinish DEF IInv, Typed, TypeOK

-----------------------------------------------------------------------------
(* The actions of a worker                                                 *)

Positions == {"queued", "running", "asking", "finished", "flushing", "done"}

\* The worker w, whose file is under way, emits events.
Emits(w, results, events, calls) ==
  /\ results \in [Tasks -> States] /\ events \in Seq(OwnEvents(w)) /\ events # <<>>
  /\ calls = <<>> \/ \E t \in TestsOf(w) : calls = <<Ask(t)>>
  /\ Emit(w, results, events, calls) /\ UNCHANGED server
  /\ \A x \in Tasks : results[x] # result[x] => x \in TasksOf(events)
  /\ \A t \in Tests : place[t] = "done" => place'[t] = "done" /\ results[t] = result[t]
  /\ \A t \in Tests : Finish(t) \in Range(events) => place'[t] = "done"
  /\ place' \in [Tasks -> Positions] /\ DOMAIN tries' = Tests /\ \A t \in Tests : tries'[t] \in 0..Retries[t]
  /\ cancelRun' \in [Workers -> BOOLEAN] /\ cancelled' \in BOOLEAN
  /\ place'[FileOf[w]] \notin {"flushing", "done"}
  /\ \A v \in Workers : v # w => place'[FileOf[v]] = place[FileOf[v]] /\ cancelRun'[v] = cancelRun[v]
  /\ \A t \in Tests : WorkerOf[t] # w => place'[t] = place[t]
  /\ \A t \in TestsOf(w) :
       /\ place'[t] \notin {"finished", "flushing"}
       /\ place'[t] \in {"running", "asking"} => place'[FileOf[w]] = "running"
       /\ place'[t] = "asking" => results[t] = "fail"
       /\ place'[t] = "done" /\ results[t] \in {"none", "run"} => cancelRun'[w]

\* What the throttle lets through and what it keeps are what waited and what is new.
LEMMA EmitSends ==
  ASSUME IInv, NEW w \in Workers, NEW results, NEW events, NEW calls, Emits(w, results, events, calls)
  PROVE  /\ Sequences' /\ InOrder' /\ AllAreThere' /\ LastIsSo' /\ FinishIsLast'
         /\ \A v \in Workers : eventsPacks'[v] # <<>> => pendingCall'[v]
         /\ recent' \in [Workers -> BOOLEAN] /\ pendingCall' \in [Workers -> BOOLEAN]
         /\ \A v \in Workers : v # w => eventsPacks'[v] = eventsPacks[v] /\ channel'[v] = channel[v]
  <1> USE DEF Emits
  <1> DEFINE sent == Leaves(w, events) rest == Waits(w, events)
  <1>14. UNCHANGED <<told, handlers, tasks, received, alone>> BY DEF server
  <1>1. eventsPacks[w] \in Seq(OwnEvents(w)) BY DEF IInv, Typed, Sequences
  <1>2. Head(events) \in OwnEvents(w) /\ Tail(events) \in Seq(OwnEvents(w)) /\ events[1] = Head(events)
        /\ events = <<Head(events)>> \o Tail(events)
    OBVIOUS
  <1>3. sent \in Seq(OwnEvents(w)) /\ rest \in Seq(OwnEvents(w)) /\ eventsPacks[w] \o events = sent \o rest
    <2>1. CASE recent[w]
      <3>1. sent = <<>> /\ rest = eventsPacks[w] \o events BY <2>1 DEF Leaves, Waits
      <3>2. rest \in Seq(OwnEvents(w)) BY <1>1, <3>1, ConcatProperties
      <3>3. <<>> \o rest = rest BY <3>2, ConcatEmptySeq
      <3> QED BY <3>1, <3>2, <3>3
    <2>2. CASE ~recent[w]
      <3>1. PICK M, p, h, r : M = OwnEvents(w) /\ p = eventsPacks[w] /\ h = Head(events) /\ r = Tail(events) OBVIOUS
      <3>2. p \in Seq(M) /\ h \in M /\ r \in Seq(M) /\ events = <<h>> \o r BY ONLY <1>1, <1>2, <3>1
      <3>3. sent = Append(p, h) /\ rest = r BY <1>2, <2>2, <3>1 DEF Leaves, Waits
      <3>4. Append(p, h) = p \o <<h>> /\ Append(p, h) \in Seq(M) BY ONLY <3>2, AppendIsConcat, AppendProperties
      <3>5. p \in Seq(M) /\ <<h>> \in Seq(M) /\ r \in Seq(M) BY ONLY <3>2
      <3>6. (p \o <<h>>) \o r = p \o (<<h>> \o r) BY ONLY <3>5, ConcatAssociative
      <3> QED BY <3>1, <3>2, <3>3, <3>4, <3>6, ZenonT(60)
    <2> QED BY <2>1, <2>2
  <1>4. result' = results /\ emitted' = [emitted EXCEPT ![w] = @ \o events]
        /\ SendTasksUpdate(w, results, sent, calls) /\ eventsPacks' = [eventsPacks EXCEPT ![w] = rest]
    BY DEF Emit
  <1> HIDE DEF sent, rest
  <1>5. Sending(w, events, sent, rest, calls)
    BY <1>3, <1>4, <1>14 DEF Sending, IInv, Typed, Sequences
  <1>6. Sequences' /\ InOrder' /\ AllAreThere' /\ LastIsSo' /\ FinishIsLast' BY <1>5, SendKeeps
  <1>7. pendingCall \in [Workers -> BOOLEAN] /\ recent \in [Workers -> BOOLEAN]
        /\ \A v \in Workers : eventsPacks[v] # <<>> => pendingCall[v]
    BY DEF IInv, Typed, TypeOK
  <1>8. pendingCall' = [pendingCall EXCEPT ![w] = (rest # <<>>)] /\ recent' = [recent EXCEPT ![w] = TRUE]
    BY DEF Emit, TimerSet, rest
  <1>9. DOMAIN eventsPacks = Workers /\ DOMAIN channel = Workers BY DEF IInv, Typed, Sequences
  <1>10. \A v \in Workers : v # w => eventsPacks'[v] = eventsPacks[v] /\ channel'[v] = channel[v]
    BY <1>4, <1>9 DEF SendTasksUpdate
  <1>11. eventsPacks'[w] = rest BY <1>4, <1>9
  <1>12. pendingCall' \in [Workers -> BOOLEAN] /\ recent' \in [Workers -> BOOLEAN] BY <1>7, <1>8
  <1>13. \A v \in Workers : eventsPacks'[v] # <<>> => pendingCall'[v]
    <2> TAKE v \in Workers
    <2>1. CASE v = w
      <3>1. pendingCall'[w] = (rest # <<>>) BY <1>7, <1>8
      <3> QED BY <1>11, <2>1, <3>1
    <2>2. CASE v # w
      <3>1. pendingCall'[v] = pendingCall[v] BY <1>7, <1>8, <2>2
      <3> QED BY <1>7, <1>10, <2>2, <3>1
    <2> QED BY <2>1, <2>2
  <1> QED BY <1>6, <1>10, <1>12, <1>13

LEMMA TypedAfter ==
  ASSUME IInv, Sequences', \A v \in Workers : eventsPacks'[v] # <<>> => pendingCall'[v],
         recent' \in [Workers -> BOOLEAN], pendingCall' \in [Workers -> BOOLEAN],
         result' \in [Tasks -> States], tasks' \in [Tasks -> States], place' \in [Tasks -> Positions],
         DOMAIN tries' = Tests, \A t \in Tests : tries'[t] \in 0..Retries[t],
         failures' \in [Tests -> 0..(1 + Cardinality(Tasks))],
         cancelRun' \in [Workers -> BOOLEAN], cancelled' \in BOOLEAN
  PROVE  Typed'
  <1>1. \A w \in Workers : Range(emitted'[w]) \subseteq Events
    <2> TAKE w \in Workers
    <2>1. emitted'[w] \in Seq(OwnEvents(w)) BY DEF Sequences
    <2>2. Range(emitted'[w]) \subseteq OwnEvents(w) BY <2>1 DEF Range
    <2>3. OwnEvents(w) \subseteq Events
      <3>1. TasksOfWorker(w) \subseteq Tasks BY OneWorkerEach
      <3> QED BY <3>1 DEF OwnEvents, Events, Kinds
    <2> QED BY <2>2, <2>3
  <1>2. TypeOK' BY <1>1 DEF TypeOK, Positions
  <1> QED BY <1>2 DEF Typed

LEMMA EmitInv ==
  ASSUME IInv, NEW w \in Workers, NEW results, NEW events, NEW calls, Emits(w, results, events, calls)
  PROVE  IInv'
  <1> USE DEF Emits
  <1>1. UNCHANGED <<told, handlers, tasks, received, alone>> /\ failures' = failures BY DEF server
  <1>2. /\ Sequences' /\ InOrder' /\ AllAreThere' /\ LastIsSo' /\ FinishIsLast'
        /\ \A v \in Workers : eventsPacks'[v] # <<>> => pendingCall'[v]
        /\ recent' \in [Workers -> BOOLEAN] /\ pendingCall' \in [Workers -> BOOLEAN]
        /\ \A v \in Workers : v # w => eventsPacks'[v] = eventsPacks[v] /\ channel'[v] = channel[v]
    BY EmitSends
  <1>3. result' = results BY DEF Emit
  <1>4. Typed'
    <2>1. tasks \in [Tasks -> States] /\ failures \in [Tests -> 0..(1 + Cardinality(Tasks))]
      BY DEF IInv, Typed, TypeOK
    <2>2. tasks' \in [Tasks -> States] /\ failures' \in [Tests -> 0..(1 + Cardinality(Tasks))]
      BY <1>1, <2>1
    <2> QED BY <1>2, <1>3, <2>2, TypedAfter
  <1>5. Places'
    <2>1. ASSUME NEW t \in Tests
          PROVE  /\ place'[t] \notin {"finished", "flushing"}
                 /\ place'[t] \in {"running", "asking"} => place'[FileOf[WorkerOf[t]]] = "running"
                 /\ place'[t] = "asking" => result'[t] = "fail"
                 /\ place'[t] = "done" /\ result'[t] \in {"none", "run"} => cancelRun'[WorkerOf[t]]
      <3>1. CASE WorkerOf[t] = w BY <1>3, <3>1 DEF TestsOf
      <3>2. CASE WorkerOf[t] # w
        <4>1. PICK v \in Workers : v = WorkerOf[t] /\ t \in TasksOfWorker(v) /\ v # w BY <3>2, OneWorkerEach
        <4>2. t \notin TasksOfWorker(w) /\ t \in Tasks BY <4>1, OneWorkerEach
        <4>3. TasksOf(events) \subseteq TasksOfWorker(w)
          <5>1. Range(events) \subseteq OwnEvents(w) BY DEF Range
          <5> QED BY <5>1 DEF TasksOf, OwnEvents
        <4>4. result'[t] = result[t] /\ place'[t] = place[t] /\ place'[FileOf[v]] = place[FileOf[v]]
              /\ cancelRun'[v] = cancelRun[v]
          BY <1>3, <3>2, <4>1, <4>2, <4>3
        <4>5. /\ place[t] \notin {"finished", "flushing"}
              /\ place[t] \in {"running", "asking"} => place[FileOf[v]] = "running"
              /\ place[t] = "asking" => result[t] = "fail"
              /\ place[t] = "done" /\ result[t] \in {"none", "run"} => cancelRun[v]
          BY <4>1 DEF IInv, Places
        <4> QED BY ONLY <4>1, <4>4, <4>5
      <3> QED BY <3>1, <3>2
    <2>2. ASSUME NEW v \in Workers
          PROVE  /\ place'[FileOf[v]] \in {"flushing", "done"} => eventsPacks'[v] = <<>>
                 /\ place'[FileOf[v]] = "done" => channel'[v] = <<>> /\ handlers'[v] = <<>>
      <3>1. CASE v = w BY <3>1
      <3>2. CASE v # w BY <1>1, <1>2, <3>2 DEF IInv, Places
      <3> QED BY <3>1, <3>2
    <2> QED BY <2>1, <2>2 DEF Places
  <1> QED BY <1>2, <1>4, <1>5 DEF IInv

\* What is in one event, or two.
LEMMA OneEvent ==
  ASSUME NEW S, NEW a \in S
  PROVE  <<a>> \in Seq(S) /\ <<a>> # <<>> /\ Range(<<a>>) = {a} /\ TasksOf(<<a>>) = {a[1]}
  <1>1. Range(<<a>>) = {a} BY DEF Range
  <1> QED BY <1>1 DEF TasksOf

LEMMA TwoEvents ==
  ASSUME NEW S, NEW a \in S, NEW b \in S
  PROVE  /\ <<a>> \o <<b>> \in Seq(S) /\ <<a>> \o <<b>> # <<>>
         /\ TasksOf(<<a>> \o <<b>>) = {a[1], b[1]} /\ Range(<<a>> \o <<b>>) = {a, b}
  <1>1. PICK x, y : x = <<a>> /\ y = <<b>> OBVIOUS
  <1>2. Range(<<a>>) = {a} /\ Range(<<b>>) = {b} BY OneEvent
  <1>3. x \in Seq(S) /\ y \in Seq(S) BY <1>1, OneEvent
  <1>4. Range(x \o y) = Range(x) \cup Range(y) /\ x \o y \in Seq(S) BY ONLY <1>3, TasksOfConcat, ConcatProperties
  <1>5. Range(x \o y) = {a, b} BY <1>1, <1>2, <1>4
  <1>6. x \o y # <<>>
    <2>1. Range(<<>>) = {} BY DEF Range
    <2> QED BY <1>5, <2>1
  <1>7. TasksOf(x \o y) = {a[1], b[1]} BY <1>5 DEF TasksOf
  <1> QED BY ONLY <1>1, <1>4, <1>5, <1>6, <1>7

LEMMA OneAndNone ==
  ASSUME NEW S, NEW a \in S PROVE <<a>> \o <<>> = <<a>>
  <1>1. <<a>> \in Seq(S) BY OneEvent
  <1> QED BY <1>1, ConcatEmptySeq

LEMMA FileStartsInv ==
  ASSUME IInv, NEW w \in Workers, FileStarts(w) PROVE IInv'
  <1> DEFINE f == FileOf[w]
             c == cancelRun[w]
             results == [result EXCEPT ![f] = IF c THEN "skip" ELSE "run"]
             events == <<<<f, "suite-prepare">>>> \o IF c THEN <<<<f, "suite-finished">>>> ELSE <<>>
  <1>1. /\ result \in [Tasks -> States] /\ place \in [Tasks -> Positions] /\ cancelRun \in [Workers -> BOOLEAN]
        /\ DOMAIN tries = Tests /\ (\A t \in Tests : tries[t] \in 0..Retries[t]) /\ cancelled \in BOOLEAN
    BY DEF IInv, Typed, TypeOK, Positions
  <1>2. f \in TasksOfWorker(w) /\ f \in Tasks /\ f \notin Tests /\ \A v \in Workers : v # w => FileOf[v] # f
    BY OneWorkerEach, UpdatesAssumption DEF TasksOfWorker, Files, IsInjective
  <1>3. place' = [place EXCEPT ![f] = IF c THEN "finished" ELSE "running"] /\ place[f] = "queued"
        /\ Emit(w, results, events, <<>>) /\ UNCHANGED <<tries, server, cancelRun, cancelled>>
    BY DEF FileStarts
  <1>4. <<f, "suite-prepare">> \in OwnEvents(w) /\ <<f, "suite-finished">> \in OwnEvents(w) /\ c \in BOOLEAN
    BY <1>1, <1>2 DEF OwnEvents, Kinds
  <1>5. events \in Seq(OwnEvents(w)) /\ events # <<>> /\ f \in TasksOf(events)
        /\ Range(events) \subseteq {<<f, "suite-prepare">>, <<f, "suite-finished">>}
    <2>1. PICK a, b, e : a = <<f, "suite-prepare">> /\ b = <<f, "suite-finished">> /\ e = events OBVIOUS
    <2>2. a \in OwnEvents(w) /\ b \in OwnEvents(w) BY <1>4, <2>1
    <2>3. a[1] = f BY <2>1
    <2>4. e = <<a>> \o <<b>> \/ e = <<a>> \o <<>> BY <2>1
    <2>5. e \in Seq(OwnEvents(w)) /\ e # <<>> /\ a[1] \in TasksOf(e) /\ Range(e) \subseteq {a, b}
      <3>1. CASE e = <<a>> \o <<b>>
        <4>1. /\ <<a>> \o <<b>> \in Seq(OwnEvents(w)) /\ <<a>> \o <<b>> # <<>>
              /\ TasksOf(<<a>> \o <<b>>) = {a[1], b[1]} /\ Range(<<a>> \o <<b>>) = {a, b}
          BY ONLY <2>2, TwoEvents, ZenonT(60)
        <4> QED BY <3>1, <4>1
      <3>2. CASE e = <<a>> \o <<>> BY ONLY <2>2, <3>2, OneAndNone, OneEvent
      <3> QED BY ONLY <2>4, <3>1, <3>2
    <2> QED BY ONLY <2>1, <2>3, <2>5
  <1>6. results \in [Tasks -> States] BY <1>1 DEF States
  <1>7. \A x \in Tasks : results[x] # result[x] => x \in TasksOf(events) BY <1>1, <1>5
  <1>8. \A t \in Tests : Finish(t) \notin Range(events) BY <1>5 DEF Finish
  <1>9. \A t \in Tests : t \in Tasks /\ place'[t] = place[t] /\ results[t] = result[t]
    BY <1>1, <1>2, <1>3 DEF Tasks
  <1>10. place' \in [Tasks -> Positions] /\ place'[f] \in {"finished", "running"} BY <1>1, <1>2, <1>3 DEF Positions
  <1>11. \A v \in Workers : v # w => place'[FileOf[v]] = place[FileOf[v]] /\ cancelRun'[v] = cancelRun[v]
    <2> SUFFICES ASSUME NEW v \in Workers, v # w PROVE place'[FileOf[v]] = place[FileOf[v]] /\ cancelRun'[v] = cancelRun[v]
      OBVIOUS
    <2>1. FileOf[v] # f /\ FileOf[v] \in Tasks BY <1>2, OneWorkerEach DEF TasksOfWorker
    <2> QED BY <1>1, <1>3, <2>1
  <1>12. \A t \in TestsOf(w) :
           /\ place'[t] \notin {"finished", "flushing"}
           /\ place'[t] \in {"running", "asking"} => place'[FileOf[w]] = "running"
           /\ place'[t] = "asking" => results[t] = "fail"
           /\ place'[t] = "done" /\ results[t] \in {"none", "run"} => cancelRun'[w]
    <2> TAKE t \in TestsOf(w)
    <2>1. t \in Tests /\ WorkerOf[t] = w BY DEF TestsOf
    <2>2. /\ place[t] \notin {"finished", "flushing"}
          /\ place[t] \in {"running", "asking"} => place[f] = "running"
          /\ place[t] = "asking" => result[t] = "fail"
          /\ place[t] = "done" /\ result[t] \in {"none", "run"} => cancelRun[w]
      BY <2>1 DEF IInv, Places
    <2> QED BY <1>3, <1>9, <2>1, <2>2
  <1>15. place'[FileOf[w]] \notin {"flushing", "done"} BY <1>10
  <1> HIDE DEF events, results, f, c
  <1>14. DOMAIN tries' = Tests /\ (\A t \in Tests : tries'[t] \in 0..Retries[t]) /\ cancelRun' \in [Workers -> BOOLEAN]
         /\ cancelled' \in BOOLEAN
    BY <1>1, <1>3
  <1>16. Emits(w, results, events, <<>>)
    BY <1>3, <1>5, <1>6, <1>7, <1>8, <1>9, <1>10, <1>11, <1>12, <1>14, <1>15 DEF Emits
  <1> QED BY <1>16, EmitInv

\* A test of a file under way is at p with the result r, and the events are about it.
TestEmits(t, p, r, events, calls) ==
  /\ place[FileOf[WorkerOf[t]]] = "running" /\ place[t] # "done"
  /\ p \in {"running", "asking", "done"} /\ r \in States
  /\ place' = [place EXCEPT ![t] = p]
  /\ events \in Seq(OwnEvents(WorkerOf[t])) /\ events # <<>>
  /\ t \in TasksOf(events) /\ \A u \in Tests : Finish(u) \in Range(events) => u = t /\ p = "done"
  /\ calls = <<>> \/ calls = <<Ask(t)>>
  /\ Emit(WorkerOf[t], [result EXCEPT ![t] = r], events, calls) /\ UNCHANGED server
  /\ p = "asking" => r = "fail"
  /\ p = "done" /\ r \in {"none", "run"} => cancelRun[WorkerOf[t]]
  /\ DOMAIN tries' = Tests /\ \A u \in Tests : tries'[u] \in 0..Retries[u]
  /\ cancelRun' \in [Workers -> BOOLEAN] /\ cancelled' \in BOOLEAN
  /\ cancelRun[WorkerOf[t]] => cancelRun'[WorkerOf[t]]
  /\ \A v \in Workers : v # WorkerOf[t] => cancelRun'[v] = cancelRun[v]

LEMMA TestEmitsInv ==
  ASSUME IInv, NEW t \in Tests, NEW p, NEW r, NEW events, NEW calls, TestEmits(t, p, r, events, calls) PROVE IInv'
  <1> DEFINE results == [result EXCEPT ![t] = r]
  <1>1. PICK w \in Workers : w = WorkerOf[t] /\ t \in TestsOf(w) BY OneWorkerEach DEF TestsOf
  <1>2. result \in [Tasks -> States] /\ place \in [Tasks -> Positions] /\ t \in Tasks
    BY DEF IInv, Typed, TypeOK, Positions, Tasks
  <1>3. r \in States /\ p \in Positions /\ place' = [place EXCEPT ![t] = p] BY DEF TestEmits, Positions
  <1>4. results \in [Tasks -> States] /\ place' \in [Tasks -> Positions] BY <1>2, <1>3
  <1>5. \A x \in Tasks : results[x] # result[x] => x \in TasksOf(events)
    <2>1. t \in TasksOf(events) BY DEF TestEmits
    <2> QED BY <1>2, <2>1
  <1>6. \A u \in Tests : u # t => place'[u] = place[u] /\ results[u] = result[u] BY <1>2, <1>3 DEF Tasks
  <1>7. place'[t] = p /\ results[t] = r BY <1>2, <1>3
  <1>8. \A v \in Workers : FileOf[v] \in Tasks /\ FileOf[v] # t BY UpdatesAssumption DEF Tasks, Files
  <1>9. \A v \in Workers : place'[FileOf[v]] = place[FileOf[v]] BY <1>2, <1>3, <1>8
  <1>10. place[FileOf[w]] = "running" /\ place[t] # "done" BY <1>1 DEF TestEmits
  <1>11. \A u \in Tests : place[u] = "done" => place'[u] = "done" /\ results[u] = result[u] BY <1>6, <1>10
  <1>12. \A u \in Tests : Finish(u) \in Range(events) => place'[u] = "done" BY <1>7 DEF TestEmits
  <1>13. \A u \in Tests : WorkerOf[u] # w => place'[u] = place[u] BY <1>1, <1>6
  <1>14. \A u \in TestsOf(w) :
           /\ place'[u] \notin {"finished", "flushing"}
           /\ place'[u] \in {"running", "asking"} => place'[FileOf[w]] = "running"
           /\ place'[u] = "asking" => results[u] = "fail"
           /\ place'[u] = "done" /\ results[u] \in {"none", "run"} => cancelRun'[w]
    <2> TAKE u \in TestsOf(w)
    <2>1. u \in Tests /\ WorkerOf[u] = w BY DEF TestsOf
    <2>2. place'[FileOf[w]] = "running" BY <1>9, <1>10
    <2>3. cancelRun[w] => cancelRun'[w] BY <1>1 DEF TestEmits
    <2>4. CASE u = t BY <1>1, <1>3, <1>7, <2>2, <2>3, <2>4 DEF TestEmits
    <2>5. CASE u # t
      <3>1. /\ place[u] \notin {"finished", "flushing"}
            /\ place[u] = "asking" => result[u] = "fail"
            /\ place[u] = "done" /\ result[u] \in {"none", "run"} => cancelRun[w]
        BY <2>1 DEF IInv, Places
      <3> QED BY <1>6, <2>1, <2>2, <2>3, <2>5, <3>1
    <2> QED BY <2>4, <2>5
  <1>15. place'[FileOf[w]] \notin {"flushing", "done"} BY <1>9, <1>10
  <1> HIDE DEF results
  <1>16. Emits(w, results, events, calls)
    <2>1. /\ events \in Seq(OwnEvents(w)) /\ events # <<>>
          /\ calls = <<>> \/ \E u \in TestsOf(w) : calls = <<Ask(u)>>
          /\ Emit(w, results, events, calls) /\ UNCHANGED server
          /\ DOMAIN tries' = Tests /\ \A u \in Tests : tries'[u] \in 0..Retries[u]
      BY <1>1 DEF TestEmits, results
    <2>2. /\ cancelRun' \in [Workers -> BOOLEAN] /\ cancelled' \in BOOLEAN
          /\ \A v \in Workers : v # w => cancelRun'[v] = cancelRun[v]
      BY <1>1 DEF TestEmits
    <2> QED BY <1>4, <1>5, <1>9, <1>11, <1>12, <1>13, <1>14, <1>15, <2>1, <2>2 DEF Emits
  <1> QED BY <1>16, EmitInv

\* Of one event, which says whether the test is done.
LEMMA EventOf ==
  ASSUME NEW t \in Tests, NEW k \in Kinds, NEW p, k = "test-finished" => p = "done"
  PROVE  /\ <<<<t, k>>>> \in Seq(OwnEvents(WorkerOf[t])) /\ <<<<t, k>>>> # <<>> /\ t \in TasksOf(<<<<t, k>>>>)
         /\ \A u \in Tests : Finish(u) \in Range(<<<<t, k>>>>) => u = t /\ p = "done"
  <1>1. PICK e : e = <<t, k>> OBVIOUS
  <1>2. e \in OwnEvents(WorkerOf[t]) /\ e[1] = t BY <1>1, OneWorkerEach DEF OwnEvents
  <1>3. <<e>> \in Seq(OwnEvents(WorkerOf[t])) /\ <<e>> # <<>> /\ Range(<<e>>) = {e} /\ TasksOf(<<e>>) = {e[1]}
    BY ONLY <1>2, OneEvent
  <1>4. \A u \in Tests : Finish(u) = e => u = t /\ p = "done" BY <1>1 DEF Finish
  <1> QED BY <1>1, <1>2, <1>3, <1>4

LEMMA TypesOf ==
  ASSUME IInv
  PROVE  /\ result \in [Tasks -> States] /\ place \in [Tasks -> Positions] /\ tasks \in [Tasks -> States]
         /\ DOMAIN tries = Tests /\ \A u \in Tests : tries[u] \in 0..Retries[u]
         /\ cancelRun \in [Workers -> BOOLEAN] /\ cancelled \in BOOLEAN
         /\ recent \in [Workers -> BOOLEAN] /\ pendingCall \in [Workers -> BOOLEAN]
         /\ failures \in [Tests -> 0..(1 + Cardinality(Tasks))]
         /\ \A v \in Workers : eventsPacks[v] # <<>> => pendingCall[v]
  BY DEF IInv, Typed, TypeOK, Positions

\* The file of a test under way is, too.
LEMMA UnderWay ==
  ASSUME IInv, NEW t \in Tests, place[t] \in {"running", "asking"}
  PROVE  place[FileOf[WorkerOf[t]]] = "running" /\ t \in Tasks /\ (place[t] = "asking" => result[t] = "fail")
  BY DEF IInv, Places, Tasks

LEMMA EndsInv ==
  ASSUME IInv, NEW t \in Tests, NEW state \in {"pass", "skip"}, Ends(t, state) PROVE IInv'
  <1>1. place[t] = "running" /\ place' = [place EXCEPT ![t] = "done"]
        /\ Emit(WorkerOf[t], [result EXCEPT ![t] = state], <<<<t, "test-finished">>>>, <<>>)
        /\ UNCHANGED <<tries, server, cancelRun, cancelled>>
    BY DEF Ends, Running
  <1>2. /\ <<<<t, "test-finished">>>> \in Seq(OwnEvents(WorkerOf[t])) /\ <<<<t, "test-finished">>>> # <<>>
        /\ t \in TasksOf(<<<<t, "test-finished">>>>)
        /\ \A u \in Tests : Finish(u) \in Range(<<<<t, "test-finished">>>>) => u = t /\ "done" = "done"
    BY EventOf DEF Kinds
  <1>3. TestEmits(t, "done", state, <<<<t, "test-finished">>>>, <<>>)
    BY <1>1, <1>2, TypesOf, UnderWay DEF TestEmits, States
  <1> QED BY <1>3, TestEmitsInv

LEMMA RetriedInv ==
  ASSUME IInv, NEW t \in Tests, Retried(t) PROVE IInv'
  <1>1. /\ place[t] = "running" /\ tries[t] > 0 /\ tries' = [tries EXCEPT ![t] = @ - 1]
        /\ Emit(WorkerOf[t], [result EXCEPT ![t] = "run"], <<<<t, "test-retried">>>>, <<>>)
        /\ UNCHANGED <<place, server, cancelRun, cancelled>>
    BY DEF Retried, Running
  <1>2. /\ <<<<t, "test-retried">>>> \in Seq(OwnEvents(WorkerOf[t])) /\ <<<<t, "test-retried">>>> # <<>>
        /\ t \in TasksOf(<<<<t, "test-retried">>>>)
        /\ \A u \in Tests : Finish(u) \in Range(<<<<t, "test-retried">>>>) => u = t /\ "running" = "done"
    BY EventOf DEF Kinds
  <1>3. place' = [place EXCEPT ![t] = "running"] BY <1>1, TypesOf, UnderWay
  <1>4. DOMAIN tries' = Tests /\ \A u \in Tests : tries'[u] \in 0..Retries[u]
    <2>1. Retries \in [Tests -> Nat] BY UpdatesAssumption
    <2>2. DOMAIN tries = Tests /\ \A u \in Tests : tries[u] \in 0..Retries[u] BY TypesOf
    <2>3. \A u \in Tests : tries'[u] = IF u = t THEN tries[t] - 1 ELSE tries[u] BY <1>1, <2>2
    <2>4. tries[t] - 1 \in 0..Retries[t] BY <1>1, <2>1, <2>2
    <2> QED BY <1>1, <2>2, <2>3, <2>4
  <1>5. TestEmits(t, "running", "run", <<<<t, "test-retried">>>>, <<>>)
    BY <1>1, <1>2, <1>3, <1>4, TypesOf, UnderWay DEF TestEmits, States
  <1> QED BY <1>5, TestEmitsInv

LEMMA FailsInv ==
  ASSUME IInv, NEW t \in Tests, Fails(t) PROVE IInv'
  <1>1. /\ place[t] = "running" /\ place' = [place EXCEPT ![t] = "asking"]
        /\ Emit(WorkerOf[t], [result EXCEPT ![t] = "fail"], <<<<t, "test-retried">>>>, <<Ask(t)>>)
        /\ UNCHANGED <<tries, server, cancelRun, cancelled>>
    BY DEF Fails, Running
  <1>2. /\ <<<<t, "test-retried">>>> \in Seq(OwnEvents(WorkerOf[t])) /\ <<<<t, "test-retried">>>> # <<>>
        /\ t \in TasksOf(<<<<t, "test-retried">>>>)
        /\ \A u \in Tests : Finish(u) \in Range(<<<<t, "test-retried">>>>) => u = t /\ "asking" = "done"
    BY EventOf DEF Kinds
  <1>3. TestEmits(t, "asking", "fail", <<<<t, "test-retried">>>>, <<Ask(t)>>)
    BY <1>1, <1>2, TypesOf, UnderWay DEF TestEmits, States
  <1> QED BY <1>3, TestEmitsInv

LEMMA DecidesInv ==
  ASSUME IInv, NEW t \in Tests, Decides(t) PROVE IInv'
  <1>1. /\ place[t] = "asking" /\ place' = [place EXCEPT ![t] = "done"]
        /\ cancelled' = (cancelled \/ failures[t] >= Bail)
        /\ cancelRun' = [cancelRun EXCEPT ![WorkerOf[t]] = @ \/ failures[t] >= Bail]
        /\ Emit(WorkerOf[t], result, <<<<t, "test-finished">>>>, <<>>)
        /\ UNCHANGED <<tries, server>>
    BY DEF Decides
  <1>2. /\ <<<<t, "test-finished">>>> \in Seq(OwnEvents(WorkerOf[t])) /\ <<<<t, "test-finished">>>> # <<>>
        /\ t \in TasksOf(<<<<t, "test-finished">>>>)
        /\ \A u \in Tests : Finish(u) \in Range(<<<<t, "test-finished">>>>) => u = t /\ "done" = "done"
    BY EventOf DEF Kinds
  <1>3. PICK w \in Workers : w = WorkerOf[t] BY OneWorkerEach
  <1>4. PICK b \in BOOLEAN : b <=> failures[t] >= Bail OBVIOUS
  <1>5. cancelled' \in BOOLEAN BY <1>1
  <1>6. cancelRun' = [cancelRun EXCEPT ![w] = (cancelRun[w] \/ b)]
    <2>1. (cancelRun[w] \/ failures[t] >= Bail) <=> (cancelRun[w] \/ b) BY <1>4
    <2> QED BY <1>1, <1>3, <2>1, TypesOf
  <1>7. cancelRun' \in [Workers -> BOOLEAN] /\ (cancelRun[w] => cancelRun'[w])
        /\ \A v \in Workers : v # w => cancelRun'[v] = cancelRun[v]
    BY <1>3, <1>6, TypesOf, Zenon
  <1>8. result = [result EXCEPT ![t] = "fail"] BY <1>1, TypesOf, UnderWay
  <1>9. TestEmits(t, "done", "fail", <<<<t, "test-finished">>>>, <<>>)
    BY <1>1, <1>2, <1>3, <1>5, <1>7, <1>8, TypesOf, UnderWay, ZenonT(60) DEF TestEmits, States
  <1> QED BY <1>9, TestEmitsInv

LEMMA PrepareInv ==
  ASSUME IInv, NEW t \in Tests, Prepare(t) PROVE IInv'
  <1> DEFINE a == <<t, "test-prepare">> b == <<t, "test-finished">>
  <1>1. PICK w \in Workers : w = WorkerOf[t] /\ t \in TasksOfWorker(w) BY OneWorkerEach
  <1>2. place[FileOf[w]] = "running" /\ place[t] = "queued" /\ UNCHANGED <<tries, server, cancelRun, cancelled>>
    BY <1>1 DEF Prepare
  <1>3. a \in OwnEvents(w) /\ b \in OwnEvents(w) BY <1>1 DEF OwnEvents, Kinds
  <1>4. t \in Tasks /\ result[t] \in States BY TypesOf DEF Tasks
  <1>5. CASE cancelRun[w]
    <2>1. place' = [place EXCEPT ![t] = "done"] /\ Emit(w, [result EXCEPT ![t] = result[t]], <<a>> \o <<b>>, <<>>)
      BY <1>1, <1>5 DEF Prepare
    <2>2. /\ <<a>> \o <<b>> \in Seq(OwnEvents(w)) /\ <<a>> \o <<b>> # <<>>
          /\ TasksOf(<<a>> \o <<b>>) = {a[1], b[1]} /\ Range(<<a>> \o <<b>>) = {a, b}
      <3>1. PICK x, y : x = a /\ y = b OBVIOUS
      <3>2. x \in OwnEvents(w) /\ y \in OwnEvents(w) BY <1>3, <3>1
      <3>3. /\ <<x>> \o <<y>> \in Seq(OwnEvents(w)) /\ <<x>> \o <<y>> # <<>>
            /\ TasksOf(<<x>> \o <<y>>) = {x[1], y[1]} /\ Range(<<x>> \o <<y>>) = {x, y}
        BY ONLY <3>2, TwoEvents, ZenonT(60)
      <3> QED BY <3>1, <3>3
    <2>3. t \in TasksOf(<<a>> \o <<b>>) BY <2>2
    <2>4. \A u \in Tests : Finish(u) \in Range(<<a>> \o <<b>>) => u = t BY <2>2 DEF Finish
    <2>5. TestEmits(t, "done", result[t], <<a>> \o <<b>>, <<>>)
      BY <1>1, <1>2, <1>4, <1>5, <2>1, <2>2, <2>3, <2>4, TypesOf DEF TestEmits
    <2> QED BY <2>5, TestEmitsInv
  <1>6. CASE ~cancelRun[w]
    <2>1. place' = [place EXCEPT ![t] = "running"] /\ Emit(w, [result EXCEPT ![t] = "run"], <<a>> \o <<>>, <<>>)
      BY <1>1, <1>6 DEF Prepare
    <2>2. <<a>> \o <<>> = <<a>> BY <1>3, OneAndNone
    <2>3. /\ <<a>> \in Seq(OwnEvents(w)) /\ <<a>> # <<>> /\ t \in TasksOf(<<a>>)
          /\ \A u \in Tests : Finish(u) \in Range(<<a>>) => u = t /\ "running" = "done"
      <3>1. "test-prepare" \in Kinds BY DEF Kinds
      <3> QED BY <1>1, <3>1, EventOf
    <2>4. TestEmits(t, "running", "run", <<a>>, <<>>)
      BY <1>1, <1>2, <2>1, <2>2, <2>3, TypesOf DEF TestEmits, States
    <2> QED BY <2>4, TestEmitsInv
  <1> QED BY <1>5, <1>6

LEMMA FileFinishesInv ==
  ASSUME IInv, NEW w \in Workers, FileFinishes(w) PROVE IInv'
  <1> DEFINE f == FileOf[w]
             results == [result EXCEPT ![f] = IF HasFailed(w) THEN "fail" ELSE "pass"]
             events == <<<<f, "suite-finished">>>>
  <1>1. /\ place[f] = "running" /\ place' = [place EXCEPT ![f] = "finished"]
        /\ \A t \in TestsOf(w) : place[t] = "done"
        /\ Emit(w, results, events, <<>>) /\ UNCHANGED <<tries, server, cancelRun, cancelled>>
    BY DEF FileFinishes
  <1>2. f \in TasksOfWorker(w) /\ f \in Tasks /\ f \notin Tests /\ \A v \in Workers : v # w => FileOf[v] # f
    BY OneWorkerEach, UpdatesAssumption DEF TasksOfWorker, Files, IsInjective
  <1>3. events \in Seq(OwnEvents(w)) /\ events # <<>> /\ f \in TasksOf(events)
        /\ Range(events) = {<<f, "suite-finished">>}
    <2>1. PICK e : e = <<f, "suite-finished">> OBVIOUS
    <2>2. e \in OwnEvents(w) /\ e[1] = f BY <1>2, <2>1 DEF OwnEvents, Kinds
    <2>3. <<e>> \in Seq(OwnEvents(w)) /\ <<e>> # <<>> /\ Range(<<e>>) = {e} /\ TasksOf(<<e>>) = {e[1]}
      BY ONLY <2>2, OneEvent
    <2> QED BY <2>1, <2>2, <2>3
  <1>4. results \in [Tasks -> States] BY TypesOf DEF States
  <1>5. \A x \in Tasks : results[x] # result[x] => x \in TasksOf(events) BY <1>3, TypesOf
  <1>6. \A t \in Tests : Finish(t) \notin Range(events) BY <1>3 DEF Finish
  <1>7. \A t \in Tests : t \in Tasks /\ place'[t] = place[t] /\ results[t] = result[t]
    BY <1>1, <1>2, TypesOf DEF Tasks
  <1>8. place' \in [Tasks -> Positions] /\ place'[f] = "finished" BY <1>1, <1>2, TypesOf DEF Positions
  <1>9. \A v \in Workers : v # w => place'[FileOf[v]] = place[FileOf[v]] /\ cancelRun'[v] = cancelRun[v]
    <2> SUFFICES ASSUME NEW v \in Workers, v # w PROVE place'[FileOf[v]] = place[FileOf[v]] /\ cancelRun'[v] = cancelRun[v]
      OBVIOUS
    <2>1. FileOf[v] # f /\ FileOf[v] \in Tasks BY <1>2, OneWorkerEach DEF TasksOfWorker
    <2> QED BY <1>1, <2>1, TypesOf
  <1>10. \A t \in TestsOf(w) :
           /\ place'[t] = "done"
           /\ results[t] \in {"none", "run"} => cancelRun'[w]
    <2> TAKE t \in TestsOf(w)
    <2>1. t \in Tests /\ WorkerOf[t] = w BY DEF TestsOf
    <2>2. place[t] = "done" /\ (result[t] \in {"none", "run"} => cancelRun[w])
      BY <1>1, <2>1 DEF IInv, Places
    <2> QED BY <1>1, <1>7, <2>1, <2>2
  <1>11. place'[FileOf[w]] \notin {"flushing", "done"} BY <1>8
  <1> HIDE DEF events, results, f
  <1>12. DOMAIN tries' = Tests /\ (\A t \in Tests : tries'[t] \in 0..Retries[t]) /\ cancelRun' \in [Workers -> BOOLEAN]
         /\ cancelled' \in BOOLEAN
    BY <1>1, TypesOf
  <1>13. Emits(w, results, events, <<>>)
    BY <1>1, <1>3, <1>4, <1>5, <1>6, <1>7, <1>8, <1>9, <1>10, <1>11, <1>12 DEF Emits
  <1> QED BY <1>13, EmitInv

LEMMA SetToSeqIs ==
  ASSUME NEW S, IsFiniteSet(S) PROVE SetToSeq(S) \in Seq(S) /\ Range(SetToSeq(S)) = S
  <1> DEFINE n == Cardinality(S) f == SetToSeq(S)
  <1>1. n \in Nat /\ ExistsBijection(1..n, S) BY FS_CardinalityType
  <1>2. PICK g \in [1..n -> S] : IsInjective(g)
    BY <1>1 DEF ExistsBijection, Bijection, Injection, IsInjective
  <1>3. f \in [1..n -> S] /\ IsInjective(f) BY <1>2 DEF SetToSeq
  <1> HIDE DEF f
  <1>4. f \in Injection(1..n, S) BY <1>3 DEF Injection, IsInjective
  <1>5. Cardinality(1..n) = n
    <2>1. PICK m \in Nat : m = n BY <1>1
    <2>2. Cardinality(1..m) = IF 1 > m THEN 0 ELSE m - 1 + 1 BY FS_Interval
    <2> QED BY <2>1, <2>2
  <1>6. f \in Surjection(1..n, S) BY <1>4, <1>5, FS_Injection
  <1>7. \A x \in S : \E i \in 1..n : f[i] = x BY <1>6 DEF Surjection
  <1>8. Range(f) = S BY <1>3, <1>7 DEF Range
  <1>9. f \in Seq(S) BY <1>1, <1>3, SeqDef
  <1> QED BY <1>8, <1>9 DEF f

LEMMA SeqOfSubset ==
  ASSUME NEW S, NEW T, T \subseteq S, NEW q \in Seq(T) PROVE q \in Seq(S)
  OBVIOUS

LEMMA CancelArrivesInv ==
  ASSUME IInv, NEW w \in Workers, CancelArrives(w) PROVE IInv'
  <1> DEFINE P == Pending(w)
             E == P \X {"test-cancel"}
             results == [t \in Tasks |-> IF t \in P THEN "skip" ELSE result[t]]
             events == SetToSeq(E)
  <1>1. /\ ~cancelRun[w] /\ place[FileOf[w]] \in {"queued", "running"}
        /\ cancelRun' = [cancelRun EXCEPT ![w] = TRUE] /\ UNCHANGED <<place, tries, server, cancelled>>
    BY DEF CancelArrives
  <1>2. cancelRun' \in [Workers -> BOOLEAN] /\ cancelRun'[w] = TRUE
        /\ \A v \in Workers : v # w => cancelRun'[v] = cancelRun[v]
    BY <1>1, TypesOf
  <1>3. \A v \in Workers : cancelRun[v] => cancelRun'[v] BY <1>2
  <1>4. CASE P = {}
    <2>1. UNCHANGED <<result, throttle, channel, emitted>> BY <1>4 DEF CancelArrives
    <2>2. UNCHANGED <<result, place, tries, eventsPacks, recent, pendingCall, channel, emitted,
                      handlers, tasks, received, told, alone, failures, cancelled>>
      BY <1>1, <2>1 DEF throttle, server
    <2>3. Sequences' BY <2>2 DEF IInv, Typed, Sequences
    <2>4. Typed' BY <1>2, <2>2, <2>3, TypedAfter, TypesOf
    <2>5. Places' BY <1>3, <2>2, OneWorkerEach DEF IInv, Places
    <2>6. InOrder' BY <2>2 DEF IInv, InOrder, EventsReceived, ToldInOrder, OnTheWay
    <2>7. AllAreThere' BY <2>2 DEF IInv, AllAreThere, AllThere, OnTheWay
    <2>8. LastIsSo' BY <2>2 DEF IInv, LastIsSo, LastIs, Packs
    <2>9. FinishIsLast' BY <2>2 DEF IInv, FinishIsLast, IsLast, Packs, Tells
    <2> QED BY <2>4, <2>5, <2>6, <2>7, <2>8, <2>9 DEF IInv
  <1>5. CASE P # {}
    <2>1. Emit(w, results, events, <<>>) BY <1>5 DEF CancelArrives
    <2>2. P \subseteq TestsOf(w) /\ \A t \in P : result[t] \in {"none", "run"} BY DEF Pending
    <2>3. IsFiniteSet(E)
      <3>1. P \in SUBSET Tests /\ IsFiniteSet(Tests) BY <2>2, UpdatesAssumption DEF TestsOf
      <3>2. IsFiniteSet(P) BY <3>1, FS_Subset
      <3>3. IsFiniteSet({"test-cancel"}) BY FS_Singleton
      <3> QED BY <3>2, <3>3, FS_Product
    <2>4. events \in Seq(E) /\ Range(events) = E BY <2>3, SetToSeqIs
    <2>5. E \subseteq OwnEvents(w) BY <2>2 DEF OwnEvents, TasksOfWorker, Kinds
    <2>6. events \in Seq(OwnEvents(w)) BY <2>4, <2>5, SeqOfSubset
    <2>7. TasksOf(events) = P
      <3>1. \A x \in P : <<x, "test-cancel">> \in Range(events) /\ <<x, "test-cancel">>[1] = x BY <2>4
      <3>2. \A e \in Range(events) : e[1] \in P BY <2>4
      <3> HIDE DEF P, events
      <3> QED BY <3>1, <3>2 DEF TasksOf
    <2>8. events # <<>>
      <3>1. TasksOf(<<>>) = {} BY DEF TasksOf, Range
      <3> HIDE DEF P, events
      <3> QED BY <1>5, <2>7, <3>1
    <2>9. results \in [Tasks -> States] BY TypesOf DEF States
    <2>10. \A x \in Tasks : results[x] = IF x \in P THEN "skip" ELSE result[x] OBVIOUS
    <2>11. \A t \in Tests : Finish(t) \notin Range(events) BY <2>4 DEF Finish
    <2>12. \A t \in Tests : place[t] = "done" => t \notin P
      <3>1. \A t \in Tests : WorkerOf[t] = w /\ place[t] = "done" => result[t] \notin {"none", "run"}
        BY <1>1 DEF IInv, Places
      <3> QED BY <2>2, <3>1 DEF TestsOf
    <2>13. \A t \in TestsOf(w) : /\ place[t] \notin {"finished", "flushing"}
                                 /\ place[t] \in {"running", "asking"} => place[FileOf[w]] = "running"
                                 /\ place[t] = "asking" => result[t] = "fail"
      BY DEF IInv, Places, TestsOf
    <2> HIDE DEF events, results, P
    <2>14. \A t \in Tests : place[t] = "done" => place'[t] = "done" /\ results[t] = result[t]
      BY <1>1, <2>10, <2>12 DEF Tasks
    <2>15. \A t \in TestsOf(w) :
             /\ place'[t] \notin {"finished", "flushing"}
             /\ place'[t] \in {"running", "asking"} => place'[FileOf[w]] = "running"
             /\ place'[t] = "asking" => results[t] = "fail"
             /\ place'[t] = "done" /\ results[t] \in {"none", "run"} => cancelRun'[w]
      <3> TAKE t \in TestsOf(w)
      <3>1. t \in Tasks BY DEF TestsOf, Tasks
      <3>2. result[t] = "fail" => t \notin P BY <2>2
      <3> QED BY <1>1, <1>2, <2>10, <2>13, <3>1, <3>2
    <2>16. /\ \A x \in Tasks : results[x] # result[x] => x \in TasksOf(events)
           /\ place' \in [Tasks -> Positions] /\ DOMAIN tries' = Tests /\ \A t \in Tests : tries'[t] \in 0..Retries[t]
           /\ cancelled' \in BOOLEAN
      BY <1>1, <2>7, <2>10, TypesOf
    <2>17. /\ UNCHANGED server /\ place' = place /\ place'[FileOf[w]] \notin {"flushing", "done"} BY <1>1
    <2>18. Emits(w, results, events, <<>>)
      BY <1>2, <2>1, <2>6, <2>8, <2>9, <2>11, <2>14, <2>15, <2>16, <2>17 DEF Emits
    <2> QED BY <2>18, EmitInv
  <1> QED BY <1>4, <1>5

LEMMA TimePassesInv ==
  ASSUME IInv, NEW w \in Workers, TimePasses(w) PROVE IInv'
  <1>1. recent' = [recent EXCEPT ![w] = FALSE]
        /\ UNCHANGED <<result, place, tries, eventsPacks, pendingCall, channel, emitted,
                       handlers, tasks, received, told, alone, failures, cancelRun, cancelled>>
    BY DEF TimePasses, tests, server
  <1>2. recent' \in [Workers -> BOOLEAN] BY <1>1, TypesOf
  <1>3. Sequences' BY <1>1 DEF IInv, Typed, Sequences
  <1>4. Typed' BY <1>1, <1>2, <1>3, TypedAfter, TypesOf
  <1>5. Places' BY <1>1 DEF IInv, Places
  <1>6. InOrder' BY <1>1 DEF IInv, InOrder, EventsReceived, ToldInOrder, OnTheWay
  <1>7. AllAreThere' BY <1>1 DEF IInv, AllAreThere, AllThere, OnTheWay
  <1>8. LastIsSo' BY <1>1 DEF IInv, LastIsSo, LastIs, Packs
  <1>9. FinishIsLast' BY <1>1 DEF IInv, FinishIsLast, IsLast, Packs, Tells
  <1> QED BY <1>4, <1>5, <1>6, <1>7, <1>8, <1>9 DEF IInv

\* All that waits is sent.
LEMMA FlushSends ==
  ASSUME IInv, NEW w \in Workers, SendTasksUpdate(w, result, eventsPacks[w], <<>>),
         eventsPacks' = [eventsPacks EXCEPT ![w] = <<>>],
         UNCHANGED <<result, tries, server, cancelRun, cancelled, emitted>>,
         \A t \in Tests : place'[t] = place[t]
  PROVE  /\ Sequences' /\ InOrder' /\ AllAreThere' /\ LastIsSo' /\ FinishIsLast'
         /\ \A v \in Workers : eventsPacks'[v] = IF v = w THEN <<>> ELSE eventsPacks[v]
         /\ \A v \in Workers : v # w \/ eventsPacks[w] = <<>> => channel'[v] = channel[v]
  <1>1. eventsPacks[w] \in Seq(OwnEvents(w)) /\ emitted[w] \in Seq(OwnEvents(w)) /\ channel[w] \in Seq(Messages(w))
        /\ DOMAIN emitted = Workers /\ DOMAIN eventsPacks = Workers /\ DOMAIN channel = Workers
    BY DEF IInv, Typed, Sequences
  <1>2. <<>> \in Seq(OwnEvents(w)) OBVIOUS
  <1>3. DOMAIN emitted' = Workers /\ \A v \in Workers : emitted'[v] = IF v = w THEN emitted[w] \o <<>> ELSE emitted[v]
    BY <1>1, ConcatEmptySeq
  <1>4. SendTasksUpdate(w, result', eventsPacks[w], <<>>) BY DEF SendTasksUpdate
  <1>5. Range(<<>>) = {} BY DEF Range
  <1>6. Sending(w, <<>>, eventsPacks[w], <<>>, <<>>)
    BY <1>1, <1>2, <1>3, <1>4, <1>5, TypesOf DEF Sending, server, Tasks
  <1>7. Sequences' /\ InOrder' /\ AllAreThere' /\ LastIsSo' /\ FinishIsLast' BY <1>6, SendKeeps
  <1>8. \A v \in Workers : eventsPacks'[v] = IF v = w THEN <<>> ELSE eventsPacks[v] BY <1>1
  <1>9. \A v \in Workers : v # w => channel'[v] = channel[v] BY <1>1 DEF SendTasksUpdate
  <1>10. eventsPacks[w] = <<>> => channel'[w] = channel[w]
    <2>1. channel[w] \o <<>> = channel[w] BY <1>1, ConcatEmptySeq
    <2> QED BY <1>1, <2>1 DEF SendTasksUpdate
  <1> QED BY <1>7, <1>8, <1>9, <1>10

\* The places of tests stay; of files, the one of w may change.
LEMMA FilePlaces ==
  ASSUME IInv, NEW w \in Workers, UNCHANGED <<result, cancelRun>>, \A t \in Tests : place'[t] = place[t],
         \A v \in Workers : v # w => place'[FileOf[v]] = place[FileOf[v]] /\ eventsPacks'[v] = eventsPacks[v]
                                     /\ channel'[v] = channel[v] /\ handlers'[v] = handlers[v],
         place'[FileOf[w]] = place[FileOf[w]] \/ place[FileOf[w]] # "running",
         place'[FileOf[w]] \in {"flushing", "done"} => eventsPacks'[w] = <<>>,
         place'[FileOf[w]] = "done" => channel'[w] = <<>> /\ handlers'[w] = <<>>
  PROVE  Places'
  <1>1. ASSUME NEW t \in Tests
        PROVE  /\ place'[t] \notin {"finished", "flushing"}
               /\ place'[t] \in {"running", "asking"} => place'[FileOf[WorkerOf[t]]] = "running"
               /\ place'[t] = "asking" => result'[t] = "fail"
               /\ place'[t] = "done" /\ result'[t] \in {"none", "run"} => cancelRun'[WorkerOf[t]]
    <2>1. PICK v \in Workers : v = WorkerOf[t] BY OneWorkerEach
    <2>2. /\ place[t] \notin {"finished", "flushing"}
          /\ place[t] \in {"running", "asking"} => place[FileOf[v]] = "running"
          /\ place[t] = "asking" => result[t] = "fail"
          /\ place[t] = "done" /\ result[t] \in {"none", "run"} => cancelRun[v]
      BY <2>1 DEF IInv, Places
    <2>3. place[FileOf[v]] = "running" => place'[FileOf[v]] = "running" OBVIOUS
    <2> QED BY <2>1, <2>2, <2>3
  <1>2. ASSUME NEW v \in Workers
        PROVE  /\ place'[FileOf[v]] \in {"flushing", "done"} => eventsPacks'[v] = <<>>
               /\ place'[FileOf[v]] = "done" => channel'[v] = <<>> /\ handlers'[v] = <<>>
    <2>1. CASE v = w BY <2>1
    <2>2. CASE v # w BY <2>2 DEF IInv, Places
    <2> QED BY <2>1, <2>2
  <1> QED BY <1>1, <1>2 DEF Places

LEMMA TimerFiresInv ==
  ASSUME IInv, NEW w \in Workers, TimerFires(w) PROVE IInv'
  <1>1. /\ pendingCall' = [pendingCall EXCEPT ![w] = FALSE] /\ recent' = [recent EXCEPT ![w] = TRUE]
        /\ SendTasksUpdate(w, result, eventsPacks[w], <<>>) /\ eventsPacks' = [eventsPacks EXCEPT ![w] = <<>>]
        /\ UNCHANGED <<result, place, tries, server, cancelRun, cancelled, emitted>>
    BY DEF TimerFires, tests
  <1>2. /\ Sequences' /\ InOrder' /\ AllAreThere' /\ LastIsSo' /\ FinishIsLast'
        /\ \A v \in Workers : eventsPacks'[v] = IF v = w THEN <<>> ELSE eventsPacks[v]
        /\ \A v \in Workers : v # w \/ eventsPacks[w] = <<>> => channel'[v] = channel[v]
    BY <1>1, FlushSends
  <1>3. recent' \in [Workers -> BOOLEAN] /\ pendingCall' \in [Workers -> BOOLEAN]
        /\ \A v \in Workers : v # w => pendingCall'[v] = pendingCall[v]
    BY <1>1, TypesOf
  <1>4. UNCHANGED <<handlers, tasks, received, told, alone, failures>> BY <1>1 DEF server
  <1>5. Typed' BY <1>1, <1>2, <1>3, <1>4, TypedAfter, TypesOf
  <1>6. Places'
    <2>1. place[FileOf[w]] \in {"flushing", "done"} => eventsPacks[w] = <<>> BY DEF IInv, Places
    <2>2. place[FileOf[w]] = "done" => channel[w] = <<>> /\ handlers[w] = <<>> BY DEF IInv, Places
    <2> QED BY <1>1, <1>2, <1>4, <2>1, <2>2, FilePlaces
  <1> QED BY <1>2, <1>5, <1>6 DEF IInv

\* The place of a file changes.
LEMMA FilePlace ==
  ASSUME IInv, NEW w \in Workers, NEW p \in Positions, place' = [place EXCEPT ![FileOf[w]] = p]
  PROVE  /\ place' \in [Tasks -> Positions] /\ place'[FileOf[w]] = p
         /\ \A t \in Tests : place'[t] = place[t]
         /\ \A v \in Workers : v # w => place'[FileOf[v]] = place[FileOf[v]]
  <1>1. FileOf[w] \in Tasks /\ FileOf[w] \notin Tests BY UpdatesAssumption DEF Tasks, Files
  <1>2. \A v \in Workers : v # w => FileOf[v] # FileOf[w] /\ FileOf[v] \in Tasks
    BY UpdatesAssumption DEF IsInjective, Tasks, Files
  <1> QED BY <1>1, <1>2, TypesOf DEF Tasks

LEMMA FlushInv ==
  ASSUME IInv, NEW w \in Workers, Flush(w) PROVE IInv'
  <1>1. /\ place[FileOf[w]] = "finished" /\ place' = [place EXCEPT ![FileOf[w]] = "flushing"]
        /\ SendTasksUpdate(w, result, eventsPacks[w], <<>>) /\ eventsPacks' = [eventsPacks EXCEPT ![w] = <<>>]
        /\ UNCHANGED <<result, tries, server, cancelRun, cancelled, emitted, recent, pendingCall>>
    BY DEF Flush
  <1>2. /\ place' \in [Tasks -> Positions] /\ place'[FileOf[w]] = "flushing"
        /\ \A t \in Tests : place'[t] = place[t]
        /\ \A v \in Workers : v # w => place'[FileOf[v]] = place[FileOf[v]]
    BY <1>1, FilePlace DEF Positions
  <1>3. /\ Sequences' /\ InOrder' /\ AllAreThere' /\ LastIsSo' /\ FinishIsLast'
        /\ \A v \in Workers : eventsPacks'[v] = IF v = w THEN <<>> ELSE eventsPacks[v]
        /\ \A v \in Workers : v # w \/ eventsPacks[w] = <<>> => channel'[v] = channel[v]
    BY <1>1, <1>2, FlushSends
  <1>4. UNCHANGED <<handlers, tasks, received, told, alone, failures>> BY <1>1 DEF server
  <1>5. Typed' BY <1>1, <1>2, <1>3, <1>4, TypedAfter, TypesOf
  <1>6. Places' BY <1>1, <1>2, <1>3, <1>4, FilePlaces
  <1> QED BY <1>3, <1>5, <1>6 DEF IInv

LEMMA FlushReturnsInv ==
  ASSUME IInv, NEW w \in Workers, FlushReturns(w) PROVE IInv'
  <1>1. /\ place[FileOf[w]] = "flushing" /\ place' = [place EXCEPT ![FileOf[w]] = "done"]
        /\ channel[w] = <<>> /\ handlers[w] = <<>>
        /\ UNCHANGED <<result, tries, eventsPacks, recent, pendingCall, channel, emitted,
                       handlers, tasks, received, told, alone, failures, cancelRun, cancelled>>
    BY DEF FlushReturns, AllAnswered, throttle, server
  <1>2. /\ place' \in [Tasks -> Positions] /\ place'[FileOf[w]] = "done"
        /\ \A t \in Tests : place'[t] = place[t]
        /\ \A v \in Workers : v # w => place'[FileOf[v]] = place[FileOf[v]]
    BY <1>1, FilePlace DEF Positions
  <1>3. Sequences' BY <1>1 DEF IInv, Typed, Sequences
  <1>4. Typed' BY <1>1, <1>2, <1>3, TypedAfter, TypesOf
  <1>5. eventsPacks[w] = <<>> BY <1>1 DEF IInv, Places
  <1>6. Places' BY <1>1, <1>2, <1>5, FilePlaces
  <1>7. InOrder' BY <1>1 DEF IInv, InOrder, EventsReceived, ToldInOrder, OnTheWay
  <1>8. AllAreThere' BY <1>1 DEF IInv, AllAreThere, AllThere, OnTheWay
  <1>9. LastIsSo' BY <1>1 DEF IInv, LastIsSo, LastIs, Packs
  <1>10. FinishIsLast' BY <1>1, <1>2, SMTT(30) DEF IInv, FinishIsLast, IsLast, Packs, Tells
  <1> QED BY <1>4, <1>6, <1>7, <1>8, <1>9, <1>10 DEF IInv

-----------------------------------------------------------------------------
(* The actions of the main process                                         *)

LEMMA HeadAndTail ==
  ASSUME NEW S, NEW q \in Seq(S), q # <<>>
  PROVE  /\ Head(q) \in S /\ Tail(q) \in Seq(S) /\ Head(q) = q[1] /\ q = <<Head(q)>> \o Tail(q)
         /\ \E n \in Nat : /\ DOMAIN q = 1..(n + 1) /\ DOMAIN Tail(q) = 1..n
                           /\ \A k \in 1..n : Tail(q)[k] = q[k + 1]
  <1>1. Head(q) \in S /\ Tail(q) \in Seq(S) /\ Head(q) = q[1] OBVIOUS
  <1>2. PICK n \in Nat : n = Len(q) - 1 OBVIOUS
  <1>3. Len(q) = n + 1 /\ Len(Tail(q)) = n BY <1>2
  <1>4. DOMAIN q = 1..(n + 1) /\ DOMAIN Tail(q) = 1..n BY <1>1, <1>3, LenProperties
  <1>5. \A k \in 1..n : Tail(q)[k] = q[k + 1] BY <1>3
  <1>6. PICK h, t : h = Head(q) /\ t = Tail(q) OBVIOUS
  <1>7. h \in S /\ <<h>> \in Seq(S) /\ t \in Seq(S) /\ Len(<<h>>) = 1 /\ <<h>>[1] = h BY <1>1, <1>6
  <1>8. PICK r : r = <<h>> \o t OBVIOUS
  <1>9. r \in Seq(S) /\ Len(r) = n + 1 /\ \A k \in 1..(n + 1) : r[k] = IF k <= 1 THEN h ELSE t[k - 1]
    <2>1. PICK o : o = <<h>> OBVIOUS
    <2>2. o \in Seq(S) /\ t \in Seq(S) /\ Len(o) = 1 /\ o[1] = h /\ Len(t) = n BY <1>3, <1>6, <1>7, <2>1
    <2>3. o \o t \in Seq(S) /\ Len(o \o t) = Len(o) + Len(t)
          /\ \A k \in 1..(Len(o) + Len(t)) : (o \o t)[k] = IF k <= Len(o) THEN o[k] ELSE t[k - Len(o)]
      BY <2>2, ConcatProperties
    <2>4. r = o \o t BY <1>8, <2>1
    <2>5. 1 + n = n + 1 OBVIOUS
    <2>6. \A k \in 1..(n + 1) : k <= 1 => k = 1 OBVIOUS
    <2> QED BY ONLY <2>2, <2>3, <2>4, <2>5, <2>6
  <1>10. \A k \in 1..(n + 1) : r[k] = q[k]
    <2> TAKE k \in 1..(n + 1)
    <2>1. CASE k = 1 BY <1>1, <1>6, <1>9, <2>1
    <2>2. CASE k # 1
      <3>1. k - 1 \in 1..n /\ ~(k <= 1) /\ (k - 1) + 1 = k BY <2>2
      <3>2. t[k - 1] = q[k] BY <1>5, <1>6, <3>1
      <3> QED BY <1>9, <3>1, <3>2
    <2> QED BY <2>1, <2>2
  <1>11. r = q BY <1>3, <1>9, <1>10, SeqEqual
  <1> QED BY <1>1, <1>2, <1>4, <1>5, <1>6, <1>8, <1>11

\* The first message of w leaves its channel.
LEMMA Arrives ==
  ASSUME IInv, NEW w \in Workers, channel[w] # <<>>, channel' = [channel EXCEPT ![w] = Tail(@)]
  PROVE  /\ channel[w][1] \in Messages(w) /\ Head(channel[w]) = channel[w][1]
         /\ DOMAIN channel' = Workers
         /\ \A v \in Workers : v # w => channel'[v] = channel[v] /\ OnTheWay(v)' = OnTheWay(v)
         /\ channel'[w] \in Seq(Messages(w))
         /\ OnTheWay(w)' \in Seq(OwnEvents(w)) /\ OnTheWay(w) = EventsOf(channel[w][1]) \o OnTheWay(w)'
         /\ \E n \in Nat : /\ DOMAIN channel[w] = 1..(n + 1) /\ DOMAIN (channel'[w]) = 1..n
                           /\ \A k \in 1..n : channel'[w][k] = channel[w][k + 1]
         /\ place[FileOf[w]] # "done"
  <1>1. PICK q \in Seq(Messages(w)) : q = channel[w] /\ q # <<>> BY DEF IInv, Typed, Sequences
  <1>2. DOMAIN channel = Workers BY DEF IInv, Typed, Sequences
  <1>3. channel'[w] = Tail(q) /\ DOMAIN channel' = Workers /\ \A v \in Workers : v # w => channel'[v] = channel[v]
    BY <1>1, <1>2
  <1>4. Head(q) \in Messages(w) /\ Tail(q) \in Seq(Messages(w)) /\ Head(q) = q[1] /\ q = <<Head(q)>> \o Tail(q)
        /\ \E n \in Nat : /\ DOMAIN q = 1..(n + 1) /\ DOMAIN Tail(q) = 1..n
                          /\ \A k \in 1..n : Tail(q)[k] = q[k + 1]
    BY <1>1, HeadAndTail
  <1>5. \A v \in Workers : OnTheWay(v) = EventsIn(channel[v]) /\ OnTheWay(v)' = EventsIn(channel'[v])
    BY DEF OnTheWay, EventsIn
  <1>6. PICK h, o, t : h = Head(q) /\ o = <<h>> /\ t = Tail(q) OBVIOUS
  <1>7. h \in Messages(w) /\ o \in Seq(Messages(w)) /\ t \in Seq(Messages(w)) /\ q = o \o t BY <1>4, <1>6
  <1>8. EventsIn(o) = EventsOf(h) BY <1>6, <1>7, EventsInOne
  <1>9. EventsIn(o \o t) = EventsIn(o) \o EventsIn(t) BY ONLY <1>7, EventsInConcat
  <1>10. EventsIn(t) \in Seq(OwnEvents(w)) BY ONLY <1>7, EventsInType
  <1>11. place[FileOf[w]] # "done" BY DEF IInv, Places
  <1>12. OnTheWay(w) = EventsOf(h) \o OnTheWay(w)' /\ OnTheWay(w)' = EventsIn(t)
    BY <1>1, <1>3, <1>5, <1>6, <1>7, <1>8, <1>9
  <1>13. h = channel[w][1] BY <1>1, <1>4, <1>6
  <1>14. \A v \in Workers : v # w => OnTheWay(v)' = OnTheWay(v) BY <1>3, <1>5
  <1>15. \E n \in Nat : /\ DOMAIN channel[w] = 1..(n + 1) /\ DOMAIN (channel'[w]) = 1..n
                        /\ \A k \in 1..n : channel'[w][k] = channel[w][k + 1]
    BY <1>1, <1>3, <1>4
  <1>16. channel'[w] \in Seq(Messages(w)) BY <1>3, <1>4
  <1>17. Head(channel[w]) = channel[w][1] BY <1>1, <1>4
  <1> QED BY <1>3, <1>7, <1>10, <1>11, <1>12, <1>13, <1>14, <1>15, <1>16, <1>17

LEMMA ReceiveAskInv ==
  ASSUME IInv, NEW w \in Workers, ReceiveAsk(w) PROVE IInv'
  <1>1. /\ channel[w] # <<>> /\ Head(channel[w]).kind = "ask" /\ channel' = [channel EXCEPT ![w] = Tail(@)]
        /\ failures' = [failures EXCEPT ![Head(channel[w]).test] = 1 + FailuresKnown]
        /\ UNCHANGED <<result, place, tries, eventsPacks, recent, pendingCall, emitted, handlers, tasks, received, told, alone,
                       cancelRun, cancelled>>
    BY DEF ReceiveAsk, tests, throttle
  <1>2. /\ channel[w][1] \in Messages(w) /\ Head(channel[w]) = channel[w][1]
        /\ DOMAIN channel' = Workers
        /\ \A v \in Workers : v # w => channel'[v] = channel[v] /\ OnTheWay(v)' = OnTheWay(v)
        /\ channel'[w] \in Seq(Messages(w))
        /\ OnTheWay(w)' \in Seq(OwnEvents(w)) /\ OnTheWay(w) = EventsOf(channel[w][1]) \o OnTheWay(w)'
        /\ \E n \in Nat : /\ DOMAIN channel[w] = 1..(n + 1) /\ DOMAIN (channel'[w]) = 1..n
                          /\ \A k \in 1..n : channel'[w][k] = channel[w][k + 1]
        /\ place[FileOf[w]] # "done"
    BY <1>1, Arrives
  <1>3. PICK n \in Nat : /\ DOMAIN channel[w] = 1..(n + 1) /\ DOMAIN (channel'[w]) = 1..n
                         /\ \A k \in 1..n : channel'[w][k] = channel[w][k + 1]
    BY <1>2
  <1>4. channel[w][1].kind = "ask" /\ \A x, v : ~Packs(channel[w][1], x, v) BY <1>1, <1>2 DEF Packs
  <1>5. EventsOf(channel[w][1]) = <<>> BY <1>4 DEF EventsOf
  <1>6. OnTheWay(w)' = OnTheWay(w) BY <1>2, <1>5, ConcatEmptySeq
  <1>7. \A v \in Workers : OnTheWay(v)' = OnTheWay(v) BY <1>2, <1>6
  <1>8. failures' \in [Tests -> 0..(1 + Cardinality(Tasks))]
    <2>1. IsFiniteSet(Tasks)
      <3>1. Files = {FileOf[v] : v \in Workers} BY DEF Files
      <3>3. [v \in Workers |-> FileOf[v]] \in Surjection(Workers, Files) BY <3>1 DEF Surjection
      <3>2. IsFiniteSet(Files) BY <3>3, UpdatesAssumption, FS_Surjection
      <3> QED BY <3>2, UpdatesAssumption, FS_Union DEF Tasks
    <2>2. PICK F \in SUBSET Tasks : F = {t \in Tasks : tasks[t] = "fail"} OBVIOUS
    <2>3. IsFiniteSet(F) /\ Cardinality(F) <= Cardinality(Tasks) BY <2>1, FS_Subset
    <2>4. Cardinality(F) \in Nat /\ Cardinality(Tasks) \in Nat BY <2>1, <2>3, FS_CardinalityType
    <2>5. 1 + Cardinality(F) \in 0..(1 + Cardinality(Tasks)) BY <2>3, <2>4
    <2>6. FailuresKnown = Cardinality(F) BY <2>2 DEF FailuresKnown
    <2> QED BY <1>1, <2>5, <2>6, TypesOf
  <1>9. Sequences' BY <1>1, <1>2 DEF IInv, Typed, Sequences
  <1>10. Typed' BY <1>1, <1>8, <1>9, TypedAfter, TypesOf
  <1>11. Places' BY <1>1, <1>2, FilePlaces DEF IInv, Places
  <1>12. InOrder' BY <1>1, <1>7 DEF IInv, InOrder, EventsReceived, ToldInOrder
  <1>13. AllAreThere' BY <1>1, <1>7 DEF IInv, AllAreThere, AllThere
  <1>14. LastIsSo'
    <2> SUFFICES ASSUME NEW v \in Workers, NEW x \in TasksOfWorker(v), x \notin TasksOf(eventsPacks'[v])
                 PROVE  LastIs(v, x, result[x])'
      BY DEF LastIsSo
    <2>1. LastIs(v, x, result[x]) BY <1>1 DEF IInv, LastIsSo
    <2>2. CASE v # w BY <1>1, <1>2, <2>1, <2>2 DEF LastIs, Packs
    <2>3. CASE v = w
      <3>1. CASE \A k \in DOMAIN channel[w] : \A u \in States : ~Packs(channel[w][k], x, u)
        <4>1. result[x] \in States BY OneWorkerEach, TypesOf
        <4>2. tasks[x] = result[x] BY <2>1, <2>3, <3>1, <4>1 DEF LastIs
        <4>3. \A k \in 1..n : k + 1 \in 1..(n + 1) OBVIOUS
        <4>4. \A k \in DOMAIN (channel'[w]) : \A u \in States : ~Packs(channel'[w][k], x, u)
          BY <1>3, <3>1, <4>3
        <4> QED BY <1>1, <2>3, <4>2, <4>4 DEF LastIs, Packs
      <3>2. ASSUME NEW j \in DOMAIN channel[w], Packs(channel[w][j], x, result[x]),
                   \A k \in DOMAIN channel[w] : k > j => \A u \in States : ~Packs(channel[w][k], x, u)
            PROVE  LastIs(w, x, result[x])'
        <4>1. j # 1 /\ j \in 1..(n + 1) BY <1>3, <1>4, <3>2
        <4>2. PICK i \in 1..n : j = i + 1
          <5>1. j - 1 \in 1..n /\ j = (j - 1) + 1 BY <4>1
          <5> QED BY <5>1
        <4>3. Packs(channel'[w][i], x, result'[x]) BY <1>1, <1>3, <3>2, <4>2
        <4>4. \A k \in 1..n : k > i => k + 1 \in 1..(n + 1) /\ k + 1 > j BY <4>2
        <4>5. \A k \in DOMAIN (channel'[w]) : k > i => \A u \in States : ~Packs(channel'[w][k], x, u)
          BY <1>3, <3>2, <4>4
        <4> QED BY <1>3, <4>3, <4>5 DEF LastIs, Packs
      <3> QED BY <2>1, <2>3, <3>1, <3>2 DEF LastIs
    <2> QED BY <2>2, <2>3
  <1>15. FinishIsLast'
    <2> SUFFICES ASSUME NEW t \in Tests
                 PROVE  LET v == WorkerOf[t] IN
                   /\ Finish(t) \in Range(eventsPacks'[v]) => place'[t] = "done"
                   /\ \A j \in DOMAIN (channel'[v]) : Tells(channel'[v][j], t) =>
                        place'[t] = "done" /\ \A k \in DOMAIN (channel'[v]) : k >= j => IsLast(t, channel[v][k])'
                   /\ Finish(t) \in Range(told'[v]) \cup Range(FlattenSeq(handlers'[v])) =>
                        /\ place'[t] = "done" /\ tasks'[t] = result'[t]
                        /\ \A k \in DOMAIN (channel'[v]) : IsLast(t, channel[v][k])'
      BY DEF FinishIsLast, Tells
    <2>1. PICK v \in Workers : v = WorkerOf[t] BY OneWorkerEach
    <2>2. /\ Finish(t) \in Range(eventsPacks[v]) => place[t] = "done"
          /\ \A j \in DOMAIN channel[v] : Tells(channel[v][j], t) =>
               place[t] = "done" /\ \A k \in DOMAIN channel[v] : k >= j => IsLast(t, channel[v][k])
          /\ Finish(t) \in Range(told[v]) \cup Range(FlattenSeq(handlers[v])) =>
               /\ place[t] = "done" /\ tasks[t] = result[t]
               /\ \A k \in DOMAIN channel[v] : IsLast(t, channel[v][k])
      BY <2>1 DEF IInv, FinishIsLast
    <2>3. \A k : IsLast(t, channel[v][k])' <=> \A x \in States : Packs(channel'[v][k], t, x) => x = result[t]
      BY <1>1 DEF IsLast, Packs
    <2>4. CASE v # w
      <3>1. channel'[v] = channel[v] BY <1>2, <2>4
      <3>2. \A k : IsLast(t, channel[v][k])' <=> IsLast(t, channel[v][k]) BY <2>3, <3>1 DEF IsLast
      <3> QED BY <1>1, <2>1, <2>2, <3>1, <3>2
    <2>5. CASE v = w
      <3>1. \A k \in 1..n : k + 1 \in 1..(n + 1) OBVIOUS
      <3>2. \A k \in 1..n : IsLast(t, channel[w][k])' <=> IsLast(t, channel[w][k + 1])
        BY <1>3, <2>3, <2>5 DEF IsLast
      <3>3. \A j, k \in 1..n : k >= j => k + 1 >= j + 1 OBVIOUS
      <3>4. \A j \in 1..n : Tells(channel'[w][j], t) =>
              place[t] = "done" /\ \A k \in 1..n : k >= j => IsLast(t, channel[w][k])'
        BY <1>3, <2>2, <2>5, <3>1, <3>2, <3>3
      <3> QED BY <1>1, <1>3, <2>1, <2>2, <2>5, <3>1, <3>2, <3>4
    <2> QED BY <2>4, <2>5
  <1> QED BY <1>10, <1>11, <1>12, <1>13, <1>14, <1>15 DEF IInv

\* The results of the packs replace those known.
LEMMA UpdateTasksIs ==
  ASSUME IInv, NEW w \in Workers, NEW m \in UpdateMessages(w)
  PROVE  /\ UpdateTasks(m.packs) \in [Tasks -> States]
         /\ \A x \in Tasks, v \in States : Packs(m, x, v) => UpdateTasks(m.packs)[x] = v
         /\ \A x \in Tasks : (\A v \in States : ~Packs(m, x, v)) => UpdateTasks(m.packs)[x] = tasks[x]
         /\ \A v \in Workers : v # w => \A x \in TasksOfWorker(v) : UpdateTasks(m.packs)[x] = tasks[x]
         /\ \A x \in TasksOf(m.events) : x \in TasksOfWorker(w) /\ \E v \in States : Packs(m, x, v)
  <1>1. /\ m.kind = "update" /\ m.packs \in SUBSET (TasksOfWorker(w) \X States) /\ m.events \in Seq(OwnEvents(w))
        /\ \A x \in TasksOf(m.events) : \E v \in States : <<x, v>> \in m.packs
        /\ \A p, q \in m.packs : p[1] = q[1] => p = q
    BY DEF UpdateMessages
  <1>2. PICK P \in SUBSET (TasksOfWorker(w) \X States) : P = m.packs BY <1>1
  <1>3. PICK T : T = UpdateTasks(P) OBVIOUS
  <1> DEFINE value(x) == IF \E p \in P : p[1] = x THEN (CHOOSE p \in P : p[1] = x)[2] ELSE tasks[x]
  <1>4. T = [x \in Tasks |-> value(x)] BY <1>3 DEF UpdateTasks
  <1>5. \A p \in P : p[1] \in TasksOfWorker(w) /\ p[2] \in States /\ p = <<p[1], p[2]>> BY <1>2
  <1>6. \A x \in Tasks, v \in States : <<x, v>> \in P => value(x) = v
    <2> SUFFICES ASSUME NEW x \in Tasks, NEW v \in States, <<x, v>> \in P PROVE value(x) = v OBVIOUS
    <2>1. <<x, v>>[1] = x OBVIOUS
    <2>2. PICK p \in P : p = (CHOOSE q \in P : q[1] = x) /\ p[1] = x BY <2>1
    <2>3. p = <<x, v>> BY <1>1, <1>2, <2>1, <2>2
    <2>4. p[2] = v BY <2>3
    <2>5. \E q \in P : q[1] = x BY <2>2
    <2>6. value(x) = (CHOOSE q \in P : q[1] = x)[2] BY <2>5
    <2> QED BY <2>2, <2>4, <2>6
  <1>7. \A x \in Tasks : (\A v \in States : <<x, v>> \notin P) => value(x) = tasks[x]
    <2> SUFFICES ASSUME NEW x \in Tasks, \A v \in States : <<x, v>> \notin P PROVE value(x) = tasks[x] OBVIOUS
    <2>1. ~\E p \in P : p[1] = x BY <1>5
    <2> QED BY <2>1
  <1>8. \A x \in Tasks : value(x) \in States
    <2> TAKE x \in Tasks
    <2>1. CASE \A v \in States : <<x, v>> \notin P BY <1>7, <2>1, TypesOf
    <2>2. CASE \E v \in States : <<x, v>> \in P BY <1>6, <2>2
    <2> QED BY <2>1, <2>2
  <1> HIDE DEF value
  <1>9. T \in [Tasks -> States] /\ \A x \in Tasks : T[x] = value(x) BY <1>4, <1>8
  <1>10. \A x, v : Packs(m, x, v) <=> <<x, v>> \in P BY <1>1, <1>2 DEF Packs
  <1>11. \A v \in Workers : v # w => \A x \in TasksOfWorker(v) : T[x] = tasks[x]
    <2> SUFFICES ASSUME NEW v \in Workers, v # w, NEW x \in TasksOfWorker(v) PROVE T[x] = tasks[x] OBVIOUS
    <2>1. x \in Tasks /\ x \notin TasksOfWorker(w) BY OneWorkerEach
    <2>2. \A u \in States : <<x, u>> \notin P BY <1>2, <2>1
    <2> QED BY <1>7, <1>9, <2>1, <2>2
  <1>12. \A x \in TasksOf(m.events) : x \in TasksOfWorker(w) /\ \E v \in States : Packs(m, x, v)
    BY <1>1, <1>2, <1>10
  <1>13. UpdateTasks(m.packs) = T BY <1>2, <1>3
  <1>14. \A x \in Tasks, v \in States : Packs(m, x, v) => T[x] = v BY <1>6, <1>9, <1>10
  <1>15. \A x \in Tasks : (\A v \in States : ~Packs(m, x, v)) => T[x] = tasks[x] BY <1>7, <1>9, <1>10
  <1> QED BY ONLY <1>9, <1>11, <1>12, <1>13, <1>14, <1>15

LEMMA ReceiveUpdateInv ==
  ASSUME IInv, NEW w \in Workers, ReceiveUpdate(w) PROVE IInv'
  <1> DEFINE m == Head(channel[w]) now == <<Head(m.events)>>
  <1>1. /\ channel[w] # <<>> /\ m.kind = "update" /\ channel' = [channel EXCEPT ![w] = Tail(@)]
        /\ tasks' = UpdateTasks(m.packs) /\ told' = [told EXCEPT ![w] = Append(@, Head(m.events))]
        /\ handlers' = [handlers EXCEPT ![w] = Append(@, Tail(m.events))]
        /\ received' = [received EXCEPT ![w] = @ \o m.events]
        /\ alone' = [alone EXCEPT ![w] = @ /\ handlers[w] = <<>>]
        /\ UNCHANGED <<result, place, tries, eventsPacks, recent, pendingCall, emitted, failures,
                       cancelRun, cancelled>>
    BY DEF ReceiveUpdate, tests, throttle
  <1>2. /\ channel[w][1] \in Messages(w) /\ Head(channel[w]) = channel[w][1]
        /\ DOMAIN channel' = Workers
        /\ \A v \in Workers : v # w => channel'[v] = channel[v] /\ OnTheWay(v)' = OnTheWay(v)
        /\ channel'[w] \in Seq(Messages(w))
        /\ OnTheWay(w)' \in Seq(OwnEvents(w)) /\ OnTheWay(w) = EventsOf(channel[w][1]) \o OnTheWay(w)'
        /\ \E n \in Nat : /\ DOMAIN channel[w] = 1..(n + 1) /\ DOMAIN (channel'[w]) = 1..n
                          /\ \A k \in 1..n : channel'[w][k] = channel[w][k + 1]
        /\ place[FileOf[w]] # "done"
    BY <1>1, Arrives
  <1>3. PICK n \in Nat : /\ DOMAIN channel[w] = 1..(n + 1) /\ DOMAIN (channel'[w]) = 1..n
                         /\ \A k \in 1..n : channel'[w][k] = channel[w][k + 1]
    BY <1>2
  <1>4. m = channel[w][1] /\ m \in UpdateMessages(w)
    BY <1>1, <1>2 DEF Messages
  <1> HIDE DEF m
  <1>5. PICK ev \in Seq(OwnEvents(w)) : ev = m.events /\ ev # <<>> BY <1>4 DEF UpdateMessages
  <1>6. Head(ev) \in OwnEvents(w) /\ Tail(ev) \in Seq(OwnEvents(w)) /\ ev = <<Head(ev)>> \o Tail(ev)
    BY <1>5, HeadAndTail
  <1>7. EventsOf(channel[w][1]) = ev BY <1>1, <1>4, <1>5 DEF EventsOf
  <1>8. now = <<Head(ev)>> BY <1>5
  <1>9. now \in Seq(OwnEvents(w)) BY <1>6, <1>8
  <1> HIDE DEF now
  <1>10. /\ told[w] \in Seq(OwnEvents(w)) /\ handlers[w] \in Seq(Seq(OwnEvents(w)))
         /\ eventsPacks[w] \in Seq(OwnEvents(w)) /\ DOMAIN told = Workers /\ DOMAIN handlers = Workers
         /\ received[w] \in Seq(OwnEvents(w)) /\ DOMAIN received = Workers /\ DOMAIN alone = Workers
    BY DEF IInv, Typed, Sequences
  <1>11. told'[w] = told[w] \o now /\ DOMAIN told' = Workers /\ \A v \in Workers : v # w => told'[v] = told[v]
    BY <1>1, <1>5, <1>6, <1>8, <1>10, AppendIsConcat
  <1>26. received'[w] = received[w] \o ev /\ DOMAIN received' = Workers
         /\ \A v \in Workers : v # w => received'[v] = received[v]
    BY <1>1, <1>5, <1>10
  <1>27. (alone'[w] <=> alone[w] /\ handlers[w] = <<>>) /\ DOMAIN alone' = Workers
         /\ \A v \in Workers : v # w => alone'[v] = alone[v]
    BY <1>1, <1>10, Zenon
  <1>28. received'[w] \in Seq(OwnEvents(w)) BY <1>10, <1>26, ConcatProperties
  <1>12. /\ handlers'[w] = Append(handlers[w], Tail(ev))
         /\ DOMAIN handlers' = Workers /\ \A v \in Workers : v # w => handlers'[v] = handlers[v]
    BY <1>1, <1>5, <1>10
  <1>13. /\ tasks' \in [Tasks -> States]
         /\ \A x \in Tasks, v \in States : Packs(m, x, v) => tasks'[x] = v
         /\ \A x \in Tasks : (\A v \in States : ~Packs(m, x, v)) => tasks'[x] = tasks[x]
         /\ \A v \in Workers : v # w => \A x \in TasksOfWorker(v) : tasks'[x] = tasks[x]
         /\ \A x \in TasksOf(ev) : x \in TasksOfWorker(w) /\ \E v \in States : Packs(m, x, v)
    BY <1>1, <1>4, <1>5, UpdateTasksIs, ZenonT(60)
  <1>14. told'[w] \in Seq(OwnEvents(w)) BY <1>9, <1>10, <1>11, ConcatProperties
  <1>15. handlers'[w] \in Seq(Seq(OwnEvents(w))) BY <1>6, <1>10, <1>12, AppendProperties
  <1>16. Sequences' BY <1>1, <1>2, <1>11, <1>12, <1>14, <1>15, <1>26, <1>27, <1>28 DEF IInv, Typed, Sequences
  <1>17. Typed' BY <1>1, <1>13, <1>16, TypedAfter, TypesOf
  <1>18. Places' BY <1>1, <1>2, <1>12, FilePlaces DEF IInv, Places
  <1>29. EventsReceived'
    <2> SUFFICES ASSUME NEW v \in Workers
                 PROVE  emitted'[v] = received'[v] \o OnTheWay(v)' \o eventsPacks'[v]
      BY DEF EventsReceived
    <2>1. emitted[v] = received[v] \o OnTheWay(v) \o eventsPacks[v] BY DEF IInv, InOrder, EventsReceived
    <2>2. CASE v # w BY <1>1, <1>2, <1>26, <2>1, <2>2
    <2>3. CASE v = w
      <3>1. received'[w] = received[w] \o ev BY <1>26
      <3>2. OnTheWay(w) = ev \o OnTheWay(w)' BY <1>2, <1>7
      <3>3. PICK M, a, o : M = OwnEvents(w) /\ a = received[w] /\ o = OnTheWay(w)' OBVIOUS
      <3>4. a \in Seq(M) /\ ev \in Seq(M) /\ o \in Seq(M) BY <1>2, <1>10, <3>3
      <3>5. (a \o ev) \o o = a \o (ev \o o) BY ONLY <3>4, ConcatAssociative
      <3>6. eventsPacks' = eventsPacks /\ emitted' = emitted BY <1>1
      <3> QED BY <2>1, <2>3, <3>1, <3>2, <3>3, <3>5, <3>6
    <2> QED BY <2>2, <2>3
  <1>30. ToldInOrder'
    <2> SUFFICES ASSUME NEW v \in Workers, alone'[v]
                 PROVE  Len(handlers'[v]) <= 1 /\ received'[v] = told'[v] \o FlattenSeq(handlers'[v])
      BY DEF ToldInOrder
    <2>1. CASE v # w
      <3>1. alone[v] /\ received'[v] = received[v] /\ told'[v] = told[v] /\ handlers'[v] = handlers[v]
        BY <1>11, <1>12, <1>26, <1>27, <2>1
      <3> QED BY <3>1 DEF IInv, InOrder, ToldInOrder
    <2>2. CASE v = w
      <3>1. alone[w] /\ handlers[w] = <<>> BY <1>27, <2>2
      <3>2. PICK M, a, o, r : M = OwnEvents(w) /\ a = told[w] /\ o = <<Head(ev)>> /\ r = Tail(ev) OBVIOUS
      <3>3. a \in Seq(M) /\ o \in Seq(M) /\ r \in Seq(M) /\ ev = o \o r BY <1>6, <1>10, <3>2
      <3>4. handlers'[w] = <<r>> BY <1>12, <3>1, <3>2
      <3>5. FlattenSeq(handlers'[w]) = r /\ Len(handlers'[w]) = 1
        <4>1. FlattenSeq(<<r>>) = r BY ONLY <3>3, FlattenOne
        <4> QED BY <3>4, <4>1
      <3>6. received[w] = a
        <4>1. received[w] = told[w] \o FlattenSeq(handlers[w]) BY <3>1 DEF IInv, InOrder, ToldInOrder
        <4>2. a \o <<>> = a BY ONLY <3>3, ConcatEmptySeq
        <4> QED BY <3>1, <3>2, <4>1, <4>2, FlattenEmpty
      <3>7. (a \o o) \o r = a \o (o \o r) BY ONLY <3>3, ConcatAssociative
      <3>8. told'[w] = a \o o BY <1>8, <1>11, <3>2
      <3>9. received'[w] = a \o (o \o r) BY <1>26, <3>3, <3>6
      <3> QED BY <2>2, <3>5, <3>7, <3>8, <3>9
    <2> QED BY <2>1, <2>2
  <1>19. InOrder' BY <1>29, <1>30 DEF InOrder
  <1>24. Len(told'[w]) = Len(told[w]) + Len(now) /\ Range(told'[w]) = Range(told[w]) \cup Range(now)
    <2>1. told[w] \in Seq(OwnEvents(w)) /\ now \in Seq(OwnEvents(w)) BY <1>9, <1>10
    <2>2. Len(told[w] \o now) = Len(told[w]) + Len(now) BY ONLY <2>1, LenConcat
    <2>3. Range(told[w] \o now) = Range(told[w]) \cup Range(now) BY ONLY <2>1, TasksOfConcat
    <2> QED BY <1>11, <2>2, <2>3
  <1>25. /\ Len(now) + Len(FlattenSeq(handlers'[w])) = Len(ev) + Len(FlattenSeq(handlers[w]))
         /\ Range(now) \cup Range(FlattenSeq(handlers'[w])) = Range(ev) \cup Range(FlattenSeq(handlers[w]))
    <2>1. PICK F \in Seq(OwnEvents(w)) : F = FlattenSeq(handlers[w]) BY <1>10, FlattenType
    <2>2. PICK G \in Seq(OwnEvents(w)) : G = FlattenSeq(handlers'[w]) BY <1>15, FlattenType
    <2>3. Len(now) + Len(G) = Len(ev) + Len(F) /\ Range(now) \cup Range(G) = Range(ev) \cup Range(F)
      <3>1. PICK h, o, r : h = Head(ev) /\ o = <<h>> /\ r = Tail(ev) OBVIOUS
      <3>2. o \in Seq(OwnEvents(w)) /\ r \in Seq(OwnEvents(w)) /\ ev = o \o r BY <1>6, <3>1
      <3>3. now = o BY <1>8, <3>1
      <3>4. G = F \o r
        <4>1. FlattenSeq(Append(handlers[w], r)) = FlattenSeq(handlers[w]) \o r
          BY <1>10, <3>2, FlattenAppend
        <4> QED BY <1>12, <2>1, <2>2, <3>1, <4>1
      <3>5. Len(ev) = Len(o) + Len(r) /\ Range(ev) = Range(o) \cup Range(r)
        <4>1. Len(o \o r) = Len(o) + Len(r) BY ONLY <3>2, LenConcat
        <4>2. Range(o \o r) = Range(o) \cup Range(r) BY ONLY <3>2, TasksOfConcat
        <4> QED BY <3>2, <4>1, <4>2
      <3>6. Len(G) = Len(F) + Len(r) /\ Range(G) = Range(F) \cup Range(r)
        <4>0. F \in Seq(OwnEvents(w)) /\ r \in Seq(OwnEvents(w)) BY <3>2
        <4>1. Len(F \o r) = Len(F) + Len(r) BY ONLY <4>0, LenConcat
        <4>2. Range(F \o r) = Range(F) \cup Range(r) BY ONLY <4>0, TasksOfConcat
        <4> QED BY <3>4, <4>1, <4>2
      <3>7. Len(o) \in Nat /\ Len(r) \in Nat /\ Len(F) \in Nat BY <3>2, LenProperties
      <3>8. Len(now) + Len(G) = Len(ev) + Len(F)
        <4>1. PICK a \in Nat, b \in Nat, c \in Nat : a = Len(o) /\ b = Len(r) /\ c = Len(F) BY <3>7
        <4>2. a + (c + b) = (a + b) + c OBVIOUS
        <4> QED BY <3>3, <3>5, <3>6, <4>1, <4>2
      <3> QED BY <3>3, <3>5, <3>6, <3>8
    <2> QED BY <2>1, <2>2, <2>3
  <1>23. Range(told'[w]) \cup Range(FlattenSeq(handlers'[w])) \subseteq
           Range(told[w]) \cup Range(FlattenSeq(handlers[w])) \cup Range(ev)
    BY <1>24, <1>25
  <1>20. AllAreThere'
    <2> SUFFICES ASSUME NEW v \in Workers PROVE AllThere(v)' BY DEF AllAreThere
    <2>1. AllThere(v) BY DEF IInv, AllAreThere
    <2>2. CASE v # w BY <1>1, <1>2, <1>11, <1>12, <2>1, <2>2 DEF AllThere
    <2>3. CASE v = w
      <3>1. /\ Len(OnTheWay(w)) = Len(ev) + Len(OnTheWay(w)') /\ Range(OnTheWay(w)) = Range(ev) \cup Range(OnTheWay(w)')
        <4>1. OnTheWay(w)' \in Seq(OwnEvents(w)) /\ ev \in Seq(OwnEvents(w)) BY <1>2
        <4>2. Len(ev \o OnTheWay(w)') = Len(ev) + Len(OnTheWay(w)') BY ONLY <4>1, LenConcat
        <4>3. Range(ev \o OnTheWay(w)') = Range(ev) \cup Range(OnTheWay(w)') BY ONLY <4>1, TasksOfConcat
        <4> QED BY <1>2, <1>7, <4>2, <4>3
      <3>2. Len(told'[w]) = Len(told[w]) + Len(now) /\ Range(told'[w]) = Range(told[w]) \cup Range(now) BY <1>24
      <3>3. PICK F \in Seq(OwnEvents(w)) : F = FlattenSeq(handlers[w]) BY <1>10, FlattenType
      <3>4. PICK G \in Seq(OwnEvents(w)) : G = FlattenSeq(handlers'[w]) BY <1>15, FlattenType
      <3>5. Len(now) + Len(G) = Len(ev) + Len(F) /\ Range(now) \cup Range(G) = Range(ev) \cup Range(F)
        BY <1>25, <3>3, <3>4
      <3>6. /\ Len(emitted[w]) = Len(told[w]) + Len(F) + Len(OnTheWay(w)) + Len(eventsPacks[w])
            /\ Range(emitted[w]) = Range(told[w]) \cup Range(F) \cup Range(OnTheWay(w)) \cup Range(eventsPacks[w])
        BY <2>1, <2>3, <3>3 DEF AllThere
      <3>8. Len(emitted[w]) = Len(told'[w]) + Len(G) + Len(OnTheWay(w)') + Len(eventsPacks[w])
        <4>1. PICK e, t, f, p, a, g, o, x :
                /\ e = Len(emitted[w]) /\ t = Len(told[w]) /\ f = Len(F) /\ p = Len(eventsPacks[w])
                /\ a = Len(now) /\ g = Len(G) /\ o = Len(OnTheWay(w)') /\ x = Len(ev)
          OBVIOUS
        <4>2. /\ t \in Nat /\ f \in Nat /\ p \in Nat /\ a \in Nat /\ g \in Nat /\ o \in Nat /\ x \in Nat
          BY <1>2, <1>9, <1>10, <4>1, LenProperties
        <4>3. a + g = x + f /\ e = t + f + (x + o) + p BY <3>1, <3>5, <3>6, <4>1
        <4>4. e = (t + a) + g + o + p BY ONLY <4>2, <4>3
        <4> QED BY <3>2, <4>1, <4>4
      <3>9. Range(emitted[w]) = Range(told'[w]) \cup Range(G) \cup Range(OnTheWay(w)') \cup Range(eventsPacks[w])
        BY <3>1, <3>2, <3>5, <3>6
      <3>10. eventsPacks' = eventsPacks /\ emitted' = emitted BY <1>1
      <3> QED BY <2>3, <3>4, <3>8, <3>9, <3>10 DEF AllThere
    <2> QED BY <2>2, <2>3
  <1>21. LastIsSo'
    <2> SUFFICES ASSUME NEW v \in Workers, NEW x \in TasksOfWorker(v), x \notin TasksOf(eventsPacks'[v])
                 PROVE  LastIs(v, x, result[x])'
      BY DEF LastIsSo
    <2>1. LastIs(v, x, result[x]) BY <1>1 DEF IInv, LastIsSo
    <2>2. x \in Tasks /\ result[x] \in States BY OneWorkerEach, TypesOf
    <2>3. CASE v # w
      <3>1. tasks'[x] = tasks[x] /\ channel'[v] = channel[v] /\ result' = result BY <1>1, <1>2, <1>13, <2>3
      <3> QED BY <2>1, <3>1 DEF LastIs, Packs
    <2>4. CASE v = w
      <3>1. \A k \in 1..n : k + 1 \in 1..(n + 1) /\ k + 1 > 1 OBVIOUS
      <3>2. CASE \A k \in DOMAIN channel[w] : \A u \in States : ~Packs(channel[w][k], x, u)
        <4>1. tasks[x] = result[x] BY <2>1, <2>2, <2>4, <3>2 DEF LastIs
        <4>2. \A k \in DOMAIN (channel'[w]) : \A u \in States : ~Packs(channel'[w][k], x, u)
          BY <1>3, <3>1, <3>2
        <4>3. 1 \in DOMAIN channel[w] BY <1>3
        <4>4. tasks'[x] = tasks[x] BY <1>4, <1>13, <2>2, <3>2, <4>3
        <4> QED BY <1>1, <2>4, <4>1, <4>2, <4>4 DEF LastIs, Packs
      <3>3. ASSUME NEW j \in DOMAIN channel[w], Packs(channel[w][j], x, result[x]),
                   \A k \in DOMAIN channel[w] : k > j => \A u \in States : ~Packs(channel[w][k], x, u)
            PROVE  LastIs(w, x, result[x])'
        <4>1. CASE j = 1
          <5>1. tasks'[x] = result[x] BY <1>4, <1>13, <2>2, <3>3, <4>1
          <5>2. \A k \in DOMAIN (channel'[w]) : \A u \in States : ~Packs(channel'[w][k], x, u)
            BY <1>3, <3>1, <3>3, <4>1
          <5> QED BY <1>1, <5>1, <5>2 DEF LastIs, Packs
        <4>2. CASE j # 1
          <5>1. PICK i \in 1..n : j = i + 1
            <6>1. j - 1 \in 1..n /\ j = (j - 1) + 1 BY <1>3, <4>2
            <6> QED BY <6>1
          <5>2. Packs(channel'[w][i], x, result'[x]) BY <1>1, <1>3, <3>3, <5>1
          <5>3. \A k \in 1..n : k > i => k + 1 \in 1..(n + 1) /\ k + 1 > j BY <5>1
          <5>4. \A k \in DOMAIN (channel'[w]) : k > i => \A u \in States : ~Packs(channel'[w][k], x, u)
            BY <1>3, <3>3, <5>3
          <5> QED BY <1>3, <5>2, <5>4 DEF LastIs, Packs
        <4> QED BY <4>1, <4>2
      <3> QED BY <2>1, <2>4, <3>2, <3>3 DEF LastIs
    <2> QED BY <2>3, <2>4
  <1>22. FinishIsLast'
    <2> SUFFICES ASSUME NEW t \in Tests
                 PROVE  LET v == WorkerOf[t] IN
                   /\ Finish(t) \in Range(eventsPacks'[v]) => place'[t] = "done"
                   /\ \A j \in DOMAIN (channel'[v]) : Tells(channel'[v][j], t) =>
                        place'[t] = "done" /\ \A k \in DOMAIN (channel'[v]) : k >= j => IsLast(t, channel[v][k])'
                   /\ Finish(t) \in Range(told'[v]) \cup Range(FlattenSeq(handlers'[v])) =>
                        /\ place'[t] = "done" /\ tasks'[t] = result'[t]
                        /\ \A k \in DOMAIN (channel'[v]) : IsLast(t, channel[v][k])'
      BY DEF FinishIsLast, Tells
    <2>1. PICK v \in Workers : v = WorkerOf[t] /\ t \in TasksOfWorker(v) /\ t \in Tasks BY OneWorkerEach
    <2>2. /\ Finish(t) \in Range(eventsPacks[v]) => place[t] = "done"
          /\ \A j \in DOMAIN channel[v] : Tells(channel[v][j], t) =>
               place[t] = "done" /\ \A k \in DOMAIN channel[v] : k >= j => IsLast(t, channel[v][k])
          /\ Finish(t) \in Range(told[v]) \cup Range(FlattenSeq(handlers[v])) =>
               /\ place[t] = "done" /\ tasks[t] = result[t]
               /\ \A k \in DOMAIN channel[v] : IsLast(t, channel[v][k])
      BY <2>1 DEF IInv, FinishIsLast
    <2>3. \A k : IsLast(t, channel[v][k])' <=> \A x \in States : Packs(channel'[v][k], t, x) => x = result[t]
      BY <1>1 DEF IsLast, Packs
    <2>4. CASE v # w
      <3>1. channel'[v] = channel[v] /\ told'[v] = told[v] /\ handlers'[v] = handlers[v] /\ tasks'[t] = tasks[t]
        BY <1>2, <1>11, <1>12, <1>13, <2>1, <2>4
      <3>2. \A k : IsLast(t, channel[v][k])' <=> IsLast(t, channel[v][k]) BY <2>3, <3>1 DEF IsLast
      <3> QED BY <1>1, <2>1, <2>2, <3>1, <3>2
    <2>5. CASE v = w
      <3>1. \A k \in 1..n : k + 1 \in 1..(n + 1) OBVIOUS
      <3>2. \A k \in 1..n : IsLast(t, channel[w][k])' <=> IsLast(t, channel[w][k + 1])
        BY <1>3, <2>3, <2>5 DEF IsLast
      <3>3. \A j, k \in 1..n : k >= j => k + 1 >= j + 1 OBVIOUS
      <3>4. \A j \in 1..n : Tells(channel'[w][j], t) =>
              place[t] = "done" /\ \A k \in 1..n : k >= j => IsLast(t, channel[w][k])'
        BY <1>3, <2>2, <2>5, <3>1, <3>2, <3>3
      <3>5. Range(told'[w]) \cup Range(FlattenSeq(handlers'[w])) \subseteq
              Range(told[w]) \cup Range(FlattenSeq(handlers[w])) \cup Range(ev)
        BY <1>23
      <3>6. 1 \in DOMAIN channel[w] /\ \A k \in DOMAIN channel[w] : k >= 1 BY <1>3
      <3>7. ASSUME Finish(t) \in Range(ev)
            PROVE  place[t] = "done" /\ (\A k \in DOMAIN channel[w] : IsLast(t, channel[w][k])) /\ tasks'[t] = result[t]
        <4>1. Tells(channel[w][1], t) BY <1>1, <1>4, <1>5, <3>7 DEF Tells
        <4>2. place[t] = "done" /\ \A k \in DOMAIN channel[w] : IsLast(t, channel[w][k])
          BY <2>2, <2>5, <3>6, <4>1
        <4>3. t \in TasksOf(ev)
          <5>1. Finish(t)[1] = t BY DEF Finish
          <5> QED BY <3>7, <5>1 DEF TasksOf
        <4>4. PICK u \in States : Packs(m, t, u) BY <1>13, <4>3
        <4>5. u = result[t] BY <1>4, <3>6, <4>2, <4>4 DEF IsLast
        <4> QED BY <1>13, <2>1, <4>2, <4>4, <4>5
      <3>8. ASSUME Finish(t) \in Range(told[w]) \cup Range(FlattenSeq(handlers[w]))
            PROVE  place[t] = "done" /\ (\A k \in DOMAIN channel[w] : IsLast(t, channel[w][k])) /\ tasks'[t] = result[t]
        <4>1. place[t] = "done" /\ tasks[t] = result[t] /\ \A k \in DOMAIN channel[w] : IsLast(t, channel[w][k])
          BY <2>2, <2>5, <3>8
        <4>2. \A u \in States : Packs(m, t, u) => u = result[t] BY <1>4, <3>6, <4>1 DEF IsLast
        <4>3. tasks'[t] = result[t] BY <1>13, <2>1, <4>1, <4>2
        <4> QED BY <4>1, <4>3
      <3>9. Finish(t) \in Range(told'[w]) \cup Range(FlattenSeq(handlers'[w])) =>
              place[t] = "done" /\ (\A k \in DOMAIN channel[w] : IsLast(t, channel[w][k])) /\ tasks'[t] = result[t]
        BY <3>5, <3>7, <3>8
      <3> QED BY <1>1, <1>3, <2>1, <2>2, <2>5, <3>1, <3>2, <3>4, <3>9
    <2> QED BY <2>4, <2>5
  <1> QED BY <1>17, <1>18, <1>19, <1>20, <1>21, <1>22 DEF IInv

\* A sequence taken apart at i.
TakenApart(S, q, i) ==
  \E a \in Seq(S), b \in Seq(S) :
    /\ RemoveAt(q, i) = a \o b
    /\ \A y \in S : [q EXCEPT ![i] = y] = (a \o <<y>>) \o b

LEMMA Split ==
  ASSUME NEW S, NEW q \in Seq(S), NEW i \in 1..Len(q) PROVE TakenApart(S, q, i)
  <1>1. PICK n \in Nat : n = Len(q) /\ i \in 1..n OBVIOUS
  <1>2. PICK a \in Seq(S) : a = SubSeq(q, 1, i - 1) /\ Len(a) = i - 1 /\ \A k \in 1..(i - 1) : a[k] = q[k]
    <2>1. \A k \in 1..(i - 1) : q[k] \in S BY <1>1
    <2>2. SubSeq(q, 1, i - 1) = [k \in 1..(i - 1) |-> q[k]] BY <1>1
    <2>3. SubSeq(q, 1, i - 1) \in Seq(S) /\ Len(SubSeq(q, 1, i - 1)) = i - 1 BY <1>1, SubSeqProperties
    <2>4. \A k \in 1..(i - 1) : SubSeq(q, 1, i - 1)[k] = q[k] BY <1>1, SubSeqProperties
    <2> QED BY <2>3, <2>4
  <1>3. PICK b \in Seq(S) : b = SubSeq(q, i + 1, n) /\ Len(b) = n - i /\ \A k \in 1..(n - i) : b[k] = q[i + k]
    <2>1. SubSeq(q, i + 1, n) \in Seq(S) /\ Len(SubSeq(q, i + 1, n)) = n - i BY <1>1, SubSeqProperties
    <2>2. \A k \in 1..(n - i) : SubSeq(q, i + 1, n)[k] = q[i + k] BY <1>1, SubSeqProperties
    <2> QED BY <2>1, <2>2
  <1>4. RemoveAt(q, i) = a \o b BY <1>1, <1>2, <1>3 DEF RemoveAt
  <1>5. ASSUME NEW y \in S
        PROVE  [q EXCEPT ![i] = y] = (a \o <<y>>) \o b
    <2>0. <<y>> \in Seq(S) /\ Len(<<y>>) = 1 /\ <<y>>[1] = y OBVIOUS
    <2>1. PICK o \in Seq(S) : o = <<y>> /\ Len(o) = 1 /\ o[1] = y BY <2>0
    <2>2. PICK c \in Seq(S) : c = a \o o /\ Len(c) = i
                              /\ (\A k \in 1..(i - 1) : c[k] = q[k]) /\ c[i] = y
      <3>1. a \o o \in Seq(S) /\ Len(a \o o) = i BY <1>2, <2>1, ConcatProperties
      <3>2. \A k \in 1..i : (a \o o)[k] = IF k <= i - 1 THEN a[k] ELSE o[k - (i - 1)]
        BY <1>2, <2>1, ConcatProperties
      <3>3. \A k \in 1..(i - 1) : (a \o o)[k] = q[k] BY <1>2, <3>2
      <3>4. (a \o o)[i] = y
        <4>1. i \in 1..i /\ ~(i <= i - 1) /\ i - (i - 1) = 1 BY <1>1
        <4> QED BY <2>1, <3>2, <4>1
      <3> QED BY <3>1, <3>3, <3>4
    <2>3. PICK d \in Seq(S) : d = c \o b /\ Len(d) = n /\ \A k \in 1..n : d[k] = IF k <= i THEN c[k] ELSE b[k - i]
      <3>1. i + (n - i) = n BY <1>1
      <3>2. c \o b \in Seq(S) /\ Len(c \o b) = Len(c) + Len(b)
            /\ \A k \in 1..(Len(c) + Len(b)) : (c \o b)[k] = IF k <= Len(c) THEN c[k] ELSE b[k - Len(c)]
        BY ConcatProperties
      <3>3. Len(c) = i /\ Len(b) = n - i BY <1>3, <2>2
      <3> QED BY ONLY <3>1, <3>2, <3>3
    <2>4. [q EXCEPT ![i] = y] \in Seq(S) /\ Len([q EXCEPT ![i] = y]) = n
          /\ \A k \in 1..n : [q EXCEPT ![i] = y][k] = IF k = i THEN y ELSE q[k]
      BY <1>1, ExceptSeq
    <2>5. \A k \in 1..n : d[k] = IF k = i THEN y ELSE q[k]
      <3> TAKE k \in 1..n
      <3>1. CASE k < i BY <2>2, <2>3, <3>1
      <3>2. CASE k = i BY <2>2, <2>3, <3>2
      <3>3. CASE k > i
        <4>1. k - i \in 1..(n - i) /\ i + (k - i) = k BY <1>1, <3>3
        <4>2. b[k - i] = q[k] BY <1>3, <4>1
        <4>3. d[k] = b[k - i] /\ k # i BY <1>1, <2>3, <3>3
        <4> QED BY <4>2, <4>3
      <3> QED BY <3>1, <3>2, <3>3
    <2>6. d = (a \o <<y>>) \o b BY <2>1, <2>2, <2>3
    <2>9. PICK e : e = [q EXCEPT ![i] = y] OBVIOUS
    <2>7. e \in Seq(S) /\ Len(e) = n /\ \A k \in 1..n : e[k] = d[k] BY <2>4, <2>5, <2>9
    <2>8. e = d BY <2>3, <2>7, SeqEqual
    <2> QED BY <2>6, <2>8, <2>9
  <1> QED BY <1>4, <1>5 DEF TakenApart

LEMMA PartsOf ==
  ASSUME NEW S, NEW a \in Seq(S), NEW b \in Seq(S), NEW c \in Seq(S)
  PROVE  /\ Len((a \o b) \o c) = Len(a) + Len(b) + Len(c)
         /\ Range((a \o b) \o c) = Range(a) \cup Range(b) \cup Range(c)
  <1>1. PICK d : d = a \o b OBVIOUS
  <1>2. d \in Seq(S) BY <1>1, ConcatProperties
  <1>3. Len(a \o b) = Len(a) + Len(b) BY LenConcat
  <1>4. Range(a \o b) = Range(a) \cup Range(b) BY TasksOfConcat
  <1>5. Len(d \o c) = Len(d) + Len(c) BY <1>2, LenConcat
  <1>6. Range(d \o c) = Range(d) \cup Range(c) BY <1>2, TasksOfConcat
  <1> QED BY ONLY <1>1, <1>3, <1>4, <1>5, <1>6

\* What is joined, with the i-th sequence in place or without it.
LEMMA FlattenSplit ==
  ASSUME NEW S, NEW q \in Seq(Seq(S)), NEW i \in 1..Len(q)
  PROVE  \E u \in Seq(S), v \in Seq(S) :
           /\ FlattenSeq(RemoveAt(q, i)) = u \o v /\ RemoveAt(q, i) \in Seq(Seq(S))
           /\ FlattenSeq(q) = (u \o q[i]) \o v
           /\ \A y \in Seq(S) : FlattenSeq([q EXCEPT ![i] = y]) = (u \o y) \o v /\ [q EXCEPT ![i] = y] \in Seq(Seq(S))
  <1>1. PICK a \in Seq(Seq(S)), b \in Seq(Seq(S)) :
           /\ RemoveAt(q, i) = a \o b
           /\ \A y \in Seq(S) : [q EXCEPT ![i] = y] = (a \o <<y>>) \o b
    <2>1. PICK Q : Q = Seq(S) OBVIOUS
    <2>2. q \in Seq(Q) /\ i \in 1..Len(q) BY <2>1
    <2>3. TakenApart(Q, q, i) BY ONLY <2>2, Split
    <2> QED BY ONLY <2>1, <2>3, ZenonT(60) DEF TakenApart
  <1>2. PICK u \in Seq(S), v \in Seq(S) : u = FlattenSeq(a) /\ v = FlattenSeq(b)
    <2>1. FlattenSeq(a) \in Seq(S) /\ FlattenSeq(b) \in Seq(S) BY FlattenType
    <2> QED BY <2>1
  <1>3. FlattenSeq(a \o b) = u \o v /\ a \o b \in Seq(Seq(S)) BY <1>2, FlattenConcat, ConcatProperties
  <1>4. ASSUME NEW y \in Seq(S)
        PROVE  FlattenSeq((a \o <<y>>) \o b) = (u \o y) \o v /\ (a \o <<y>>) \o b \in Seq(Seq(S))
    <2>1. PICK o : o = <<y>> OBVIOUS
    <2>2. o \in Seq(Seq(S)) BY <2>1
    <2>3. PICK c : c = a \o o OBVIOUS
    <2>4. c \in Seq(Seq(S)) BY <2>2, <2>3, ConcatProperties
    <2>5. c = Append(a, y) BY <2>1, <2>3, AppendIsConcat
    <2>6. FlattenSeq(c) = u \o y BY <1>2, <2>5, FlattenAppend
    <2>7. FlattenSeq(c \o b) = FlattenSeq(c) \o v BY <1>2, <2>4, FlattenConcat
    <2>8. c \o b \in Seq(Seq(S)) BY <2>4, ConcatProperties
    <2> QED BY <2>1, <2>3, <2>6, <2>7, <2>8
  <1>5. q = [q EXCEPT ![i] = q[i]] /\ q[i] \in Seq(S) OBVIOUS
  <1>6. FlattenSeq(q) = (u \o q[i]) \o v
    <2>1. PICK y \in Seq(S) : y = q[i] BY <1>5
    <2>2. q = (a \o <<y>>) \o b BY <1>1, <1>5, <2>1
    <2> QED BY <1>4, <2>1, <2>2
  <1>7. FlattenSeq(RemoveAt(q, i)) = u \o v /\ RemoveAt(q, i) \in Seq(Seq(S)) BY ONLY <1>1, <1>3
  <1>8. ASSUME NEW y \in Seq(S)
        PROVE  FlattenSeq([q EXCEPT ![i] = y]) = (u \o y) \o v /\ [q EXCEPT ![i] = y] \in Seq(Seq(S))
    <2>1. [q EXCEPT ![i] = y] = (a \o <<y>>) \o b BY ONLY <1>1, y \in Seq(S)
    <2>2. FlattenSeq((a \o <<y>>) \o b) = (u \o y) \o v /\ (a \o <<y>>) \o b \in Seq(Seq(S)) BY <1>4
    <2> QED BY ONLY <2>1, <2>2
  <1>9. u \in Seq(S) /\ v \in Seq(S) OBVIOUS
  <1> QED BY ONLY <1>6, <1>7, <1>8, <1>9

LEMMA ReportInv ==
  ASSUME IInv, NEW w \in Workers, NEW i \in DOMAIN handlers[w], Report(w, i) PROVE IInv'
  <1>1. PICK M, q : M = OwnEvents(w) /\ q = handlers[w] OBVIOUS
  <1>2. q \in Seq(Seq(M)) /\ i \in 1..Len(q) /\ told[w] \in Seq(M) /\ DOMAIN told = Workers /\ DOMAIN handlers = Workers
    BY <1>1 DEF IInv, Typed, Sequences
  <1>3. PICK e \in Seq(M) : e = q[i] BY <1>2
  <1>4. /\ IF e = <<>>
           THEN handlers' = [handlers EXCEPT ![w] = RemoveAt(@, i)] /\ UNCHANGED told
           ELSE /\ handlers' = [handlers EXCEPT ![w][i] = Tail(@)]
                /\ told' = [told EXCEPT ![w] = Append(@, Head(e))]
        /\ UNCHANGED <<result, place, tries, eventsPacks, recent, pendingCall, channel, emitted, tasks, failures,
                       received, alone, cancelRun, cancelled>>
    BY <1>1, <1>3 DEF Report, tests, throttle
  <1>5. PICK u \in Seq(M), v \in Seq(M) :
           /\ FlattenSeq(RemoveAt(q, i)) = u \o v /\ RemoveAt(q, i) \in Seq(Seq(M))
           /\ FlattenSeq(q) = (u \o e) \o v
           /\ \A y \in Seq(M) : FlattenSeq([q EXCEPT ![i] = y]) = (u \o y) \o v /\ [q EXCEPT ![i] = y] \in Seq(Seq(M))
    <2>1. \E u \in Seq(M), v \in Seq(M) :
            /\ FlattenSeq(RemoveAt(q, i)) = u \o v /\ RemoveAt(q, i) \in Seq(Seq(M))
            /\ FlattenSeq(q) = (u \o q[i]) \o v
            /\ \A y \in Seq(M) : FlattenSeq([q EXCEPT ![i] = y]) = (u \o y) \o v /\ [q EXCEPT ![i] = y] \in Seq(Seq(M))
      BY ONLY <1>2, FlattenSplit
    <2> QED BY ONLY <1>3, <2>1
  <1>6. PICK F \in Seq(M) : F = FlattenSeq(handlers[w])
    BY <1>1, <1>2, FlattenType
  <1>7. /\ told'[w] \in Seq(M) /\ handlers'[w] \in Seq(Seq(M))
        /\ \A x \in Workers : x # w => told'[x] = told[x] /\ handlers'[x] = handlers[x]
        /\ DOMAIN told' = Workers /\ DOMAIN handlers' = Workers
        /\ Len(told'[w]) + Len(FlattenSeq(handlers'[w])) = Len(told[w]) + Len(F)
        /\ Range(told'[w]) \cup Range(FlattenSeq(handlers'[w])) = Range(told[w]) \cup Range(F)
    <2>1. CASE e = <<>>
      <3>1. u \o e = u BY <2>1, ConcatEmptySeq
      <3>2. handlers'[w] = RemoveAt(q, i) /\ told' = told /\ \A x \in Workers : x # w => handlers'[x] = handlers[x]
        BY <1>1, <1>2, <1>4, <2>1
      <3>3. FlattenSeq(handlers'[w]) = F BY <1>1, <1>5, <1>6, <3>1, <3>2
      <3>4. DOMAIN handlers' = Workers BY <1>2, <1>4, <2>1
      <3> QED BY <1>2, <1>5, <3>2, <3>3, <3>4
    <2>2. CASE e # <<>>
      <3>0. Head(e) \in M /\ Tail(e) \in Seq(M)
        <4>1. Len(e) # 0 /\ Len(e) \in Nat BY <2>2
        <4> QED BY <2>2, <4>1, HeadTailProperties
      <3>1. PICK h \in M, r \in Seq(M) : h = Head(e) /\ r = Tail(e) BY <3>0
      <3>2. handlers'[w] = [q EXCEPT ![i] = r] /\ told'[w] = Append(told[w], h)
            /\ (\A x \in Workers : x # w => told'[x] = told[x] /\ handlers'[x] = handlers[x])
            /\ DOMAIN told' = Workers /\ DOMAIN handlers' = Workers
        BY <1>1, <1>2, <1>3, <1>4, <2>2, <3>1
      <3>3. PICK o \in Seq(M) : o = <<h>>
        <4>1. <<h>> \in Seq(M) OBVIOUS
        <4> QED BY <4>1
      <3>4. e = o \o r BY <2>2, <3>1, <3>3, HeadAndTail
      <3>5. told'[w] = told[w] \o o /\ told'[w] \in Seq(M) BY <1>2, <3>2, <3>3, AppendIsConcat, AppendProperties, SMTT(30)
      <3>6. PICK G \in Seq(M) : G = (u \o r) \o v
        <4>1. u \o r \in Seq(M) BY ConcatProperties
        <4>2. (u \o r) \o v \in Seq(M) BY <4>1, ConcatProperties
        <4> QED BY <4>2
      <3>7. FlattenSeq(handlers'[w]) = G /\ handlers'[w] \in Seq(Seq(M)) BY <1>5, <3>2, <3>6
      <3>8. F = (u \o e) \o v BY <1>1, <1>5, <1>6
      <3>9. Len(G) = Len(u) + Len(r) + Len(v) /\ Range(G) = Range(u) \cup Range(r) \cup Range(v)
        BY <3>6, PartsOf
      <3>10. Len(F) = Len(u) + Len(e) + Len(v) /\ Range(F) = Range(u) \cup Range(e) \cup Range(v)
        BY <3>8, PartsOf
      <3>11. Len(e) = Len(o) + Len(r) /\ Range(e) = Range(o) \cup Range(r) BY <3>4, LenConcat, TasksOfConcat
      <3>12. Len(told'[w]) = Len(told[w]) + Len(o) /\ Range(told'[w]) = Range(told[w]) \cup Range(o)
        BY <1>2, <3>5, LenConcat, TasksOfConcat
      <3>13. Len(told'[w]) + Len(G) = Len(told[w]) + Len(F)
        <4>1. PICK a, b, c, d, f : a = Len(told[w]) /\ b = Len(o) /\ c = Len(u) /\ d = Len(r) /\ f = Len(v) OBVIOUS
        <4>2. a \in Nat /\ b \in Nat /\ c \in Nat /\ d \in Nat /\ f \in Nat BY <1>2, <4>1, LenProperties
        <4>3. (a + b) + (c + d + f) = a + (c + (b + d) + f) BY ONLY <4>2
        <4> QED BY ONLY <3>9, <3>10, <3>11, <3>12, <4>1, <4>3
      <3>14. Range(told'[w]) \cup Range(G) = Range(told[w]) \cup Range(F) BY ONLY <3>9, <3>10, <3>11, <3>12
      <3> QED BY <3>2, <3>5, <3>7, <3>13, <3>14
    <2> QED BY <2>1, <2>2
  <1>8. q # <<>> BY <1>2
  <1>10. place[FileOf[w]] # "done" BY <1>1, <1>8 DEF IInv, Places
  <1>11. Sequences' BY <1>1, <1>4, <1>7 DEF IInv, Typed, Sequences
  <1>12. Typed' BY <1>4, <1>11, TypedAfter, TypesOf
  <1>13. place[FileOf[w]] \in {"flushing", "done"} => eventsPacks[w] = <<>> BY DEF IInv, Places
  <1>14. Places' BY <1>4, <1>7, <1>10, <1>13, FilePlaces
  <1>9. EventsReceived' BY <1>4 DEF IInv, InOrder, EventsReceived, OnTheWay
  <1>19. ToldInOrder'
    <2> SUFFICES ASSUME NEW x \in Workers, alone[x]
                 PROVE  Len(handlers'[x]) <= 1 /\ received[x] = told'[x] \o FlattenSeq(handlers'[x])
      BY <1>4 DEF ToldInOrder
    <2>1. Len(handlers[x]) <= 1 /\ received[x] = told[x] \o FlattenSeq(handlers[x])
      BY DEF IInv, InOrder, ToldInOrder
    <2>2. CASE x # w BY <1>7, <2>1, <2>2
    <2>3. CASE x = w
      <3>1. Len(q) = 1 /\ i = 1
        <4>1. PICK n \in Nat : n = Len(q) BY <1>2, LenProperties
        <4>2. n <= 1 /\ i \in 1..n BY <1>1, <1>2, <2>1, <2>3, <4>1
        <4>3. n = 1 /\ i = 1 BY ONLY <4>1, <4>2
        <4> QED BY <4>1, <4>3
      <3>2. q = <<e>> BY <1>2, <1>3, <3>1
      <3>3. received[w] = told[w] \o e
        <4>1. FlattenSeq(<<e>>) = e BY FlattenOne
        <4> QED BY <1>1, <2>1, <2>3, <3>2, <4>1
      <3>4. CASE e = <<>>
        <4>1. RemoveAt(q, i) = <<>> BY <3>1, <3>2 DEF RemoveAt
        <4>2. handlers'[w] = <<>> /\ told'[w] = told[w] BY <1>1, <1>2, <1>4, <3>4, <4>1
        <4>3. Len(handlers'[w]) = 0 BY <4>2
        <4>4. received[w] = told'[w] \o FlattenSeq(handlers'[w]) BY <3>3, <3>4, <4>2, FlattenEmpty
        <4> QED BY <2>3, <4>3, <4>4
      <3>5. CASE e # <<>>
        <4>1. Head(e) \in M /\ Tail(e) \in Seq(M) /\ e = <<Head(e)>> \o Tail(e) BY <3>5, HeadAndTail
        <4>2. PICK a, o, r : a = told[w] /\ o = <<Head(e)>> /\ r = Tail(e) OBVIOUS
        <4>3. a \in Seq(M) /\ o \in Seq(M) /\ r \in Seq(M) /\ e = o \o r BY <1>2, <4>1, <4>2
        <4>4. handlers'[w] = <<r>>
          <5>1. handlers'[w] = [q EXCEPT ![i] = Tail(q[i])] BY <1>1, <1>2, <1>4, <3>5
          <5> QED BY <1>3, <3>1, <3>2, <4>2, <5>1
        <4>8. PICK h \in M : h = Head(e) BY <4>1
        <4>5. told'[w] = a \o o
          <5>1. told'[w] = Append(a, h) BY <1>2, <1>4, <3>5, <4>2, <4>8
          <5>2. a \in Seq(M) /\ h \in M BY <4>3, <4>8
          <5>3. Append(a, h) = a \o <<h>> BY ONLY <5>2, AppendIsConcat
          <5> QED BY <4>2, <4>8, <5>1, <5>3
        <4>6. FlattenSeq(handlers'[w]) = r /\ Len(handlers'[w]) = 1
          <5>1. FlattenSeq(<<r>>) = r BY ONLY <4>3, FlattenOne
          <5> QED BY <4>4, <5>1
        <4>9. a \in Seq(M) /\ o \in Seq(M) /\ r \in Seq(M) BY <4>3
        <4>7. (a \o o) \o r = a \o (o \o r) BY ONLY <4>9, ConcatAssociative, SMTT(30)
        <4>10. received[w] = (a \o o) \o r BY <3>3, <4>2, <4>3, <4>7
        <4> QED BY <2>3, <4>5, <4>6, <4>10
      <3> QED BY <3>4, <3>5
    <2> QED BY <2>2, <2>3
  <1>15. InOrder' BY <1>9, <1>19 DEF InOrder
  <1>16. AllAreThere'
    <2> SUFFICES ASSUME NEW x \in Workers PROVE AllThere(x)' BY DEF AllAreThere
    <2>1. AllThere(x) BY DEF IInv, AllAreThere
    <2>2. OnTheWay(x)' = OnTheWay(x) /\ eventsPacks' = eventsPacks /\ emitted' = emitted BY <1>4 DEF OnTheWay
    <2>3. CASE x # w BY <1>7, <2>1, <2>2, <2>3 DEF AllThere
    <2>4. CASE x = w
      <3>1. Len(emitted'[w]) = Len(told'[w]) + Len(FlattenSeq(handlers'[w])) + Len(OnTheWay(w)') + Len(eventsPacks'[w])
        BY <1>6, <1>7, <2>1, <2>2, <2>4 DEF AllThere
      <3>2. Range(emitted'[w]) = Range(told'[w]) \cup Range(FlattenSeq(handlers'[w])) \cup Range(OnTheWay(w)')
                                   \cup Range(eventsPacks'[w])
        BY <1>6, <1>7, <2>1, <2>2, <2>4 DEF AllThere
      <3> QED BY <2>4, <3>1, <3>2 DEF AllThere
    <2> QED BY <2>3, <2>4
  <1>17. LastIsSo' BY <1>4 DEF IInv, LastIsSo, LastIs, Packs
  <1>18. FinishIsLast'
    <2>1. \A x \in Workers : Range(told'[x]) \cup Range(FlattenSeq(handlers'[x])) = Range(told[x]) \cup Range(FlattenSeq(handlers[x]))
      BY <1>6, <1>7
    <2>2. \A t \in Tests : WorkerOf[t] \in Workers BY OneWorkerEach
    <2> QED BY <1>4, <2>1, <2>2, ZenonT(60) DEF IInv, FinishIsLast, IsLast, Packs, Tells
  <1> QED BY <1>12, <1>14, <1>15, <1>16, <1>17, <1>18 DEF IInv

-----------------------------------------------------------------------------
(* Theorems                                                                *)

LEMMA InitInv == Init => IInv
  <1> SUFFICES ASSUME Init PROVE IInv OBVIOUS
  <1>1. \A w \in Workers : /\ emitted[w] = <<>> /\ told[w] = <<>> /\ eventsPacks[w] = <<>>
                           /\ channel[w] = <<>> /\ handlers[w] = <<>> /\ received[w] = <<>>
    BY DEF Init
  <1>2. DOMAIN emitted = Workers /\ DOMAIN told = Workers /\ DOMAIN eventsPacks = Workers
        /\ DOMAIN channel = Workers /\ DOMAIN handlers = Workers
        /\ DOMAIN received = Workers /\ DOMAIN alone = Workers
    BY DEF Init
  <1>3. \A S : <<>> \in Seq(S) OBVIOUS
  <1>4. Range(<<>>) = {} /\ Len(<<>>) = 0 /\ DOMAIN <<>> = {} BY DEF Range
  <1>5. \A w \in Workers : OnTheWay(w) = <<>> /\ FlattenSeq(handlers[w]) = <<>>
    BY <1>1, EventsInEmpty, FlattenEmpty DEF OnTheWay, EventsIn
  <1>6. Sequences BY <1>1, <1>2, <1>3 DEF Sequences
  <1>7. TypeOK
    <2>1. result \in [Tasks -> States] /\ tasks \in [Tasks -> States] BY DEF Init, States
    <2>2. place \in [Tasks -> {"queued", "running", "asking", "finished", "flushing", "done"}] BY DEF Init
    <2>3. DOMAIN tries = Tests /\ \A t \in Tests : tries[t] \in 0..Retries[t]
      <3>1. Retries \in [Tests -> Nat] BY UpdatesAssumption
      <3> QED BY <3>1 DEF Init
    <2>4. failures \in [Tests -> 0..(1 + Cardinality(Tasks))]
      <3>1. IsFiniteSet(Files)
        <4>1. Workers # {} => Files = {FileOf[w] : w \in Workers} BY DEF Files
        <4>2. PICK F : F = [w \in Workers |-> FileOf[w]] OBVIOUS
        <4>3. F \in Surjection(Workers, Files) BY <4>2 DEF Files, Surjection
        <4> QED BY <4>3, FS_Surjection, UpdatesAssumption
      <3>2. IsFiniteSet(Tasks) BY <3>1, FS_Union, UpdatesAssumption DEF Tasks
      <3>3. Cardinality(Tasks) \in Nat BY <3>2, FS_CardinalityType
      <3>4. 0 \in 0..(1 + Cardinality(Tasks)) BY <3>3
      <3> QED BY <3>4 DEF Init
    <2>5. recent \in [Workers -> BOOLEAN] /\ pendingCall \in [Workers -> BOOLEAN]
          /\ cancelRun \in [Workers -> BOOLEAN] /\ cancelled \in BOOLEAN
      BY DEF Init
    <2>6. \A w \in Workers : Range(emitted[w]) \subseteq Events BY <1>1, <1>4
    <2>7. \A w \in Workers : eventsPacks[w] # <<>> => pendingCall[w] BY <1>1
    <2> QED BY <2>1, <2>2, <2>3, <2>4, <2>5, <2>6, <2>7 DEF TypeOK
  <1>8. Places
    <2>1. \A x \in Tasks : place[x] = "queued" BY DEF Init
    <2>2. (\A t \in Tests : t \in Tasks) /\ \A w \in Workers : FileOf[w] \in Tasks BY DEF Tasks, Files
    <2> QED BY <2>1, <2>2 DEF Places
  <1>9. InOrder
    <2>1. <<>> \in Seq({}) BY <1>3
    <2>2. <<>> \o <<>> = <<>> BY <2>1, ConcatEmptySeq
    <2>3. EventsReceived BY <1>1, <1>5, <2>2 DEF EventsReceived
    <2>6. 0 <= 1 OBVIOUS
    <2>4. \A w \in Workers : Len(handlers[w]) <= 1 /\ received[w] = told[w] \o FlattenSeq(handlers[w])
      BY <1>1, <1>4, <1>5, <2>2, <2>6
    <2>5. ToldInOrder BY <2>4, Zenon DEF ToldInOrder
    <2> QED BY <2>3, <2>5 DEF InOrder
  <1>10. AllAreThere
    <2>1. 0 = 0 + 0 + 0 + 0 /\ {} = {} \cup {} \cup {} \cup {} OBVIOUS
    <2> QED BY <1>1, <1>4, <1>5, <2>1 DEF AllAreThere, AllThere
  <1>11. LastIsSo
    <2>1. \A w \in Workers : TasksOfWorker(w) \subseteq Tasks BY OneWorkerEach
    <2>2. \A x \in Tasks : tasks[x] = result[x] BY DEF Init
    <2> QED BY <1>1, <1>4, <2>1, <2>2 DEF LastIsSo, LastIs
  <1>12. FinishIsLast
    <2>1. \A t \in Tests : WorkerOf[t] \in Workers BY OneWorkerEach
    <2> QED BY <1>1, <1>4, <1>5, <2>1 DEF FinishIsLast
  <1> QED BY <1>6, <1>7, <1>8, <1>9, <1>10, <1>11, <1>12 DEF IInv, Typed

LEMMA StaysInv ==
  ASSUME IInv, UNCHANGED vars PROVE IInv'
  <1>1. UNCHANGED <<result, place, tries, eventsPacks, recent, pendingCall, channel, emitted,
                    handlers, tasks, received, told, alone, failures, cancelRun, cancelled>>
    BY DEF vars, tests, throttle, server
  <1>2. Sequences' BY <1>1 DEF IInv, Typed, Sequences
  <1>3. TypeOK' BY <1>1 DEF IInv, Typed, TypeOK
  <1>4. Places' BY <1>1 DEF IInv, Places
  <1>5. InOrder' BY <1>1 DEF IInv, InOrder, EventsReceived, ToldInOrder, OnTheWay
  <1>6. AllAreThere' BY <1>1 DEF IInv, AllAreThere, AllThere, OnTheWay
  <1>7. LastIsSo' BY <1>1 DEF IInv, LastIsSo, LastIs, Packs
  <1>8. FinishIsLast' BY <1>1, SMTT(30) DEF IInv, FinishIsLast, IsLast, Packs, Tells
  <1> QED BY <1>2, <1>3, <1>4, <1>5, <1>6, <1>7, <1>8 DEF IInv, Typed

LEMMA NextInv == IInv /\ [Next]_vars => IInv'
  <1> SUFFICES ASSUME IInv, [Next]_vars PROVE IInv' OBVIOUS
  <1>1. ASSUME NEW w \in Workers,
               TimePasses(w) \/ TimerFires(w) \/ FileStarts(w) \/ CancelArrives(w) \/ FileFinishes(w)
        PROVE  IInv'
    BY <1>1, TimePassesInv, TimerFiresInv, FileStartsInv, CancelArrivesInv, FileFinishesInv
  <1>2. ASSUME NEW w \in Workers, Flush(w) \/ FlushReturns(w) \/ ReceiveUpdate(w) \/ ReceiveAsk(w) PROVE IInv'
    BY <1>2, FlushInv, FlushReturnsInv, ReceiveUpdateInv, ReceiveAskInv
  <1>3. ASSUME NEW w \in Workers, NEW i \in DOMAIN handlers[w], Report(w, i) PROVE IInv'
    BY <1>3, ReportInv
  <1>4. ASSUME NEW t \in Tests, Prepare(t) \/ Retried(t) \/ Fails(t) \/ Decides(t) PROVE IInv'
    BY <1>4, PrepareInv, RetriedInv, FailsInv, DecidesInv
  <1>5. ASSUME NEW t \in Tests, NEW state \in {"pass", "skip"}, Ends(t, state) PROVE IInv'
    BY <1>5, EndsInv
  <1>6. CASE Done \/ UNCHANGED vars BY <1>6, StaysInv DEF Done
  <1> QED BY <1>1, <1>2, <1>3, <1>4, <1>5, <1>6 DEF Next, Delivers

\* The invariant holds of every state that a run of workers and reporters comes to.
THEOREM UpdatesInv == Spec => []IInv
  BY InitInv, NextInv, PTL DEF Spec

\* Every variable keeps a value of its kind, and while events wait to be sent the timer of the
\* throttle is set (run.ts 499-522).
THEOREM UpdatesTypeOK == Spec => []TypeOK
  <1>1. IInv => TypeOK BY DEF IInv, Typed
  <1> QED BY <1>1, UpdatesInv, PTL

\* However many workers there are and whatever the throttle merges, every event of a worker
\* reaches the main process once and in the order of the worker, and reporters are told them in
\* this order as long as no message comes while another is being reported (test-run.ts 127).
THEOREM UpdatesInOrder == Spec => []EventsInOrder
  <1>1. IInv => EventsInOrder BY DEF IInv, InOrder, EventsReceived, ToldInOrder, EventsInOrder
  <1> QED BY <1>1, UpdatesInv, PTL

LEMMA InvKnown == IInv => ResultsAreKnown
  <1> SUFFICES ASSUME IInv PROVE ResultsAreKnown OBVIOUS
  <1>1. \A t \in Tests : <<t, "test-finished">> \in Range(told[WorkerOf[t]]) =>
          place[t] = "done" /\ tasks[t] = result[t]
    BY DEF IInv, FinishIsLast, Finish
  <1>2. ASSUME NEW w \in Workers, place[FileOf[w]] = "done"
        PROVE  /\ \A t \in TestsOf(w) \cup {FileOf[w]} : tasks[t] = result[t]
               /\ Len(told[w]) = Len(emitted[w]) /\ Range(told[w]) = Range(emitted[w])
    <2>1. eventsPacks[w] = <<>> /\ channel[w] = <<>> /\ handlers[w] = <<>> BY <1>2 DEF IInv, Places
    <2>2. OnTheWay(w) = <<>> /\ FlattenSeq(handlers[w]) = <<>>
      BY <2>1, EventsInEmpty, FlattenEmpty DEF OnTheWay, EventsIn
    <2>3. Range(<<>>) = {} /\ Len(<<>>) = 0 /\ DOMAIN <<>> = {} BY DEF Range
    <2>4. Len(told[w]) \in Nat
      <3>1. told[w] \in Seq(OwnEvents(w)) BY DEF IInv, Typed, Sequences
      <3> QED BY <3>1
    <2>5. AllThere(w) BY DEF IInv, AllAreThere
    <2>6. Len(emitted[w]) = Len(told[w]) + 0 + 0 + 0 BY <2>1, <2>2, <2>3, <2>5 DEF AllThere
    <2>7. Range(emitted[w]) = Range(told[w]) BY <2>1, <2>2, <2>3, <2>5 DEF AllThere
    <2>8. ASSUME NEW t \in TasksOfWorker(w) PROVE tasks[t] = result[t]
      <3>1. t \notin TasksOf(eventsPacks[w]) BY <2>1, <2>3 DEF TasksOf
      <3>2. LastIs(w, t, result[t]) BY <3>1 DEF IInv, LastIsSo
      <3> QED BY <2>1, <2>3, <3>2 DEF LastIs
    <2> QED BY <2>4, <2>6, <2>7, <2>8 DEF TasksOfWorker
  <1> QED BY <1>1, <1>2 DEF ResultsAreKnown

\* The main process knows the last result of a test whose end a reporter is told, and of all the
\* tests of a file, all of whose events are told by then, when the worker says that it is done
\* (finishSendTasksUpdate, run.ts 488-497).
THEOREM UpdatesResultsAreKnown == Spec => []ResultsAreKnown
  BY InvKnown, UpdatesInv, PTL
=============================================================================
