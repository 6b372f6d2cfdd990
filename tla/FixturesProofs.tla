---------------------------- MODULE FixturesProofs ----------------------------
(***************************************************************************)
(* That a context has one instance of a fixture, unless calls time out,    *)
(* and that what a call or a fixture uses is set up before it and torn     *)
(* down after it, unless hooks run in parallel either.                     *)
(*                                                                         *)
(* First the order in which fixtures are resolved: every fixture comes     *)
(* after those it depends on.  Then where calls, instances and clean-ups   *)
(* are in every stage of a test (IInv), from which the first property      *)
(* follows, and what is ready for whom (RInv), from which the second does. *)
(***************************************************************************)
EXTENDS Fixtures, SequenceTheorems, FiniteSetTheorems, WellFoundedInduction, TLAPS

\* A set of numbers that is not empty has a least one.
LEMMA Least ==
  ASSUME NEW B \in SUBSET Nat, B # {}
  PROVE  \E n \in B : \A m \in B : n <= m
  <1> DEFINE R == OpToRel(<, Nat)
  <1>1. PICK n \in B : \A m \in B : ~(<<m, n>> \in R)
    BY NatLessThanWellFounded, WFMin
  <1>2. \A m \in B : ~(m < n) BY <1>1 DEF OpToRel
  <1> QED BY <1>2

\* f runs through the prefixes of q, each the one before and one sequence more.
Joins(f, q, n) == f = [i \in 1..n |-> IF i = 1 THEN q[i] ELSE f[i - 1] \o q[i]]

LEMMA JoinsAt ==
  ASSUME NEW f, NEW q, NEW n \in Nat, Joins(f, q, n), NEW i \in 1..n
  PROVE  f[i] = IF i = 1 THEN q[i] ELSE f[i - 1] \o q[i]
  <1> DEFINE e(j) == IF j = 1 THEN q[j] ELSE f[j - 1] \o q[j]
  <1>1. f = [j \in 1..n |-> e(j)] BY DEF Joins
  <1> HIDE DEF e
  <1>2. f[i] = e(i) BY <1>1
  <1> QED BY <1>2 DEF e

\* There is one such function.
LEMMA JoinsExists ==
  ASSUME NEW q, NEW n \in Nat PROVE \E f : Joins(f, q, n)
  <1> DEFINE B == {k \in Nat : ~\E f : Joins(f, q, k)}
  <1> SUFFICES ASSUME B # {} PROVE FALSE OBVIOUS
  <1>1. PICK k \in B : \A m \in B : k <= m BY Least
  <1>2. CASE k = 0
    <2>1. Joins([i \in 1..0 |-> q[i]], q, 0) BY DEF Joins
    <2> QED BY <1>2, <2>1
  <1>3. CASE k # 0
    <2>1. k - 1 \in Nat /\ k - 1 \notin B BY <1>1, <1>3
    <2>2. PICK f : Joins(f, q, k - 1) BY <2>1
    <2> DEFINE g == [i \in 1..k |-> IF i < k THEN f[i] ELSE IF i = 1 THEN q[i] ELSE f[i - 1] \o q[i]]
    <2>3. \A i \in 1..k : g[i] = IF i = 1 THEN q[i] ELSE g[i - 1] \o q[i]
      <3> TAKE i \in 1..k
      <3>1. CASE i < k
        <4>1. f[i] = IF i = 1 THEN q[i] ELSE f[i - 1] \o q[i] BY <2>1, <2>2, <3>1, JoinsAt
        <4> QED BY <3>1, <4>1
      <3>2. CASE i = k
        <4>1. i # 1 => g[i - 1] = f[i - 1] BY <3>2
        <4> QED BY <3>2, <4>1
      <3> QED BY <3>1, <3>2
    <2>4. g = [i \in 1..k |-> g[i]] OBVIOUS
    <2>5. Joins(g, q, k) BY <2>3, <2>4 DEF Joins
    <2> QED BY <2>5
  <1> QED BY <1>2, <1>3

-----------------------------------------------------------------------------
\* A sequence of fixtures in which each comes after those it depends on.
DepsFirst(s) ==
  /\ s \in Seq(Fixtures)
  /\ \A n \in DOMAIN s : \A d \in ToSet(Deps[s[n]]) : \E m \in DOMAIN s : m < n /\ s[m] = d

\* Two such sequences after each other are one, and have the elements of both.
LEMMA ConcatDepsFirst ==
  ASSUME NEW a, NEW b, DepsFirst(a), DepsFirst(b)
  PROVE  DepsFirst(a \o b) /\ ToSet(a) \subseteq ToSet(a \o b) /\ ToSet(b) \subseteq ToSet(a \o b)
  <1>0. a \in Seq(Fixtures) /\ b \in Seq(Fixtures) BY DEF DepsFirst
  <1>1. PICK p, q \in Nat : p = Len(a) /\ q = Len(b) /\ DOMAIN a = 1..p /\ DOMAIN b = 1..q BY <1>0
  <1>8. a \o b \in Seq(Fixtures) BY <1>0, ConcatProperties
  <1>2. PICK s \in Seq(Fixtures) : s = a \o b BY <1>8
  <1>3. /\ DOMAIN s = 1..(p + q) /\ \A n \in 1..p : s[n] = a[n]
        /\ \A n \in 1..q : s[p + n] = b[n] /\ p + n \in 1..(p + q)
    BY <1>0, <1>1, <1>2
  <1>4. ASSUME NEW n \in DOMAIN s, NEW d \in ToSet(Deps[s[n]]) PROVE \E m \in DOMAIN s : m < n /\ s[m] = d
    <2>1. CASE n \in 1..p
      <3>0. d \in ToSet(Deps[a[n]]) /\ n \in DOMAIN a BY <1>1, <1>3, <2>1
      <3>1. PICK m \in 1..p : m < n /\ a[m] = d BY <1>1, <3>0 DEF DepsFirst
      <3>2. m \in DOMAIN s /\ s[m] = d BY <1>3, <3>1
      <3> QED BY <3>1, <3>2
    <2>2. CASE n \notin 1..p
      <3>1. PICK k \in 1..q : n = p + k BY <1>3, <2>2
      <3>2. s[n] = b[k] BY <1>3, <3>1
      <3>5. d \in ToSet(Deps[b[k]]) /\ k \in DOMAIN b BY <1>1, <3>2
      <3>3. PICK m \in 1..q : m < k /\ b[m] = d BY <1>1, <3>5 DEF DepsFirst
      <3>4. p + m \in DOMAIN s /\ s[p + m] = d /\ p + m < n BY <1>3, <3>1, <3>3
      <3> QED BY <3>4
    <2> QED BY <2>1, <2>2
  <1>5. DepsFirst(s) BY <1>4 DEF DepsFirst
  <1>6. \A f \in ToSet(a) : f \in ToSet(s)
    <2> TAKE f \in ToSet(a)
    <2>1. PICK n \in 1..p : a[n] = f BY <1>1 DEF ToSet
    <2> QED BY <1>3, <2>1 DEF ToSet
  <1>7. \A f \in ToSet(b) : f \in ToSet(s)
    <2> TAKE f \in ToSet(b)
    <2>1. PICK n \in 1..q : b[n] = f BY <1>1 DEF ToSet
    <2>2. p + n \in DOMAIN s /\ s[p + n] = f BY <1>3, <2>1
    <2> QED BY <2>2 DEF ToSet
  <1> QED BY <1>2, <1>5, <1>6, <1>7

\* A fixture may come after what it depends on.
LEMMA AppendDepsFirst ==
  ASSUME NEW a, NEW f \in Fixtures, DepsFirst(a), ToSet(Deps[f]) \subseteq ToSet(a)
  PROVE  DepsFirst(Append(a, f)) /\ f \in ToSet(Append(a, f))
  <1>0. a \in Seq(Fixtures) BY DEF DepsFirst
  <1>1. PICK p \in Nat : p = Len(a) /\ DOMAIN a = 1..p BY <1>0
  <1>8. Append(a, f) \in Seq(Fixtures) BY <1>0
  <1>2. PICK s \in Seq(Fixtures) : s = Append(a, f) BY <1>8
  <1>3. DOMAIN s = 1..(p + 1) /\ (\A n \in 1..p : s[n] = a[n]) /\ s[p + 1] = f /\ p + 1 \in 1..(p + 1)
    BY <1>0, <1>1, <1>2
  <1>4. ASSUME NEW n \in DOMAIN s, NEW d \in ToSet(Deps[s[n]]) PROVE \E m \in DOMAIN s : m < n /\ s[m] = d
    <2>1. CASE n \in 1..p
      <3>0. d \in ToSet(Deps[a[n]]) /\ n \in DOMAIN a BY <1>1, <1>3, <2>1
      <3>1. PICK m \in 1..p : m < n /\ a[m] = d BY <1>1, <3>0 DEF DepsFirst
      <3>2. m \in DOMAIN s /\ s[m] = d BY <1>3, <3>1
      <3> QED BY <3>1, <3>2
    <2>2. CASE n = p + 1
      <3>1. d \in ToSet(a) BY <1>3, <1>4, <2>2
      <3>2. PICK m \in 1..p : a[m] = d BY <1>1, <3>1 DEF ToSet
      <3>3. m \in DOMAIN s /\ m < n /\ s[m] = d BY <1>3, <2>2, <3>2
      <3> QED BY <3>3
    <2> QED BY <1>3, <2>1, <2>2
  <1>5. DepsFirst(s) BY <1>4 DEF DepsFirst
  <1>6. f \in ToSet(s) BY <1>3 DEF ToSet
  <1> QED BY <1>2, <1>5, <1>6

\* Any number of them.
LEMMA FlattenDepsFirst ==
  ASSUME NEW q, NEW n \in Nat, DOMAIN q = 1..n, q = [k \in 1..n |-> q[k]], \A k \in 1..n : DepsFirst(q[k])
  PROVE  DepsFirst(FlattenSeq(q)) /\ \A k \in 1..n : ToSet(q[k]) \subseteq ToSet(FlattenSeq(q))
  <1>0. q \in Seq(Seq(Fixtures)) /\ Len(q) = n BY DEF DepsFirst
  <1>1. CASE n = 0
    <2>1. q = <<>> BY <1>0, <1>1
    <2>2. FlattenSeq(q) = <<>> BY <2>1 DEF FlattenSeq
    <2>3. DepsFirst(<<>>) BY DEF DepsFirst
    <2> QED BY <1>1, <2>2, <2>3
  <1>2. CASE n # 0
    <2> DEFINE g == CHOOSE g : Joins(g, q, n)
    <2>1. Joins(g, q, n) BY JoinsExists
    <2>2. FlattenSeq(q) = g[n] BY <1>0, <1>2 DEF FlattenSeq, Joins
    <2> HIDE DEF g
    <2> DEFINE Fine(k) == DepsFirst(g[k]) /\ \A m \in 1..k : ToSet(q[m]) \subseteq ToSet(g[k])
               B == {k \in 1..n : ~Fine(k)}
    <2>3. ASSUME B # {} PROVE FALSE
      <3>0. B \in SUBSET Nat OBVIOUS
      <3>1. PICK k \in B : \A j \in B : k <= j BY <2>3, <3>0, Least
      <3>2. k \in 1..n /\ ~Fine(k) OBVIOUS
      <3>3. g[k] = IF k = 1 THEN q[k] ELSE g[k - 1] \o q[k] BY <2>1, <3>2, JoinsAt
      <3>4. CASE k = 1 BY <3>2, <3>3, <3>4
      <3>5. CASE k # 1
        <4>1. k - 1 \in 1..n /\ k - 1 \notin B BY <3>1, <3>2, <3>5
        <4>2. DepsFirst(g[k - 1]) /\ \A m \in 1..(k - 1) : ToSet(q[m]) \subseteq ToSet(g[k - 1]) BY <4>1
        <4>3. DepsFirst(q[k]) BY <3>2
        <4>4. g[k] = g[k - 1] \o q[k] BY <3>3, <3>5
        <4>5. /\ DepsFirst(g[k]) /\ ToSet(g[k - 1]) \subseteq ToSet(g[k]) /\ ToSet(q[k]) \subseteq ToSet(g[k])
          BY ONLY <4>2, <4>3, <4>4, ConcatDepsFirst
        <4>6. \A m \in 1..k : m \in 1..(k - 1) \/ m = k BY <3>2
        <4>7. \A m \in 1..k : ToSet(q[m]) \subseteq ToSet(g[k]) BY <4>2, <4>5, <4>6
        <4> QED BY <3>2, <4>5, <4>7
      <3> QED BY <3>4, <3>5
    <2>4. Fine(n) BY <1>2, <2>3
    <2> QED BY <2>2, <2>4
  <1> QED BY <1>1, <1>2

\* What Order computes: as dependencies end, some function satisfies its equation.
AllOf(g, s) == FlattenSeq([n \in DOMAIN s |-> g[s[n]]])

LEMMA OrderIs == \A f \in Fixtures : Order[f] = Append(AllOf(Order, Deps[f]), f)
  <1>1. PICK rank \in [Fixtures -> 1..Cardinality(Fixtures)] :
               \A f \in Fixtures : \A d \in ToSet(Deps[f]) : rank[d] < rank[f]
    BY DepsAssumption
  <1>2. PICK N \in Nat : N = Cardinality(Fixtures) BY DepsAssumption, FS_CardinalityType
  <1>3. \A f \in Fixtures : rank[f] \in Nat /\ rank[f] <= N BY <1>1, <1>2
  <1>4. \A f \in Fixtures : Deps[f] \in Seq(Fixtures) BY DepsAssumption
  <1> DEFINE Solves(g, n) == \A f \in Fixtures : rank[f] < n => g[f] = Append(AllOf(g, Deps[f]), f)
             B == {n \in Nat : ~\E g : Solves(g, n)}
  <1>5. ASSUME B # {} PROVE FALSE
    <2>0. B \in SUBSET Nat OBVIOUS
    <2>1. PICK n \in B : \A m \in B : n <= m BY <1>5, <2>0, Least
    <2>2. CASE n = 0
      <3>1. Solves([f \in Fixtures |-> f], 0) BY <1>3
      <3> QED BY <2>2, <3>1
    <2>3. CASE n # 0
      <3>1. n - 1 \in Nat /\ n - 1 \notin B BY <2>1, <2>3
      <3>2. PICK g : Solves(g, n - 1) BY <3>1
      <3> DEFINE h == [f \in Fixtures |-> Append(AllOf(g, Deps[f]), f)]
      <3>3. ASSUME NEW f \in Fixtures, rank[f] < n PROVE h[f] = Append(AllOf(h, Deps[f]), f)
        <4>1. \A k \in DOMAIN Deps[f] : h[Deps[f][k]] = g[Deps[f][k]]
          <5> TAKE k \in DOMAIN Deps[f]
          <5>1. Deps[f][k] \in Fixtures /\ Deps[f][k] \in ToSet(Deps[f]) BY <1>4 DEF ToSet
          <5>2. rank[Deps[f][k]] < n - 1 BY <1>1, <1>3, <3>3, <5>1
          <5> QED BY <3>2, <5>1, <5>2
        <4>2. AllOf(h, Deps[f]) = AllOf(g, Deps[f]) BY <4>1, Zenon DEF AllOf
        <4> QED BY <4>2
      <3>4. Solves(h, n) BY <3>3
      <3> QED BY <3>4
    <2> QED BY <2>2, <2>3
  <1>6. N + 1 \in Nat BY <1>2
  <1>7. PICK g : Solves(g, N + 1) BY <1>5, <1>6
  <1> DEFINE h == [f \in Fixtures |-> Append(AllOf(g, Deps[f]), f)]
  <1>8. \A f \in Fixtures : h[f] = g[f] BY <1>2, <1>3, <1>7
  <1>9. ASSUME NEW f \in Fixtures PROVE AllOf(h, Deps[f]) = AllOf(g, Deps[f])
    <2>0. \A k \in DOMAIN Deps[f] : Deps[f][k] \in Fixtures BY <1>4
    <2> HIDE DEF h
    <2>1. \A k \in DOMAIN Deps[f] : h[Deps[f][k]] = g[Deps[f][k]] BY <1>8, <2>0
    <2> QED BY <2>1, Zenon DEF AllOf
  <1> DEFINE Eq(o) == o = [f \in Fixtures |-> Append(AllOf(o, Deps[f]), f)]
  <1>10. h = [f \in Fixtures |-> Append(AllOf(h, Deps[f]), f)]
    <2>1. \A f \in Fixtures : Append(AllOf(g, Deps[f]), f) = Append(AllOf(h, Deps[f]), f) BY <1>9
    <2> QED BY <2>1, Zenon
  <1>11. Order = CHOOSE o : Eq(o) BY DEF Order, AllOf
  <1> HIDE DEF h
  <1>12. Eq(h) BY <1>10
  <1> HIDE DEF Eq
  <1>13. Eq(Order) BY <1>11, <1>12
  <1> QED BY <1>13 DEF Eq

\* In it a fixture comes after those it depends on.
LEMMA OrderDepsFirst == \A f \in Fixtures : DepsFirst(Order[f]) /\ f \in ToSet(Order[f])
  <1>1. PICK rank \in [Fixtures -> 1..Cardinality(Fixtures)] :
               \A f \in Fixtures : \A d \in ToSet(Deps[f]) : rank[d] < rank[f]
    BY DepsAssumption
  <1>2. PICK N \in Nat : N = Cardinality(Fixtures) BY DepsAssumption, FS_CardinalityType
  <1>3. \A f \in Fixtures : rank[f] \in Nat BY <1>1, <1>2
  <1> DEFINE Fine(f) == DepsFirst(Order[f]) /\ f \in ToSet(Order[f])
             B == {rank[f] : f \in {e \in Fixtures : ~Fine(e)}}
  <1> SUFFICES ASSUME B # {} PROVE FALSE OBVIOUS
  <1>4. B \in SUBSET Nat BY <1>3
  <1>5. PICK n \in B : \A m \in B : n <= m BY <1>4, Least
  <1>6. PICK f \in Fixtures : ~Fine(f) /\ n = rank[f] BY <1>5
  <1>7. PICK k \in Nat : Len(Deps[f]) = k /\ DOMAIN Deps[f] = 1..k /\ Deps[f] \in Seq(Fixtures) BY DepsAssumption
  <1>8. \A d \in ToSet(Deps[f]) : Fine(d)
    <2> TAKE d \in ToSet(Deps[f])
    <2>1. d \in Fixtures BY <1>7 DEF ToSet
    <2>2. rank[d] < rank[f] BY <1>1
    <2>3. rank[d] \notin B BY <1>3, <1>5, <1>6, <2>1, <2>2
    <2> QED BY <2>1, <2>3
  <1> DEFINE q == [m \in 1..k |-> Order[Deps[f][m]]]
  <1>9. \A m \in 1..k : Deps[f][m] \in ToSet(Deps[f]) BY <1>7 DEF ToSet
  <1> HIDE DEF Fine
  <1>10. \A m \in 1..k : q[m] = Order[Deps[f][m]] /\ Fine(Deps[f][m]) BY <1>8, <1>9
  <1>11. \A m \in 1..k : DepsFirst(q[m]) /\ Deps[f][m] \in ToSet(q[m]) BY <1>10 DEF Fine
  <1>12. DOMAIN q = 1..k /\ q = [m \in 1..k |-> q[m]] OBVIOUS
  <1>13. FlattenSeq(q) = AllOf(Order, Deps[f]) BY <1>7 DEF AllOf
  <1> HIDE DEF q
  <1>14. DepsFirst(FlattenSeq(q)) /\ \A m \in 1..k : ToSet(q[m]) \subseteq ToSet(FlattenSeq(q))
    BY <1>11, <1>12, FlattenDepsFirst
  <1>15. \A d \in ToSet(Deps[f]) : d \in ToSet(FlattenSeq(q))
    <2> TAKE d \in ToSet(Deps[f])
    <2>1. PICK m \in 1..k : Deps[f][m] = d BY <1>7 DEF ToSet
    <2> QED BY <1>11, <1>14, <2>1
  <1>16. ToSet(Deps[f]) \subseteq ToSet(FlattenSeq(q)) BY <1>15
  <1>17. Order[f] = Append(FlattenSeq(q), f) BY <1>13, OrderIs
  <1>18. Fine(f) BY <1>14, <1>16, <1>17, AppendDepsFirst DEF Fine
  <1> QED BY <1>6, <1>18

LEMMA Scopes == \A f \in Fixtures : f \in FileScoped <=> f \notin TestScoped
  BY FixturesAssumption DEF Fixtures

\* The calls and instances are tuples.
LEMMA CallFacts ==
  \A c \in Calls : /\ c[1] \in Tests /\ c[2] \in Nat /\ c[3] \in Roles(c[1])
                   /\ c[3] \in Before \cup {"around", "fn", "after"}
                   /\ \A f \in Fixtures : <<c, f>> \in Instances
  BY UsesAssumption DEF Calls, FixturesAssumption, Instances

LEMMA InstanceFacts ==
  \A i \in Instances : i = <<i[1], i[2]>> /\ i[1] \in Calls /\ i[1][1] \in Tests /\ i[2] \in Fixtures /\ OwnerOf(i) \in Owners
  <1> TAKE i \in Instances
  <1>1. i = <<i[1], i[2]>> /\ i[1] \in Calls /\ i[2] \in Fixtures BY DEF Instances
  <1> QED BY <1>1, CallFacts DEF OwnerOf, Owners

\* What a call asks for is in an order of that kind.
LEMMA PendingDepsFirst == \A c \in Calls : DepsFirst(Pending(c))
  <1> TAKE c \in Calls
  <1>1. c[1] \in Tests /\ c[3] \in Roles(c[1]) BY CallFacts
  <1>2. PICK s \in Seq(Fixtures) : s = Uses[c[1]][c[3]] BY <1>1, UsesAssumption
  <1>3. PICK k \in Nat : DOMAIN s = 1..k OBVIOUS
  <1> DEFINE q == [m \in 1..k |-> Order[s[m]]]
  <1>4. Pending(c) = FlattenSeq(q) BY <1>1, <1>2, <1>3 DEF Pending, Resolved
  <1>5. \A m \in 1..k : s[m] \in Fixtures BY <1>3
  <1>6. \A m \in 1..k : DepsFirst(q[m]) BY <1>5, OrderDepsFirst
  <1>7. DOMAIN q = 1..k /\ q = [m \in 1..k |-> q[m]] OBVIOUS
  <1> HIDE DEF q
  <1>8. DepsFirst(FlattenSeq(q)) BY <1>6, <1>7, FlattenDepsFirst
  <1> QED BY <1>4, <1>8

\* Where a fixture is first.
LEMMA PlaceIs ==
  ASSUME NEW c \in Calls, NEW f \in ToSet(Pending(c))
  PROVE  /\ Place(c, f) \in DOMAIN Pending(c) /\ Place(c, f) \in Nat /\ Place(c, f) > 0
         /\ Pending(c)[Place(c, f)] = f /\ f \in Fixtures
         /\ \A n \in DOMAIN Pending(c) : Pending(c)[n] = f => Place(c, f) <= n
  <1>1. PICK s \in Seq(Fixtures) : s = Pending(c) BY PendingDepsFirst DEF DepsFirst
  <1>2. PICK k \in Nat : DOMAIN s = 1..k OBVIOUS
  <1> DEFINE B == {n \in DOMAIN s : s[n] = f}
  <1>3. B # {} BY <1>1 DEF ToSet
  <1>4. B \in SUBSET Nat BY <1>2
  <1>5. PICK n \in B : \A m \in B : n <= m BY <1>3, <1>4, Least
  <1>6. Place(c, f) = CHOOSE x \in B : \A y \in B : x <= y BY <1>1 DEF Place, Min
  <1>7. Place(c, f) \in B /\ \A y \in B : Place(c, f) <= y BY <1>5, <1>6
  <1>8. s[Place(c, f)] \in Fixtures BY <1>7
  <1> QED BY <1>1, <1>2, <1>7, <1>8

\* Where a call goes on: at the first fixture to do, after what is done.
LEMMA TodoIs ==
  ASSUME NEW c \in Calls, NEW last \in Nat, Todo(c, last) # {}
  PROVE  \E n \in Todo(c, last) : /\ n = Min(Todo(c, last)) /\ \A m \in Todo(c, last) : n <= m
                                  /\ n \in DOMAIN Pending(c) /\ n \in Nat /\ Pending(c)[n] \in Fixtures
                                  /\ Pending(c)[n] \in ToSet(Pending(c)) /\ Pending(c)[n] \notin cached[c[1]]
                                  /\ n = Place(c, Pending(c)[n])
  <1>1. PICK s \in Seq(Fixtures) : s = Pending(c) BY PendingDepsFirst DEF DepsFirst
  <1>2. PICK k \in Nat : DOMAIN s = 1..k OBVIOUS
  <1> DEFINE B == Todo(c, last)
  <1>3. B \subseteq DOMAIN s BY <1>1 DEF Todo
  <1>4. B \in SUBSET Nat BY <1>2, <1>3
  <1>5. PICK n \in B : \A m \in B : n <= m BY <1>4, Least
  <1>6. Min(B) = CHOOSE x \in B : \A y \in B : x <= y BY DEF Min
  <1>7. Min(B) \in B /\ \A y \in B : Min(B) <= y BY <1>5, <1>6
  <1>8. PICK m \in B : m = Min(B) BY <1>7
  <1>9. m \in DOMAIN s /\ m \in Nat /\ s[m] \in Fixtures /\ s[m] \in ToSet(s) BY <1>2, <1>3, <1>8 DEF ToSet
  <1>10. Pending(c)[m] \notin cached[c[1]] /\ m = Place(c, Pending(c)[m]) BY <1>8 DEF Todo
  <1> QED BY <1>1, <1>7, <1>8, <1>9, <1>10

\* A fixture that is not to do is cached, or its first place is not after `last`.
LEMMA TodoLeaves ==
  ASSUME NEW c \in Calls, NEW last \in Nat, NEW f \in ToSet(Pending(c)), Place(c, f) \notin Todo(c, last)
  PROVE  f \in cached[c[1]] \/ Place(c, f) <= last
  <1>1. /\ Place(c, f) \in DOMAIN Pending(c) /\ Place(c, f) \in Nat /\ Pending(c)[Place(c, f)] = f BY PlaceIs
  <1> QED BY <1>1 DEF Todo

-----------------------------------------------------------------------------
Stages == {"waiting", "around", "before", "fn", "after", "inner", "aroundEnds", "outer", "over"}
Inside == {"before", "fn", "after"}
Active == Inside \cup {"around"}
Entries == ({"uncache"} \X TestScoped) \cup ({"teardown"} \X Instances)
Td(i) == <<"teardown", i>>
Un(f) == <<"uncache", f>>

\* The variables have values of their kind, what TypeOK leaves out as well.
Typed ==
  /\ TypeOK
  /\ stage \in [Owners -> Stages \cup {"tests", "cleaning"}]
  /\ stage[File] \in {"tests", "cleaning", "over"} /\ \A t \in Tests : stage[t] \in Stages
  /\ attempt \in [Tests -> Nat]
  /\ cleanups \in [Owners -> Seq(Entries)] /\ cleaning \in [Owners -> Seq(Entries)]

AwaitsPending == \A c \in Calls : at[c] \in Fixtures => at[c] \in ToSet(Pending(c))

TypedInv == Typed /\ AwaitsPending

\* What the head of a list of clean-ups is.
LEMMA HeadFacts ==
  ASSUME Typed, NEW o \in Owners, cleaning[o] # <<>>
  PROVE  /\ Head(cleaning[o]) \in Entries /\ Tail(cleaning[o]) \in Seq(Entries)
         /\ Head(cleaning[o])[1] = "uncache" => /\ Head(cleaning[o])[2] \in TestScoped
                                                /\ Head(cleaning[o]) = Un(Head(cleaning[o])[2])
         /\ Head(cleaning[o])[1] = "teardown" => /\ Head(cleaning[o])[2] \in Instances
                                                 /\ Head(cleaning[o]) = Td(Head(cleaning[o])[2])
  <1>1. cleaning[o] \in Seq(Entries) BY DEF Typed
  <1>2. Head(cleaning[o]) \in Entries /\ Tail(cleaning[o]) \in Seq(Entries) BY <1>1
  <1>3. PICK e \in Entries : e = Head(cleaning[o]) BY <1>2
  <1>4. /\ e[1] = "uncache" => e[2] \in TestScoped /\ e = Un(e[2])
        /\ e[1] = "teardown" => e[2] \in Instances /\ e = Td(e[2])
    BY DEF Entries, Un, Td
  <1> QED BY <1>2, <1>3, <1>4

-----------------------------------------------------------------------------
\* The four ways in which a call goes on, f being the next fixture.
NextIs(c, last, f) ==
  /\ f \in ToSet(Pending(c)) /\ f \in Fixtures /\ f \notin cached[c[1]]
  /\ Place(c, f) \in Todo(c, last) /\ \A m \in Todo(c, last) : Place(c, f) <= m
  /\ at' = [at EXCEPT ![c] = f]

Runs(c, last) == /\ Todo(c, last) = {} /\ at' = [at EXCEPT ![c] = "running"]
                 /\ cached' = cached /\ promise' = promise /\ instance' = instance
SetsUp(c, last, f) == /\ NextIs(c, last, f) /\ f \in TestScoped /\ promise' = promise
                      /\ cached' = [cached EXCEPT ![c[1]] = @ \cup {f}]
                      /\ instance' = [instance EXCEPT ![<<c, f>>] = "setup"]
SetsUpForFile(c, last, f) == /\ NextIs(c, last, f) /\ f \in FileScoped /\ MustBeCalled(f) /\ cached' = cached
                             /\ promise' = [promise EXCEPT ![f] = <<c, f>>]
                             /\ instance' = [instance EXCEPT ![<<c, f>>] = "setup"]
WaitsFor(c, last, f) == /\ NextIs(c, last, f) /\ f \in FileScoped /\ ~MustBeCalled(f)
                        /\ cached' = cached /\ promise' = promise /\ instance' = instance

LEMMA GoesOnHow ==
  ASSUME NEW c \in Calls, NEW last \in Nat, GoesOn(c, last)
  PROVE  \/ Runs(c, last)
         \/ \E f \in Fixtures : SetsUp(c, last, f) \/ SetsUpForFile(c, last, f) \/ WaitsFor(c, last, f)
  <1>1. CASE Todo(c, last) = {} BY <1>1 DEF GoesOn, Runs
  <1>2. CASE Todo(c, last) # {}
    <2>1. PICK n \in Todo(c, last) :
            /\ n = Min(Todo(c, last)) /\ \A m \in Todo(c, last) : n <= m
            /\ n \in DOMAIN Pending(c) /\ n \in Nat /\ Pending(c)[n] \in Fixtures
            /\ Pending(c)[n] \in ToSet(Pending(c)) /\ Pending(c)[n] \notin cached[c[1]]
            /\ n = Place(c, Pending(c)[n])
      BY <1>2, TodoIs
    <2>2. PICK f \in Fixtures : f = Pending(c)[n] BY <2>1
    <2>3. n = Place(c, f) BY <2>1, <2>2
    <2> DEFINE starts == f \in TestScoped \/ MustBeCalled(f)
    <2>4. /\ at' = [at EXCEPT ![c] = f]
          /\ instance' = IF starts THEN [instance EXCEPT ![<<c, f>>] = "setup"] ELSE instance
          /\ cached' = IF f \in TestScoped THEN [cached EXCEPT ![c[1]] = @ \cup {f}] ELSE cached
          /\ promise' = IF starts /\ f \in FileScoped THEN [promise EXCEPT ![f] = <<c, f>>] ELSE promise
      BY <1>2, <2>1, <2>2 DEF GoesOn
    <2>5. NextIs(c, last, f) BY <2>1, <2>2, <2>3, <2>4 DEF NextIs
    <2>6. (f \in TestScoped /\ f \notin FileScoped) \/ (f \in FileScoped /\ f \notin TestScoped)
      BY FixturesAssumption DEF Fixtures
    <2>7. CASE f \in TestScoped BY <2>4, <2>5, <2>6, <2>7 DEF SetsUp
    <2>8. CASE f \in FileScoped /\ MustBeCalled(f) BY <2>4, <2>5, <2>6, <2>8 DEF SetsUpForFile
    <2>9. CASE f \in FileScoped /\ ~MustBeCalled(f) BY <2>4, <2>5, <2>6, <2>9 DEF WaitsFor
    <2> QED BY <2>6, <2>7, <2>8, <2>9
  <1> QED BY <1>1, <1>2

\* Where a call goes on after a fixture is after it.
LEMMA PlaceOfAwaited ==
  ASSUME TypedInv, NEW c \in Calls, at[c] \in Fixtures
  PROVE  Place(c, at[c]) \in Nat
  BY PlaceIs DEF TypedInv, AwaitsPending

CallTyped ==
  /\ AwaitsPending /\ at \in [Calls -> Fixtures \cup {"none", "running", "over"}]
  /\ instance \in [Instances -> {"none", "setup", "inUse", "tearing", "over"}]
  /\ cached \in [Tests -> SUBSET TestScoped] /\ promise \in [FileScoped -> Instances \cup {None}]

LEMMA GoesOnTyped ==
  ASSUME TypedInv, NEW c \in Calls, NEW last \in Nat, GoesOn(c, last)
  PROVE  CallTyped'
  <1>1. "running" \notin Fixtures BY FixturesAssumption
  <1>2. c[1] \in Tests /\ \A f \in Fixtures : <<c, f>> \in Instances BY CallFacts
  <1>3. CASE Runs(c, last) BY <1>1, <1>3 DEF TypedInv, Typed, TypeOK, AwaitsPending, Runs, CallTyped
  <1>4. ASSUME NEW f \in Fixtures, NextIs(c, last, f) PROVE AwaitsPending' /\ at' \in [Calls -> Fixtures \cup {"none", "running", "over"}]
    BY <1>4 DEF TypedInv, Typed, TypeOK, AwaitsPending, NextIs
  <1>5. ASSUME NEW f \in Fixtures, SetsUp(c, last, f) PROVE CallTyped'
    BY <1>2, <1>4, <1>5 DEF TypedInv, Typed, TypeOK, SetsUp, CallTyped
  <1>6. ASSUME NEW f \in Fixtures, SetsUpForFile(c, last, f) PROVE CallTyped'
    BY <1>2, <1>4, <1>6 DEF TypedInv, Typed, TypeOK, SetsUpForFile, CallTyped
  <1>7. ASSUME NEW f \in Fixtures, WaitsFor(c, last, f) PROVE CallTyped'
    BY <1>2, <1>4, <1>7 DEF TypedInv, Typed, TypeOK, WaitsFor, CallTyped
  <1> QED BY <1>3, <1>5, <1>6, <1>7, GoesOnHow

\* A list of clean-ups, some of its first ones, or the others the other way round.
LEMMA ReverseTyped ==
  ASSUME NEW S, NEW s \in Seq(S) PROVE Reverse(s) \in Seq(S)
  BY DEF Reverse

LEMMA PartsTyped ==
  ASSUME NEW S, NEW s \in Seq(S), NEW k \in Nat, k < Len(s)
  PROVE  SubSeq(s, 1, k) \in Seq(S) /\ Reverse(SubSeq(s, k + 1, Len(s))) \in Seq(S)
  <1>1. SubSeq(s, 1, k) \in Seq(S) /\ SubSeq(s, k + 1, Len(s)) \in Seq(S) OBVIOUS
  <1> QED BY <1>1, ReverseTyped

\* A test is in one stage after the other.
StageTyped ==
  /\ stage \in [Owners -> Stages \cup {"tests", "cleaning"}]
  /\ stage[File] \in {"tests", "cleaning", "over"} /\ \A t \in Tests : stage[t] \in Stages

LEMMA GoesTyped ==
  ASSUME TypedInv, NEW t \in Tests, NEW s \in Stages, Goes(t, s) PROVE StageTyped'
  <1>1. t \in Owners /\ t # File /\ \A u \in Tests : u \in Owners BY FixturesAssumption DEF Owners
  <1> QED BY <1>1 DEF Goes, TypedInv, Typed, StageTyped

\* The runner moves on.
LEMMA MovesTyped ==
  ASSUME TypedInv, NEW t \in Tests,
         AttemptStarts(t) \/ RunTestCalled(t) \/ NextCalls(t) \/ InnerCleanup(t)
         \/ RunTestReturns(t) \/ OuterCleanup(t) \/ AttemptEnds(t)
  PROVE  TypedInv'
  <1> DEFINE Calling == AwaitsPending /\ at \in [Calls -> Fixtures \cup {"none", "running", "over"}] /\ abandoned \subseteq Calls
             Fixing == /\ instance \in [Instances -> {"none", "setup", "inUse", "tearing", "over"}]
                       /\ value \in [Owners -> [Fixtures -> Instances \cup {None}]]
                       /\ cached \in [Tests -> SUBSET TestScoped] /\ promise \in [FileScoped -> Instances \cup {None}]
             Cleanups == cleanups \in [Owners -> Seq(Entries)] /\ cleaning \in [Owners -> Seq(Entries)] /\ detached \subseteq Calls
             Numbers == (\A u \in Tests : attempt[u] \in 0..Retry[u]) /\ attempt \in [Tests -> Nat] /\ checkpoint \in [Tests -> Nat]
  <1>0. t \in Owners /\ File \in Owners /\ t # File BY FixturesAssumption DEF Owners
  <1>1. Calling /\ Fixing /\ Cleanups /\ Numbers BY DEF TypedInv, Typed, TypeOK
  <1>2. Calling' /\ Fixing'
    BY <1>1 DEF AttemptStarts, RunTestCalled, NextCalls, InnerCleanup, RunTestReturns, OuterCleanup, AttemptEnds,
                resolved, AwaitsPending
  <1>3. StageTyped'
    <2>1. \E s \in Stages : Goes(t, s)
      <3>1. /\ "around" \in Stages /\ "before" \in Stages /\ "fn" \in Stages /\ "after" \in Stages /\ "inner" \in Stages
            /\ "aroundEnds" \in Stages /\ "outer" \in Stages /\ "over" \in Stages /\ "waiting" \in Stages
        BY DEF Stages
      <3>2. CASE NextCalls(t) BY <3>1, <3>2 DEF NextCalls
      <3>3. CASE AttemptStarts(t) \/ AttemptEnds(t) BY <3>1, <3>3 DEF AttemptStarts, AttemptEnds
      <3> QED BY <3>1, <3>2, <3>3 DEF RunTestCalled, InnerCleanup, RunTestReturns, OuterCleanup
    <2> QED BY <2>1, GoesTyped
  <1>4. Numbers'
    <2>1. Len(cleanups[t]) \in Nat BY <1>0, <1>1
    <2>2. CASE AttemptStarts(t) BY <1>1, <2>1, <2>2 DEF AttemptStarts, Checkpoint
    <2>3. CASE RunTestCalled(t) BY <1>1, <2>1, <2>3 DEF RunTestCalled, Checkpoint
    <2>4. CASE AttemptEnds(t)
      <3>1. Retry[t] \in Nat /\ attempt[t] \in Nat BY <1>1, FixturesAssumption
      <3>2. attempt[t] < Retry[t] => attempt[t] + 1 \in 0..Retry[t] /\ attempt[t] + 1 \in Nat BY <3>1
      <3>3. checkpoint' = checkpoint /\ (attempt' = attempt \/ (attempt[t] < Retry[t] /\ attempt' = [attempt EXCEPT ![t] = @ + 1]))
        BY <2>4 DEF AttemptEnds
      <3>4. CASE attempt' = attempt BY <1>1, <3>3, <3>4
      <3>5. CASE attempt[t] < Retry[t] /\ attempt' = [attempt EXCEPT ![t] = @ + 1]
        <4>1. attempt' \in [Tests -> Nat] /\ attempt'[t] = attempt[t] + 1 /\ \A u \in Tests \ {t} : attempt'[u] = attempt[u]
          BY <1>1, <3>2, <3>5
        <4> QED BY <1>1, <3>2, <3>3, <3>5, <4>1
      <3> QED BY <3>3, <3>4, <3>5
    <2> QED BY <1>1, <2>2, <2>3, <2>4 DEF NextCalls, InnerCleanup, RunTestReturns, OuterCleanup
  <1>5. Cleanups'
    <2>0. PICK s \in Seq(Entries) : s = cleanups[t] BY <1>0, <1>1
    <2>1. PICK k \in Nat : k = checkpoint[t] BY <1>1
    <2>2. CASE InnerCleanup(t)
      <3>1. k < Len(s) => Reverse(SubSeq(s, k + 1, Len(s))) \in Seq(Entries) /\ SubSeq(s, 1, k) \in Seq(Entries)
        BY PartsTyped
      <3> QED BY <1>0, <1>1, <2>0, <2>1, <2>2, <3>1 DEF InnerCleanup
    <2>3. CASE OuterCleanup(t)
      <3>1. Reverse(s) \in Seq(Entries) /\ <<>> \in Seq(Entries) BY ReverseTyped
      <3> QED BY <1>0, <1>1, <2>0, <2>3, <3>1 DEF OuterCleanup, CleansUp
    <2> QED BY <1>1, <2>2, <2>3 DEF AttemptStarts, RunTestCalled, NextCalls, RunTestReturns, AttemptEnds
  <1> QED BY <1>2, <1>3, <1>4, <1>5 DEF TypedInv, Typed, TypeOK, StageTyped

\* Clean-ups of a test or the file.
LEMMA CleaningTyped ==
  ASSUME TypedInv, NEW o \in Owners, NEW fails \in BOOLEAN,
         Uncaches(o) \/ TeardownStarts(o) \/ TeardownEnds(o, fails)
  PROVE  TypedInv'
  <1> USE DEF TypedInv, Typed, TypeOK, runner, resolved, AwaitsPending
  <1>0. cleaning[o] # <<>> BY DEF Uncaches, TeardownStarts, TeardownEnds
  <1>1. /\ Tail(cleaning[o]) \in Seq(Entries)
        /\ Head(cleaning[o])[1] = "teardown" => Head(cleaning[o])[2] \in Instances
    BY <1>0, HeadFacts
  <1>2. CASE Uncaches(o) BY <1>1, <1>2 DEF Uncaches, Uncached
  <1>3. CASE TeardownStarts(o)
    <2>1. PICK i \in Instances : i = Head(cleaning[o])[2] BY <1>1, <1>3 DEF TeardownStarts
    <2> QED BY <1>3, <2>1 DEF TeardownStarts
  <1>4. CASE TeardownEnds(o, fails)
    <2>1. PICK i \in Instances : i = Head(cleaning[o])[2] BY <1>1, <1>4 DEF TeardownEnds
    <2> QED BY <1>1, <1>4, <2>1 DEF TeardownEnds
  <1> QED BY <1>2, <1>3, <1>4

\* The end of the file.
LEMMA FileTyped ==
  ASSUME TypedInv, FileCleanup \/ FileEnds
  PROVE  TypedInv'
  <1> USE DEF TypedInv, Typed, TypeOK, runner, resolved, AwaitsPending, Goes, Stages
  <1>0. File \in Owners /\ File \notin Tests BY FixturesAssumption DEF Owners
  <1>1. CASE FileCleanup
    <2>0. PICK s \in Seq(Entries) : s = cleanups[File] BY <1>0
    <2>1. Reverse(s) \in Seq(Entries) /\ <<>> \in Seq(Entries) BY ReverseTyped
    <2>2. cleaning' \in [Owners -> Seq(Entries)] /\ cleanups' \in [Owners -> Seq(Entries)] /\ detached' \subseteq Calls
      BY <1>0, <1>1, <2>0, <2>1 DEF FileCleanup, CleansUp
    <2>3. stage' \in [Owners -> Stages \cup {"tests", "cleaning"}] /\ stage'[File] = "cleaning"
          /\ \A t \in Tests : stage'[t] \in Stages
      BY <1>0, <1>1 DEF FileCleanup, Owners
    <2> QED BY <1>0, <1>1, <2>2, <2>3 DEF FileCleanup
  <1>2. CASE FileEnds BY <1>0, <1>2 DEF FileEnds
  <1> QED BY <1>1, <1>2

\* One entry more for the clean-ups of a call.
LEMMA PushedTyped ==
  ASSUME Typed, NEW c \in Calls, NEW e \in Entries
  PROVE  Pushed(c, e) \in [Owners -> Seq(Entries)]
  <1>1. c[1] \in Owners BY CallFacts DEF Owners
  <1>2. PICK s \in Seq(Entries) : s = cleanups[c[1]] BY <1>1 DEF Typed
  <1>3. Append(s, e) \in Seq(Entries) OBVIOUS
  <1> QED BY <1>1, <1>2, <1>3 DEF Typed, Pushed

\* Calls.
LEMMA CallTypedStep ==
  ASSUME TypedInv, NEW c \in Calls, Call(c)
  PROVE  TypedInv'
  <1>0. c[1] \in Owners /\ c[1] \in Tests BY CallFacts DEF Owners
  <1>1. CASE Begin(c)
    <2>1. 0 \in Nat /\ GoesOn(c, 0) BY <1>1 DEF Begin
    <2>2. CallTyped' BY <2>1, GoesOnTyped
    <2> QED BY <1>1, <2>2 DEF Begin, CallTyped, TypedInv, Typed, TypeOK, runner
  <1>2. CASE AfterFixture(c)
    <2>1. PICK f \in Fixtures : f = at[c] BY <1>2 DEF AfterFixture
    <2>2. GoesOn(c, Place(c, f)) BY <1>2, <2>1 DEF AfterFixture
    <2>3. Place(c, f) \in Nat BY <2>1, PlaceOfAwaited
    <2>4. CallTyped' BY <2>2, <2>3, GoesOnTyped
    <2>5. File \in Owners /\ <<c, f>> \in Instances BY CallFacts DEF Owners
    <2>6. \E i \in Instances : value' = [value EXCEPT ![c[1]][f] = i]
      <3>1. value[File][f] \in Instances \cup {None} BY <2>5 DEF TypedInv, Typed, TypeOK
      <3> QED BY <1>2, <2>1, <2>5, <3>1 DEF AfterFixture
    <2>7. value' \in [Owners -> [Fixtures -> Instances \cup {None}]] BY <1>0, <2>6 DEF TypedInv, Typed, TypeOK
    <2>8. f \in TestScoped => <<"uncache", f>> \in Entries BY DEF Entries
    <2>9. cleanups' \in [Owners -> Seq(Entries)]
      BY <1>2, <2>1, <2>8, PushedTyped DEF AfterFixture, TypedInv, Typed
    <2> QED BY <1>2, <2>4, <2>7, <2>9 DEF AfterFixture, CallTyped, TypedInv, Typed, TypeOK, runner
  <1>3. ASSUME NEW fails \in BOOLEAN, End(c, fails) PROVE TypedInv'
    <2>1. "over" \notin Fixtures BY FixturesAssumption
    <2> QED BY <1>3, <2>1 DEF End, TypedInv, Typed, TypeOK, runner, resolved, AwaitsPending
  <1> QED BY <1>1, <1>2, <1>3 DEF Call

\* Fixtures.
LEMMA FixtureTyped ==
  ASSUME TypedInv, NEW i \in Instances, Use(i) \/ SetupThrows(i)
  PROVE  TypedInv'
  <1>0. /\ i[1] \in Calls /\ i[1][1] \in Tests /\ i[2] \in Fixtures /\ File \in Owners
        /\ i[2] \in FileScoped <=> i[2] \notin TestScoped
        /\ <<"teardown", i>> \in Entries
    <2>1. i[1] \in Calls /\ i[1][1] \in Tests /\ i[2] \in Fixtures BY InstanceFacts
    <2>2. <<"teardown", i>> \in Entries BY DEF Entries
    <2>3. File \in Owners BY DEF Owners
    <2> QED BY <2>1, <2>2, <2>3, Scopes
  <1>1. Settled(i) \in [FileScoped -> Instances \cup {None}] BY DEF Settled, TypedInv, Typed, TypeOK
  <1>2. CASE Use(i)
    <2>5. value \in [Owners -> [Fixtures -> Instances \cup {None}]] BY DEF TypedInv, Typed, TypeOK
    <2>6. value' = value \/ value' = [value EXCEPT ![File][i[2]] = i] BY <1>2 DEF Use
    <2>1. value' \in [Owners -> [Fixtures -> Instances \cup {None}]] BY <1>0, <2>5, <2>6
    <2>2. cleanups' \in [Owners -> Seq(Entries)]
      <3>1. CASE i[2] \in TestScoped BY <1>0, <1>2, <3>1, PushedTyped DEF Use, TypedInv
      <3>2. CASE i[2] \notin TestScoped
        <4>1. PICK s \in Seq(Entries) : s = cleanups[File] BY <1>0 DEF TypedInv, Typed
        <4>2. Append(s, <<"teardown", i>>) \in Seq(Entries) BY <1>0
        <4> QED BY <1>0, <1>2, <3>2, <4>1, <4>2 DEF Use, TypedInv, Typed
      <3> QED BY <3>1, <3>2
    <2>3. instance' \in [Instances -> {"none", "setup", "inUse", "tearing", "over"}]
      BY <1>2 DEF Use, TypedInv, Typed, TypeOK
    <2>4. promise' \in [FileScoped -> Instances \cup {None}] BY <1>1, <1>2 DEF Use
    <2> QED BY <1>2, <2>1, <2>2, <2>3, <2>4 DEF Use, TypedInv, Typed, TypeOK, AwaitsPending, runner
  <1>3. CASE SetupThrows(i)
    <2>1. "over" \notin Fixtures BY FixturesAssumption
    <2>2. at' \in [Calls -> Fixtures \cup {"none", "running", "over"}] /\ AwaitsPending'
      BY <1>3, <2>1 DEF SetupThrows, TypedInv, Typed, TypeOK, AwaitsPending
    <2>3. cached' \in [Tests -> SUBSET TestScoped]
      BY <1>0, <1>3 DEF SetupThrows, TypedInv, Typed, TypeOK, Uncached
    <2>4. instance' \in [Instances -> {"none", "setup", "inUse", "tearing", "over"}]
      BY <1>3 DEF SetupThrows, TypedInv, Typed, TypeOK
    <2> QED BY <1>1, <1>3, <2>2, <2>3, <2>4 DEF SetupThrows, TypedInv, Typed, TypeOK, runner
  <1> QED BY <1>2, <1>3

LEMMA InitTyped == Init => TypedInv
  <1>1. "none" \notin Fixtures /\ File \in Owners /\ File \notin Tests BY FixturesAssumption DEF Owners
  <1>2. \A t \in Tests : 0 \in 0..Retry[t] BY FixturesAssumption
  <1> QED BY <1>1, <1>2, FixturesAssumption DEF Init, TypedInv, Typed, TypeOK, AwaitsPending, Stages, Owners, Fixtures

LEMMA NextTyped == TypedInv /\ [Next]_vars => TypedInv'
  <1> SUFFICES ASSUME TypedInv, [Next]_vars PROVE TypedInv' OBVIOUS
  <1>1. ASSUME NEW o \in Owners, Runner(o) PROVE TypedInv'
    BY <1>1, MovesTyped, CleaningTyped, FileTyped DEF Runner
  <1>2. CASE UNCHANGED vars
    BY <1>2 DEF vars, runner, resolved, TypedInv, Typed, TypeOK, AwaitsPending
  <1> QED BY <1>1, <1>2, CallTypedStep, FixtureTyped DEF Next

\* Every variable has a value of its kind, for every test file and whatever times out.
THEOREM FixturesTypeOK == Spec => []TypeOK
  <1>1. TypedInv => TypeOK BY DEF TypedInv, Typed
  <1> QED BY <1>1, InitTyped, NextTyped, PTL DEF Spec

-----------------------------------------------------------------------------
Idle(c) == at[c] \in {"none", "over"}

\* A call that is under way is one of this attempt, in the stage for it.
InPlace(c) ==
  /\ Current(c)
  /\ c[3] = "around" => /\ stage[c[1]] \in Active \cup {"inner", "aroundEnds"}
                        /\ stage[c[1]] # "around" => at[c] = "running"
  /\ c[3] \in Before => stage[c[1]] = "before"
  /\ c[3] \in {"fn", "after"} => stage[c[1]] = c[3]

CallsInPlace ==
  /\ \A c \in Calls : ~Idle(c) => InPlace(c)
  /\ abandoned = {} /\ \A c \in detached : at[c] = "over"

\* Clean-ups are asked for until they begin, and none is left when the next attempt does.
CleanupsInPlace ==
  /\ \A t \in Tests : /\ cleaning[t] # <<>> => stage[t] \in {"inner", "outer"}
                      /\ stage[t] \in {"waiting", "outer", "over"} => cleanups[t] = <<>>
                      /\ stage[t] \in Inside => checkpoint[t] <= Len(cleanups[t])
  /\ stage[File] = "tests" => cleaning[File] = <<>>
  /\ stage[File] # "tests" => cleanups[File] = <<>> /\ \A t \in Tests : stage[t] = "over"
  /\ \A o \in Owners : stage[o] = "over" => cleaning[o] = <<>>

\* The context of the file: a fixture is set up under its promise, and known afterwards.
FileContext ==
  \A f \in FileScoped :
    /\ promise[f] # None => /\ promise[f][2] = f /\ instance[promise[f]] = "setup"
                            /\ value[File][f] = None
    /\ value[File][f] # None => value[File][f][2] = f /\ instance[value[File][f]] \in {"inUse", "tearing", "over"}

\* Who is set up has a call that awaits it; the rest has its teardown among the clean-ups.
InstanceInPlace(i) ==
  /\ instance[i] = "setup" => at[i[1]] = i[2] /\ (i[2] \in FileScoped => promise[i[2]] = i)
  /\ instance[i] \in {"inUse", "tearing"} =>
       /\ Td(i) \in ToSet(cleanups[OwnerOf(i)]) \cup ToSet(cleaning[OwnerOf(i)])
       /\ i[2] \in FileScoped => value[File][i[2]] = i
  /\ instance[i] = "tearing" => cleaning[OwnerOf(i)] # <<>> /\ Head(cleaning[OwnerOf(i)]) = Td(i)

InstancesInPlace == \A i \in Instances : InstanceInPlace(i)

\* The two entries of a fixture in the clean-ups.
About(e, f) == e = Un(f) \/ (e[1] = "teardown" /\ e[2][2] = f)

\* The entries of an array are about its context.
EntriesInPlace ==
  \A o \in Owners : \A e \in ToSet(cleanups[o]) \cup ToSet(cleaning[o]) :
    /\ e[1] = "uncache" => o \in Tests
    /\ e[1] = "teardown" => OwnerOf(e[2]) = o

\* A fixture with entries is in the cache; its entries are cleaned up together.
EntriesTogether(t, f) ==
  /\ \A e \in ToSet(cleanups[t]) : About(e, f) =>
       f \in cached[t] /\ \A d \in ToSet(cleaning[t]) : ~About(d, f)
  /\ stage[t] \in Inside =>
       \A k, m \in DOMAIN cleanups[t] :
         About(cleanups[t][k], f) /\ About(cleanups[t][m], f) => (k <= checkpoint[t] <=> m <= checkpoint[t])

TogetherCleaned == \A t \in Tests : \A f \in TestScoped : EntriesTogether(t, f)

\* A call that awaits a fixture of its test set it up.
Awaits(c) == at[c] \in TestScoped =>
  LET f == at[c]  t == c[1]  i == <<c, f>> IN
  /\ instance[i] \in {"setup", "inUse"} /\ f \in cached[t]
  /\ \A k \in DOMAIN cleanups[t] : About(cleanups[t][k], f) =>
       /\ instance[i] = "inUse" /\ cleanups[t][k] # Un(f)
       /\ c[3] # "around" => k > checkpoint[t]

AwaitedInPlace == \A c \in Calls : Awaits(c)

\* What is no longer in the cache is about to be torn down.
LiveIsCached ==
  \A i \in Instances : Live(i) /\ i[2] \in TestScoped =>
    i[2] \in cached[i[1][1]] \/ Td(i) \in ToSet(cleaning[i[1][1]])

IInv ==
  /\ TypedInv /\ CallsInPlace /\ CleanupsInPlace /\ FileContext /\ InstancesInPlace /\ EntriesInPlace
  /\ TogetherCleaned /\ AwaitedInPlace /\ LiveIsCached /\ OneInstance


-----------------------------------------------------------------------------
LEMMA Types ==
  ASSUME TypedInv
  PROVE  /\ at \in [Calls -> Fixtures \cup {"none", "running", "over"}]
         /\ instance \in [Instances -> {"none", "setup", "inUse", "tearing", "over"}]
         /\ value \in [Owners -> [Fixtures -> Instances \cup {None}]]
         /\ cached \in [Tests -> SUBSET TestScoped] /\ promise \in [FileScoped -> Instances \cup {None}]
         /\ stage \in [Owners -> Stages \cup {"tests", "cleaning"}]
         /\ attempt \in [Tests -> Nat] /\ checkpoint \in [Tests -> Nat]
         /\ cleanups \in [Owners -> Seq(Entries)] /\ cleaning \in [Owners -> Seq(Entries)]
         /\ abandoned \subseteq Calls /\ detached \subseteq Calls
  BY DEF TypedInv, Typed, TypeOK

LEMMA OwnerFacts ==
  /\ File \in Owners /\ File \notin Tests /\ None \notin Instances
  /\ \A t \in Tests : t \in Owners /\ t # File
  /\ \A f \in Fixtures : f \notin {"none", "running", "over"}
  BY FixturesAssumption, UsesAssumption DEF Owners

LEMMA InitIInv == Init => IInv
  <1> SUFFICES ASSUME Init PROVE IInv OBVIOUS
  <1>1. TypedInv BY InitTyped
  <1>2. /\ \A c \in Calls : at[c] = "none" /\ Idle(c) /\ at[c] \notin TestScoped
        /\ \A i \in Instances : instance[i] = "none" /\ ~Live(i)
    BY OwnerFacts DEF Init, Idle, Fixtures, Live
  <1>3. /\ \A t \in Tests : stage[t] = "waiting" /\ cached[t] = {}
        /\ \A o \in Owners : cleanups[o] = <<>> /\ cleaning[o] = <<>> /\ ToSet(cleanups[o]) = {} /\ ToSet(cleaning[o]) = {}
        /\ stage[File] = "tests"
    BY OwnerFacts DEF Init, Owners, ToSet
  <1>4. CallsInPlace BY <1>2 DEF Init, CallsInPlace
  <1>5. CleanupsInPlace
    <2>1. \A o \in Owners : cleaning[o] = <<>> BY <1>3
    <2>2. \A t \in Tests : cleaning[t] = <<>> /\ cleanups[t] = <<>> /\ stage[t] \notin Inside BY <1>3, OwnerFacts DEF Inside
    <2> QED BY <1>3, <2>1, <2>2, OwnerFacts DEF CleanupsInPlace
  <1>6. FileContext BY OwnerFacts DEF Init, FileContext, Fixtures
  <1>7. InstancesInPlace BY <1>2 DEF InstancesInPlace, InstanceInPlace
  <1>8. EntriesInPlace BY <1>3 DEF EntriesInPlace
  <1>9. TogetherCleaned
    <2>1. \A t \in Tests : ToSet(cleanups[t]) = {} /\ stage[t] \notin Inside BY <1>3, OwnerFacts DEF Inside
    <2> QED BY <2>1 DEF TogetherCleaned, EntriesTogether
  <1>10. AwaitedInPlace BY <1>2 DEF AwaitedInPlace, Awaits
  <1>11. LiveIsCached /\ OneInstance BY <1>2 DEF LiveIsCached, OneInstance
  <1> QED BY <1>1, <1>4, <1>5, <1>6, <1>7, <1>8, <1>9, <1>10, <1>11 DEF IInv

\* What is the same when neither calls nor fixtures nor clean-ups go on.
LEMMA StageStep ==
  ASSUME IInv, UNCHANGED <<at, abandoned, instance, value, cached, promise, cleanups, cleaning, detached>>
  PROVE  FileContext' /\ InstancesInPlace' /\ EntriesInPlace' /\ LiveIsCached'
  <1>1. FileContext' BY DEF IInv, FileContext
  <1>2. InstancesInPlace' BY DEF IInv, InstancesInPlace, InstanceInPlace
  <1>3. EntriesInPlace' BY DEF IInv, EntriesInPlace
  <1>4. LiveIsCached' BY DEF IInv, LiveIsCached, Live
  <1> QED BY <1>1, <1>2, <1>3, <1>4

LEMMA StutterIInv == ASSUME IInv, UNCHANGED vars PROVE IInv'
  <1> USE DEF vars, runner, resolved
  <1>1. TypedInv' BY NextTyped DEF IInv
  <1>2. FileContext' /\ InstancesInPlace' /\ EntriesInPlace' /\ LiveIsCached' BY StageStep
  <1>3. CallsInPlace' BY DEF IInv, CallsInPlace, Idle, InPlace, Current
  <1>4. CleanupsInPlace' BY DEF IInv, CleanupsInPlace
  <1>5. TogetherCleaned' BY DEF IInv, TogetherCleaned, EntriesTogether
  <1>6. AwaitedInPlace' BY DEF IInv, AwaitedInPlace, Awaits
  <1>7. OneInstance' BY DEF IInv, OneInstance, Live, OwnerOf
  <1> QED BY <1>1, <1>2, <1>3, <1>4, <1>5, <1>6, <1>7 DEF IInv

\* Where the test of a call is that is under way, or awaits a fixture.
LEMMA StageOfCall ==
  ASSUME IInv, NEW c \in Calls, ~Idle(c)
  PROVE  /\ Current(c) /\ stage[c[1]] \in Active \cup {"inner", "aroundEnds"} /\ stage[File] = "tests"
         /\ c \notin detached
         /\ stage[c[1]] \in {"inner", "aroundEnds"} => c[3] = "around" /\ at[c] = "running"
         /\ at[c] \in Fixtures /\ stage[c[1]] \in Inside => c[3] # "around"
  <1>0. c[3] \in Before \cup {"around", "fn", "after"} /\ c[1] \in Tests BY CallFacts
  <1>1. InPlace(c) BY DEF IInv, CallsInPlace
  <1>2. stage[c[1]] \in Active \cup {"inner", "aroundEnds"} BY <1>0, <1>1 DEF InPlace, Active, Inside
  <1>3. stage[File] = "tests" BY <1>0, <1>2 DEF IInv, CleanupsInPlace, Active, Inside
  <1>4. stage[c[1]] \in {"inner", "aroundEnds"} => c[3] = "around" /\ at[c] = "running"
    BY <1>0, <1>1 DEF InPlace, Before
  <1>5. at[c] \in Fixtures /\ stage[c[1]] \in Inside => c[3] # "around"
    BY <1>1, OwnerFacts DEF InPlace, Inside
  <1>6. c \notin detached BY DEF IInv, CallsInPlace, Idle
  <1> QED BY <1>1, <1>2, <1>3, <1>4, <1>5, <1>6 DEF InPlace

LEMMA StageOfAwaiting ==
  ASSUME IInv, NEW c \in Calls, at[c] \in Fixtures
  PROVE  ~Idle(c) /\ stage[c[1]] \in Active
  <1>1. ~Idle(c) BY OwnerFacts DEF Idle
  <1> QED BY <1>1, OwnerFacts, StageOfCall

\* Nobody awaits a fixture of a test whose clean-ups run.
LEMMA NobodyAwaits ==
  ASSUME IInv, NEW t \in Tests, cleaning[t] # <<>>
  PROVE  \A c \in Calls : c[1] = t => at[c] \notin Fixtures
  <1>1. stage[t] \notin Active BY DEF IInv, CleanupsInPlace, Active, Inside
  <1> QED BY <1>1, StageOfAwaiting

LEMMA SameCall ==
  ASSUME NEW c \in Calls, NEW e \in Calls, c[1] = e[1], c[2] = e[2], c[3] = e[3]
  PROVE  c = e
  <1>1. c = <<c[1], c[2], c[3]>> /\ e = <<e[1], e[2], e[3]>> BY DEF Calls
  <1> QED BY <1>1

\* Lists: one entry more, the other way round, in two parts.
LEMMA AppendSet ==
  ASSUME NEW S, NEW s \in Seq(S), NEW e \in S
  PROVE  /\ ToSet(Append(s, e)) = ToSet(s) \cup {e} /\ Len(Append(s, e)) = Len(s) + 1
         /\ \A k \in DOMAIN Append(s, e) : (k \in DOMAIN s /\ Append(s, e)[k] = s[k]) \/ (k = Len(s) + 1 /\ Append(s, e)[k] = e)
  <1>1. /\ Len(Append(s, e)) = Len(s) + 1 /\ \A k \in 1..Len(s) : Append(s, e)[k] = s[k] /\ Append(s, e)[Len(s) + 1] = e
        /\ DOMAIN s = 1..Len(s) /\ DOMAIN Append(s, e) = 1..(Len(s) + 1) /\ Append(s, e)[Len(s) + 1] = e /\ Len(s) \in Nat
    OBVIOUS
  <1>2. \A k \in 1..(Len(s) + 1) : k \in 1..Len(s) \/ k = Len(s) + 1 BY <1>1
  <1>3. Len(s) + 1 \in 1..(Len(s) + 1) /\ \A k \in 1..Len(s) : k \in 1..(Len(s) + 1) BY <1>1
  <1>4. \A x : x \in ToSet(Append(s, e)) <=> x \in ToSet(s) \cup {e}
    <2> TAKE x
    <2>1. x \in ToSet(Append(s, e)) <=> \E k \in 1..(Len(s) + 1) : Append(s, e)[k] = x BY <1>1 DEF ToSet
    <2>2. x \in ToSet(s) <=> \E k \in 1..Len(s) : s[k] = x BY <1>1 DEF ToSet
    <2> QED BY <1>1, <1>2, <1>3, <2>1, <2>2
  <1>5. \A k \in DOMAIN Append(s, e) : (k \in DOMAIN s /\ Append(s, e)[k] = s[k]) \/ (k = Len(s) + 1 /\ Append(s, e)[k] = e)
    <2> TAKE k \in DOMAIN Append(s, e)
    <2>1. k \in 1..Len(s) \/ k = Len(s) + 1 BY <1>1, <1>2
    <2>2. CASE k \in 1..Len(s)
      <3>1. Append(s, e)[k] = s[k] BY <1>1, <2>2
      <3>2. k \in DOMAIN s BY <2>2
      <3> QED BY ONLY <3>1, <3>2
    <2>3. CASE k = Len(s) + 1
      <3>1. Append(s, e)[k] = e BY <1>1, <2>3
      <3> QED BY ONLY <2>3, <3>1
    <2> QED BY <2>1, <2>2, <2>3
  <1>6. ToSet(Append(s, e)) = ToSet(s) \cup {e} BY <1>4
  <1> QED BY <1>1, <1>5, <1>6

LEMMA ReverseSet ==
  ASSUME NEW S, NEW s \in Seq(S)
  PROVE  ToSet(Reverse(s)) = ToSet(s)
  <1>1. PICK n \in Nat : n = Len(s) OBVIOUS
  <1>2. DOMAIN s = 1..n /\ DOMAIN Reverse(s) = 1..n /\ \A k \in 1..n : Reverse(s)[k] = s[(n - k) + 1]
    BY <1>1 DEF Reverse
  <1>3. \A k \in 1..n : (n - k) + 1 \in 1..n /\ (n - ((n - k) + 1)) + 1 = k OBVIOUS
  <1>4. \A x : x \in ToSet(Reverse(s)) <=> x \in ToSet(s)
    <2> TAKE x
    <2>1. x \in ToSet(Reverse(s)) <=> \E k \in 1..n : Reverse(s)[k] = x BY <1>2 DEF ToSet
    <2>2. x \in ToSet(s) <=> \E k \in 1..n : s[k] = x BY <1>2 DEF ToSet
    <2> QED BY <1>2, <1>3, <2>1, <2>2
  <1> QED BY <1>4

LEMMA SplitSet ==
  ASSUME NEW S, NEW s \in Seq(S), NEW k \in Nat, k < Len(s)
  PROVE  /\ \A e : e \in ToSet(SubSeq(s, 1, k)) <=> \E n \in DOMAIN s : n <= k /\ s[n] = e
         /\ \A e : e \in ToSet(Reverse(SubSeq(s, k + 1, Len(s)))) <=> \E n \in DOMAIN s : n > k /\ s[n] = e
  <1>1. PICK n \in Nat : n = Len(s) OBVIOUS
  <1>0. /\ SubSeq(s, k + 1, n) \in Seq(S) /\ DOMAIN SubSeq(s, k + 1, n) = 1..(n - k)
        /\ \A m \in 1..(n - k) : SubSeq(s, k + 1, n)[m] = s[k + m]
    <2>1. k + 1 \in 1..(n + 1) /\ n \in (k + 1) - 1..n BY <1>1
    <2>2. /\ SubSeq(s, k + 1, n) \in Seq(S) /\ Len(SubSeq(s, k + 1, n)) = n - k
          /\ \A m \in 1..(n - k) : SubSeq(s, k + 1, n)[m] = s[k + m]
      BY <1>1
    <2> QED BY <1>1, <2>2
  <1>2. PICK r \in Seq(S) : r = SubSeq(s, k + 1, n) BY <1>0
  <1>3. DOMAIN s = 1..n /\ DOMAIN r = 1..(n - k) /\ \A m \in 1..(n - k) : r[m] = s[k + m] BY <1>0, <1>1, <1>2
  <1>4. DOMAIN SubSeq(s, 1, k) = 1..k /\ \A m \in 1..k : SubSeq(s, 1, k)[m] = s[m] BY <1>1
  <1>5. \A m \in 1..k : m \in 1..n /\ m <= k BY <1>1
  <1>6. \A m \in 1..n : m <= k => m \in 1..k BY <1>1
  <1>7. \A m \in 1..n : m > k => m - k \in 1..(n - k) /\ k + (m - k) = m BY <1>1
  <1>8. \A m \in 1..(n - k) : k + m \in 1..n /\ k + m > k BY <1>1
  <1>9. \A e : e \in ToSet(SubSeq(s, 1, k)) <=> \E m \in DOMAIN s : m <= k /\ s[m] = e
    BY <1>3, <1>4, <1>5, <1>6 DEF ToSet
  <1>10. \A e : e \in ToSet(r) <=> \E m \in DOMAIN s : m > k /\ s[m] = e
    <2> TAKE e
    <2>1. ASSUME NEW m \in 1..(n - k), r[m] = e PROVE \E m2 \in DOMAIN s : m2 > k /\ s[m2] = e
      BY <1>3, <1>8, <2>1
    <2>2. ASSUME NEW m \in 1..n, m > k, s[m] = e PROVE \E m2 \in DOMAIN r : r[m2] = e
      BY <1>3, <1>7, <2>2
    <2> QED BY <1>3, <2>1, <2>2 DEF ToSet
  <1> QED BY <1>1, <1>2, <1>9, <1>10, ReverseSet

-----------------------------------------------------------------------------
\* Where the runner of a test goes on, the clean-ups being what they were.
LEMMA MovesIInv ==
  ASSUME IInv, NEW t \in Tests,
         AttemptStarts(t) \/ RunTestCalled(t) \/ NextCalls(t) \/ RunTestReturns(t) \/ AttemptEnds(t)
  PROVE  IInv'
  <1> USE DEF resolved
  <1>0. /\ UNCHANGED <<at, abandoned, instance, value, cached, promise, cleanups, cleaning, detached>>
        /\ t \in Owners /\ t # File /\ File \in Owners
    BY OwnerFacts DEF AttemptStarts, RunTestCalled, NextCalls, RunTestReturns, AttemptEnds
  <1>1. FileContext' /\ InstancesInPlace' /\ EntriesInPlace' /\ LiveIsCached' BY <1>0, StageStep
  <1>2. TypedInv' BY MovesTyped DEF IInv
  <1>3. /\ stage[t] \notin {"over", "after"} /\ stage[File] = "tests" /\ stage'[File] = stage[File]
        /\ \A u \in Tests : u # t => /\ stage'[u] = stage[u] /\ attempt'[u] = attempt[u] /\ checkpoint'[u] = checkpoint[u]
    <2>1. stage \in [Owners -> Stages \cup {"tests", "cleaning"}] /\ attempt \in [Tests -> Nat] /\ checkpoint \in [Tests -> Nat]
      BY Types DEF IInv
    <2>2. stage[t] \notin {"over", "after"} BY DEF AttemptStarts, RunTestCalled, NextCalls, RunTestReturns, AttemptEnds
    <2>3. stage'[File] = stage[File] /\ \A u \in Tests : u # t => stage'[u] = stage[u]
      BY <1>0, <2>1, OwnerFacts DEF AttemptStarts, RunTestCalled, NextCalls, RunTestReturns, AttemptEnds, Goes
    <2>4. \A u \in Tests : u # t => attempt'[u] = attempt[u]
      BY <2>1 DEF AttemptStarts, RunTestCalled, NextCalls, RunTestReturns, AttemptEnds
    <2>5. \A u \in Tests : u # t => checkpoint'[u] = checkpoint[u]
      BY <2>1 DEF AttemptStarts, RunTestCalled, NextCalls, RunTestReturns, AttemptEnds
    <2>6. stage[File] = "tests" BY <2>2 DEF IInv, CleanupsInPlace
    <2> QED BY <2>2, <2>3, <2>4, <2>5, <2>6
  \* The stages of the test, before and after.
  <1>4. \/ /\ stage[t] = "waiting" /\ stage'[t] = "around" /\ attempt' = attempt
        \/ /\ stage[t] = "waiting" /\ stage'[t] = "before" /\ attempt' = attempt /\ checkpoint'[t] = Len(cleanups[t])
        \/ /\ stage[t] = "around" /\ stage'[t] = "before" /\ attempt' = attempt /\ checkpoint'[t] = Len(cleanups[t])
           /\ \E c \in CallsOf(t, {"around"}) : at[c] = "running"
        \/ /\ stage[t] = "before" /\ stage'[t] \in {"fn", "after"} /\ attempt' = attempt /\ checkpoint' = checkpoint
           /\ \A c \in CallsOf(t, Before) : at[c] = "none" \/ at[c] = "over"
        \/ /\ stage[t] = "fn" /\ stage'[t] = "after" /\ attempt' = attempt /\ checkpoint' = checkpoint
           /\ \A c \in CallsOf(t, {"fn"}) : at[c] = "over"
        \/ /\ stage[t] = "inner" /\ stage'[t] = "aroundEnds" /\ attempt' = attempt /\ cleaning[t] = <<>>
        \/ /\ stage[t] = "outer" /\ stage'[t] \in {"waiting", "over"} /\ cleaning[t] = <<>>
    <2>1. stage \in [Owners -> Stages \cup {"tests", "cleaning"}] /\ checkpoint \in [Tests -> Nat] BY Types DEF IInv
    <2>2. abandoned = {} BY DEF IInv, CallsInPlace
    <2>3. \A s : Goes(t, s) => stage'[t] = s BY <1>0, <2>1 DEF Goes
    <2>4. CASE AttemptStarts(t) BY <2>1, <2>3, <2>4 DEF AttemptStarts, Checkpoint
    <2>5. CASE RunTestCalled(t) BY <2>1, <2>3, <2>5 DEF RunTestCalled, Checkpoint
    <2>6. CASE NextCalls(t)
      <3>1. CASE stage[t] = "before" BY <2>2, <2>3, <2>6, <3>1 DEF NextCalls, IsOver
      <3>2. CASE stage[t] = "fn" BY <2>2, <2>3, <2>6, <3>2 DEF NextCalls, IsOver
      <3> QED BY <2>6, <3>1, <3>2 DEF NextCalls
    <2>7. CASE RunTestReturns(t) BY <2>3, <2>7 DEF RunTestReturns
    <2>8. CASE AttemptEnds(t) BY <2>3, <2>8 DEF AttemptEnds
    <2> QED BY <2>4, <2>5, <2>6, <2>7, <2>8
  \* Who is under way, and who awaits a fixture.
  <1>5. \A c \in Calls : c[1] = t /\ ~Idle(c) =>
          /\ (c[3] = "around" /\ at[c] = "running") \/ (stage[t] = "around" /\ stage'[t] = "around")
          /\ stage[t] \notin {"waiting", "outer"}
    <2> SUFFICES ASSUME NEW c \in Calls, c[1] = t, ~Idle(c)
                 PROVE /\ (c[3] = "around" /\ at[c] = "running") \/ (stage[t] = "around" /\ stage'[t] = "around")
                       /\ stage[t] \notin {"waiting", "outer"}
      OBVIOUS
    <2>1. /\ Current(c) /\ stage[t] \in Active \cup {"inner", "aroundEnds"}
          /\ stage[t] \in {"inner", "aroundEnds"} => c[3] = "around" /\ at[c] = "running"
      BY StageOfCall
    <2>2. InPlace(c) BY DEF IInv, CallsInPlace
    <2>3. c[3] \in Before \cup {"around", "fn", "after"} BY CallFacts
    <2>4. CASE stage[t] = "around"
      <3>1. c[3] = "around" BY <2>2, <2>3, <2>4 DEF InPlace
      <3>2. PICK e \in CallsOf(t, {"around"}) : at[e] = "running" BY <1>4, <2>4
      <3>3. e = c BY <2>1, <3>1, <3>2, SameCall DEF CallsOf, Current
      <3> QED BY <2>4, <3>1, <3>2, <3>3
    <2>5. CASE stage[t] = "before"
      <3>1. \A e \in CallsOf(t, Before) : Idle(e) BY <1>4, <2>5 DEF Idle
      <3>2. c[3] \notin Before BY <2>1, <3>1 DEF CallsOf, Current
      <3> QED BY <2>2, <2>3, <2>5, <3>2 DEF InPlace
    <2>6. CASE stage[t] = "fn"
      <3>1. \A e \in CallsOf(t, {"fn"}) : Idle(e) BY <1>4, <2>6 DEF Idle
      <3>2. c[3] # "fn" BY <2>1, <3>1 DEF CallsOf, Current
      <3> QED BY <2>2, <2>3, <2>6, <3>2 DEF InPlace
    <2>7. CASE stage[t] = "inner" BY <2>1, <2>7
    <2> QED BY <1>3, <1>4, <2>1, <2>4, <2>5, <2>6, <2>7 DEF Active, Inside
  <1>6. \A c \in Calls : c[1] = t => at[c] \notin Fixtures BY <1>4, <1>5, OwnerFacts DEF Idle
  <1>7. CallsInPlace'
    <2>1. ASSUME NEW c \in Calls, ~Idle(c) PROVE InPlace(c)'
      <3>0. InPlace(c) /\ c[1] \in Tests BY <2>1, CallFacts DEF IInv, CallsInPlace
      <3>1. CASE c[1] # t BY <1>0, <1>3, <3>0, <3>1 DEF InPlace, Current
      <3>2. CASE c[1] = t
        <4>1. c[3] = "around" /\ at[c] = "running" /\ stage[t] \notin {"waiting", "outer"} BY <1>4, <1>5, <2>1, <3>2
        <4>2. attempt' = attempt /\ stage'[t] \in Active \cup {"inner", "aroundEnds"} BY <1>4, <4>1 DEF Active, Inside
        <4> QED BY <1>0, <3>0, <3>2, <4>1, <4>2 DEF InPlace, Current, Before
      <3> QED BY <3>1, <3>2
    <2> QED BY <1>0, <2>1 DEF IInv, CallsInPlace, Idle
  <1>8. CleanupsInPlace'
    <2>1. Len(cleanups[t]) \in Nat BY <1>0, Types DEF IInv
    <2>2. /\ cleaning[t] # <<>> => stage[t] \in {"inner", "outer"}
          /\ stage[t] \in {"waiting", "outer", "over"} => cleanups[t] = <<>>
          /\ stage[t] \in Inside => checkpoint[t] <= Len(cleanups[t])
      BY DEF IInv, CleanupsInPlace
    <2>3. cleaning[t] # <<>> => stage'[t] \in {"inner", "outer"} BY <1>4, <2>2
    <2>4. stage'[t] \in {"waiting", "outer", "over"} => cleanups[t] = <<>> BY <1>4, <2>2
    <2>5. stage'[t] \in Inside => checkpoint'[t] <= Len(cleanups[t]) BY <1>4, <2>1, <2>2 DEF Inside
    <2>6. stage'[t] = "over" => cleaning[t] = <<>> BY <1>4
    <2>7. \A o \in Owners : o # t => stage'[o] = stage[o] BY <1>3 DEF Owners
    <2>8. /\ \A u \in Tests : u # t => /\ cleaning[u] # <<>> => stage'[u] \in {"inner", "outer"}
                                       /\ stage'[u] \in {"waiting", "outer", "over"} => cleanups[u] = <<>>
                                       /\ stage'[u] \in Inside => checkpoint'[u] <= Len(cleanups[u])
          /\ \A o \in Owners : o # t => (stage'[o] = "over" => cleaning[o] = <<>>)
      BY <1>3, <2>7 DEF IInv, CleanupsInPlace
    <2>9. cleaning[File] = <<>> BY <1>3 DEF IInv, CleanupsInPlace
    <2> QED BY <1>0, <1>3, <2>3, <2>4, <2>5, <2>6, <2>8, <2>9 DEF CleanupsInPlace
  <1>9. TogetherCleaned'
    <2> SUFFICES ASSUME NEW u \in Tests, NEW f \in TestScoped PROVE EntriesTogether(u, f)'
      BY DEF TogetherCleaned
    <2>1. EntriesTogether(u, f) BY DEF IInv, TogetherCleaned
    <2>2. \/ stage'[u] \notin Inside
          \/ (stage[u] \in Inside /\ checkpoint'[u] = checkpoint[u])
          \/ checkpoint'[u] = Len(cleanups[u])
      BY <1>3, <1>4 DEF Inside
    <2>3. \A k \in DOMAIN cleanups[u] : k <= Len(cleanups[u])
      <3>1. PICK s \in Seq(Entries) : s = cleanups[u] BY OwnerFacts, Types DEF IInv
      <3> QED BY <3>1
    <2> QED BY <1>0, <2>1, <2>2, <2>3 DEF EntriesTogether
  <1>10. AwaitedInPlace'
    <2> SUFFICES ASSUME NEW c \in Calls PROVE Awaits(c)' BY DEF AwaitedInPlace
    <2>1. Awaits(c) BY DEF IInv, AwaitedInPlace
    <2>2. CASE c[1] = t BY <1>0, <1>6, <2>2 DEF Awaits, Fixtures
    <2>3. CASE c[1] # t BY <1>0, <1>3, <2>1, <2>3, CallFacts DEF Awaits
    <2> QED BY <2>2, <2>3
  <1>11. OneInstance'
    <2> SUFFICES ASSUME NEW i \in Instances, Live(i) PROVE stage'[OwnerOf(i)] # "over"
      BY <1>0 DEF IInv, OneInstance, Live, OwnerOf
    <2>1. stage[OwnerOf(i)] # "over" /\ OwnerOf(i) \in Owners BY InstanceFacts DEF IInv, OneInstance
    <2>2. CASE OwnerOf(i) # t BY <1>3, <2>1, <2>2 DEF Owners
    <2>3. CASE OwnerOf(i) = t /\ stage[t] = "outer"
      <3>1. cleanups[t] = <<>> /\ cleaning[t] = <<>> BY <1>4, <2>3 DEF IInv, CleanupsInPlace
      <3>2. ToSet(cleanups[t]) = {} /\ ToSet(cleaning[t]) = {} BY <3>1 DEF ToSet
      <3>3. InstanceInPlace(i) BY DEF IInv, InstancesInPlace
      <3>4. i[1][1] = t /\ i[2] \in Fixtures /\ i[1] \in Calls BY <1>0, <2>3, InstanceFacts DEF OwnerOf
      <3>5. instance[i] # "setup" BY <1>6, <3>3, <3>4 DEF InstanceInPlace
      <3> QED BY <2>3, <3>2, <3>3, <3>5 DEF InstanceInPlace, Live
    <2>4. CASE OwnerOf(i) = t /\ stage[t] # "outer" BY <1>4, <2>4
    <2> QED BY <2>2, <2>3, <2>4
  <1> QED BY <1>1, <1>2, <1>7, <1>8, <1>9, <1>10, <1>11 DEF IInv

\* The clean-ups of a call leave the map, in two steps or in one.
LEMMA InnerIInv ==
  ASSUME IInv, NEW t \in Tests, InnerCleanup(t)
  PROVE  IInv'
  <1>0. /\ UNCHANGED <<attempt, checkpoint, at, abandoned, instance, value, cached, promise, detached>>
        /\ stage[t] = "after" /\ t \in Owners /\ t # File /\ File \in Owners
    BY OwnerFacts DEF InnerCleanup, resolved
  <1>1. TypedInv' BY MovesTyped DEF IInv
  <1>2. PICK s \in Seq(Entries) : s = cleanups[t] BY <1>0, Types DEF IInv
  <1>3. PICK k \in Nat : k = checkpoint[t] BY Types DEF IInv
  <1>4. stage[File] = "tests" /\ cleaning[t] = <<>> /\ ToSet(cleaning[t]) = {} /\ k <= Len(s)
    <2>1. cleaning[t] = <<>> BY <1>0 DEF IInv, CleanupsInPlace
    <2> QED BY <1>0, <1>2, <1>3, <2>1 DEF IInv, CleanupsInPlace, Inside, ToSet
  <1>5. /\ stage'[t] = "inner" /\ \A o \in Owners : o # t => /\ stage'[o] = stage[o] /\ cleanups'[o] = cleanups[o]
                                                            /\ cleaning'[o] = cleaning[o]
    BY <1>0, Types DEF IInv, InnerCleanup, Goes
  <1> DEFINE low == SubSeq(s, 1, k)
             high == Reverse(SubSeq(s, k + 1, Len(s)))
  <1>6. (cleaning'[t] = <<>> /\ cleanups'[t] = s) \/ (k < Len(s) /\ cleaning'[t] = high /\ cleanups'[t] = low)
    BY <1>0, <1>2, <1>3, <1>4, Types DEF IInv, InnerCleanup
  <1>7. /\ \A e : e \in ToSet(cleanups'[t]) => e \in ToSet(cleanups[t])
        /\ \A e : e \in ToSet(cleaning'[t]) => e \in ToSet(cleanups[t])
        /\ \A e : e \in ToSet(cleanups[t]) => e \in ToSet(cleanups'[t]) \cup ToSet(cleaning'[t])
        /\ \A e \in ToSet(cleanups'[t]) : \A d \in ToSet(cleaning'[t]) :
             \E n, m \in DOMAIN cleanups[t] : /\ cleanups[t][n] = e /\ cleanups[t][m] = d
                                              /\ n <= checkpoint[t] /\ ~(m <= checkpoint[t])
    <2>1. CASE cleaning'[t] = <<>> /\ cleanups'[t] = s BY <1>2, <2>1 DEF ToSet
    <2>2. CASE k < Len(s) /\ cleaning'[t] = high /\ cleanups'[t] = low
      <3>1. /\ \A e : e \in ToSet(low) <=> \E n \in DOMAIN s : n <= k /\ s[n] = e
            /\ \A e : e \in ToSet(high) <=> \E n \in DOMAIN s : n > k /\ s[n] = e
        BY <2>2, SplitSet
      <3>2. \A e : e \in ToSet(s) <=> \E n \in DOMAIN s : s[n] = e BY DEF ToSet
      <3>3. \A n \in DOMAIN s : ~(n <= k) <=> n > k OBVIOUS
      <3> HIDE DEF low, high
      <3> QED BY <1>2, <1>3, <2>2, <3>1, <3>2, <3>3
    <2> QED BY <1>6, <2>1, <2>2
  <1> HIDE DEF low, high
  <1>8. \A c \in Calls : c[1] = t /\ ~Idle(c) => c[3] = "around" /\ at[c] = "running"
    <2> SUFFICES ASSUME NEW c \in Calls, c[1] = t, ~Idle(c) PROVE c[3] = "around" /\ at[c] = "running" OBVIOUS
    <2>1. InPlace(c) /\ Current(c) BY StageOfCall DEF IInv, CallsInPlace
    <2>2. \A e \in CallsOf(t, {"after"}) : Idle(e) BY DEF IInv, CallsInPlace, InnerCleanup, IsOver, Idle
    <2>3. c[3] # "after" BY <2>1, <2>2 DEF CallsOf, Current
    <2> QED BY <1>0, <2>1, <2>3, CallFacts DEF InPlace, Before
  <1>9. CallsInPlace'
    <2>1. ASSUME NEW c \in Calls, ~Idle(c) PROVE InPlace(c)'
      <3>0. InPlace(c) /\ c[1] \in Tests /\ c[1] \in Owners BY <2>1, CallFacts, OwnerFacts DEF IInv, CallsInPlace
      <3>1. CASE c[1] # t BY <1>0, <1>5, <3>0, <3>1 DEF InPlace, Current
      <3>2. CASE c[1] = t
        <4>1. c[3] = "around" /\ at[c] = "running" BY <1>8, <2>1, <3>2
        <4> QED BY <1>0, <1>5, <3>0, <3>2, <4>1 DEF InPlace, Current, Before
      <3> QED BY <3>1, <3>2
    <2> QED BY <1>0, <2>1 DEF IInv, CallsInPlace, Idle
  <1>10. CleanupsInPlace'
    <2>1. \A u \in Tests : /\ cleaning'[u] # <<>> => stage'[u] \in {"inner", "outer"}
                           /\ stage'[u] \in {"waiting", "outer", "over"} => cleanups'[u] = <<>>
                           /\ stage'[u] \in Inside => checkpoint[u] <= Len(cleanups'[u])
      <3> TAKE u \in Tests
      <3>1. CASE u = t BY <1>5, <3>1 DEF Inside
      <3>2. CASE u # t BY <1>5, <3>2, OwnerFacts DEF IInv, CleanupsInPlace
      <3> QED BY <3>1, <3>2
    <2>2. \A o \in Owners : stage'[o] = "over" => cleaning'[o] = <<>> BY <1>5 DEF IInv, CleanupsInPlace
    <2>3. stage'[File] = "tests" /\ cleaning'[File] = <<>> BY <1>0, <1>4, <1>5 DEF IInv, CleanupsInPlace
    <2> QED BY <1>0, <2>1, <2>2, <2>3 DEF CleanupsInPlace
  <1>11. FileContext' BY <1>0 DEF IInv, FileContext
  <1>12. InstancesInPlace'
    <2> SUFFICES ASSUME NEW i \in Instances PROVE InstanceInPlace(i)' BY DEF InstancesInPlace
    <2>1. InstanceInPlace(i) /\ OwnerOf(i) \in Owners BY InstanceFacts DEF IInv, InstancesInPlace
    <2>2. CASE OwnerOf(i) # t BY <1>0, <1>5, <2>1, <2>2 DEF InstanceInPlace, OwnerOf
    <2>3. CASE OwnerOf(i) = t BY <1>0, <1>4, <1>7, <2>1, <2>3 DEF InstanceInPlace, OwnerOf
    <2> QED BY <2>2, <2>3
  <1>13. EntriesInPlace'
    <2> SUFFICES ASSUME NEW o \in Owners, NEW e \in ToSet(cleanups'[o]) \cup ToSet(cleaning'[o])
                 PROVE /\ e[1] = "uncache" => o \in Tests
                       /\ e[1] = "teardown" => OwnerOf(e[2]) = o
      BY DEF EntriesInPlace, OwnerOf
    <2>1. e \in ToSet(cleanups[o]) \cup ToSet(cleaning[o]) BY <1>5, <1>7
    <2> QED BY <2>1 DEF IInv, EntriesInPlace
  <1>14. TogetherCleaned'
    <2> SUFFICES ASSUME NEW u \in Tests, NEW f \in TestScoped PROVE EntriesTogether(u, f)'
      BY DEF TogetherCleaned
    <2>1. EntriesTogether(u, f) BY DEF IInv, TogetherCleaned
    <2>2. CASE u # t BY <1>0, <1>5, <2>1, <2>2, OwnerFacts DEF EntriesTogether
    <2>3. CASE u = t
      <3>1. ASSUME NEW e \in ToSet(cleanups'[t]), About(e, f)
            PROVE f \in cached[t] /\ \A d \in ToSet(cleaning'[t]) : ~About(d, f)
        <4>1. f \in cached[t] BY <1>7, <2>1, <2>3, <3>1 DEF EntriesTogether
        <4>2. \A n, m \in DOMAIN cleanups[t] : About(cleanups[t][n], f) /\ About(cleanups[t][m], f)
                => (n <= checkpoint[t] <=> m <= checkpoint[t])
          BY <1>0, <2>1, <2>3 DEF EntriesTogether, Inside
        <4> QED BY <1>7, <3>1, <4>1, <4>2
      <3>2. stage'[t] \notin Inside BY <1>5 DEF Inside
      <3>3. \A e \in ToSet(cleanups'[t]) : About(e, f)' => f \in cached'[t] /\ \A d \in ToSet(cleaning'[t]) : ~About(d, f)'
        BY <1>0, <3>1 DEF About
      <3> QED BY <2>3, <3>2, <3>3 DEF EntriesTogether
    <2> QED BY <2>2, <2>3
  <1>15. AwaitedInPlace'
    <2> SUFFICES ASSUME NEW c \in Calls PROVE Awaits(c)' BY DEF AwaitedInPlace
    <2>1. Awaits(c) /\ c[1] \in Owners BY CallFacts, OwnerFacts DEF IInv, AwaitedInPlace
    <2>2. CASE c[1] = t
      <3>1. at[c] \notin Fixtures BY <1>8, <2>2, OwnerFacts DEF Idle
      <3> QED BY <1>0, <3>1 DEF Awaits, Fixtures
    <2>3. CASE c[1] # t BY <1>0, <1>5, <2>1, <2>3 DEF Awaits
    <2> QED BY <2>2, <2>3
  <1>16. LiveIsCached'
    <2> SUFFICES ASSUME NEW i \in Instances, Live(i), i[2] \in TestScoped
                 PROVE i[2] \in cached[i[1][1]] \/ Td(i) \in ToSet(cleaning'[i[1][1]])
      BY <1>0 DEF LiveIsCached, Live, Td
    <2>1. i[2] \in cached[i[1][1]] \/ Td(i) \in ToSet(cleaning[i[1][1]]) BY DEF IInv, LiveIsCached
    <2> QED BY <1>4, <1>5, <2>1, InstanceFacts, OwnerFacts
  <1>17. OneInstance'
    <2>1. \A o \in Owners : stage[o] # "over" => stage'[o] # "over" BY <1>5
    <2>2. \A i \in Instances : OwnerOf(i) \in Owners BY InstanceFacts
    <2> QED BY <1>0, <2>1, <2>2 DEF IInv, OneInstance, Live, OwnerOf
  <1> QED BY <1>1, <1>9, <1>10, <1>11, <1>12, <1>13, <1>14, <1>15, <1>16, <1>17 DEF IInv

\* The clean-ups of a test or of the file leave the map: nobody of it is under way then.
LEMMA TakesAllIInv ==
  ASSUME IInv, NEW o \in Owners, (o \in Tests /\ OuterCleanup(o)) \/ (o = File /\ FileCleanup)
  PROVE  IInv'
  <1>0. /\ UNCHANGED <<attempt, checkpoint, at, abandoned, instance, value, cached, promise>>
        /\ File \in Owners /\ File \notin Tests /\ cleaning[o] = <<>>
    <2>1. o \in Tests => cleaning[o] = <<>> BY DEF IInv, CleanupsInPlace, OuterCleanup
    <2>2. o = File => cleaning[o] = <<>> BY OwnerFacts DEF IInv, CleanupsInPlace, FileCleanup, OuterCleanup
    <2> QED BY <2>1, <2>2, OwnerFacts DEF OuterCleanup, FileCleanup, resolved
  <1>1. TypedInv' BY MovesTyped, FileTyped DEF IInv
  <1>2. PICK s \in Seq(Entries) : s = cleanups[o] BY Types DEF IInv
  <1>3. /\ cleaning'[o] = Reverse(s) /\ cleanups'[o] = <<>>
        /\ detached' = detached \cup {c \in Calls : c[1] = o /\ at[c] # "none"}
        /\ \A p \in Owners : p # o => stage'[p] = stage[p] /\ cleanups'[p] = cleanups[p] /\ cleaning'[p] = cleaning[p]
    BY <1>2, Types DEF IInv, OuterCleanup, FileCleanup, CleansUp, Goes
  <1>4. /\ ToSet(cleaning[o]) = {} /\ ToSet(cleanups'[o]) = {} /\ ToSet(cleaning'[o]) = ToSet(cleanups[o])
    <2>1. ToSet(<<>>) = {} BY DEF ToSet
    <2> QED BY <1>0, <1>2, <1>3, <2>1, ReverseSet
  <1>5. (o \in Tests /\ stage'[o] = "outer" /\ stage[o] \in {"around", "aroundEnds"})
        \/ (o = File /\ stage'[o] = "cleaning" /\ \A u \in Tests : stage[u] = "over")
    BY <1>0, Types DEF IInv, OuterCleanup, FileCleanup, Goes
  <1>6. \A c \in Calls : c[1] = o \/ o = File => Idle(c)
    <2> SUFFICES ASSUME NEW c \in Calls, c[1] = o \/ o = File, ~Idle(c) PROVE FALSE OBVIOUS
    <2>0. c[1] \in Tests /\ c[3] \in Before \cup {"around", "fn", "after"} BY CallFacts
    <2>1. InPlace(c) /\ Current(c) /\ stage[c[1]] \in Active \cup {"inner", "aroundEnds"} BY StageOfCall DEF IInv, CallsInPlace
    <2>2. o # File BY <1>0, <1>5, <2>0, <2>1 DEF Active, Inside
    <2>3. c[3] = "around" BY <1>0, <1>5, <2>0, <2>1, <2>2 DEF InPlace, Before
    <2>4. OuterCleanup(o) BY <2>2
    <2>5. \A e \in CallsOf(o, {"around"}) : Idle(e) BY <2>4 DEF OuterCleanup, Idle
    <2> QED BY <2>1, <2>2, <2>3, <2>5 DEF CallsOf, Current
  <1>7. CallsInPlace'
    <2>1. ASSUME NEW c \in Calls, ~Idle(c) PROVE InPlace(c)'
      <3>0. InPlace(c) /\ c[1] \in Tests /\ c[1] \in Owners BY <2>1, CallFacts, OwnerFacts DEF IInv, CallsInPlace
      <3>1. c[1] # o BY <1>6, <2>1
      <3> QED BY <1>0, <1>3, <3>0, <3>1 DEF InPlace, Current
    <2>2. \A c \in detached' : at[c] = "over" BY <1>3, <1>6 DEF IInv, CallsInPlace, Idle
    <2> QED BY <1>0, <2>1, <2>2 DEF IInv, CallsInPlace, Idle
  <1>8. CleanupsInPlace'
    <2>1. \A u \in Tests : /\ cleaning'[u] # <<>> => stage'[u] \in {"inner", "outer"}
                           /\ stage'[u] \in {"waiting", "outer", "over"} => cleanups'[u] = <<>>
                           /\ stage'[u] \in Inside => checkpoint[u] <= Len(cleanups'[u])
      <3> TAKE u \in Tests
      <3>1. CASE u = o BY <1>0, <1>3, <1>5, <3>1 DEF Inside
      <3>2. CASE u # o BY <1>3, <3>2, OwnerFacts DEF IInv, CleanupsInPlace
      <3> QED BY <3>1, <3>2
    <2>2. \A p \in Owners : stage'[p] = "over" => cleaning'[p] = <<>> BY <1>3, <1>5 DEF IInv, CleanupsInPlace
    <2>3. CASE o = File
      <3>1. \A u \in Tests : stage'[u] = "over" BY <1>3, <1>5, <2>3, OwnerFacts
      <3> QED BY <1>0, <1>3, <1>5, <2>1, <2>2, <2>3, <3>1, OwnerFacts DEF CleanupsInPlace
    <2>4. CASE o # File
      <3>1. stage[o] # "over" /\ o \in Tests BY <1>5, <2>4
      <3>2. stage[File] = "tests" /\ cleaning[File] = <<>> BY <3>1 DEF IInv, CleanupsInPlace
      <3>3. stage'[File] = "tests" /\ cleaning'[File] = <<>> BY <1>0, <1>3, <2>4, <3>2
      <3> QED BY <1>0, <2>1, <2>2, <3>3 DEF CleanupsInPlace
    <2> QED BY <2>3, <2>4
  <1>9. FileContext' BY <1>0 DEF IInv, FileContext
  <1>10. InstancesInPlace'
    <2> SUFFICES ASSUME NEW i \in Instances PROVE InstanceInPlace(i)' BY DEF InstancesInPlace
    <2>1. InstanceInPlace(i) /\ OwnerOf(i) \in Owners BY InstanceFacts DEF IInv, InstancesInPlace
    <2>2. CASE OwnerOf(i) # o BY <1>0, <1>3, <2>1, <2>2 DEF InstanceInPlace, OwnerOf
    <2>3. CASE OwnerOf(i) = o BY <1>0, <1>4, <2>1, <2>3 DEF InstanceInPlace, OwnerOf
    <2> QED BY <2>2, <2>3
  <1>11. EntriesInPlace'
    <2> SUFFICES ASSUME NEW p \in Owners, NEW e \in ToSet(cleanups'[p]) \cup ToSet(cleaning'[p])
                 PROVE /\ e[1] = "uncache" => p \in Tests
                       /\ e[1] = "teardown" => OwnerOf(e[2]) = p
      BY DEF EntriesInPlace, OwnerOf
    <2>1. e \in ToSet(cleanups[p]) \cup ToSet(cleaning[p]) BY <1>3, <1>4
    <2> QED BY <2>1 DEF IInv, EntriesInPlace
  <1>12. TogetherCleaned'
    <2> SUFFICES ASSUME NEW u \in Tests, NEW f \in TestScoped PROVE EntriesTogether(u, f)'
      BY DEF TogetherCleaned
    <2>1. EntriesTogether(u, f) BY DEF IInv, TogetherCleaned
    <2>2. CASE u # o BY <1>0, <1>3, <2>1, <2>2, OwnerFacts DEF EntriesTogether
    <2>3. CASE u = o BY <1>0, <1>4, <1>5, <2>3 DEF EntriesTogether, Inside
    <2> QED BY <2>2, <2>3
  <1>13. AwaitedInPlace'
    <2> SUFFICES ASSUME NEW c \in Calls PROVE Awaits(c)' BY DEF AwaitedInPlace
    <2>1. Awaits(c) /\ c[1] \in Owners BY CallFacts, OwnerFacts DEF IInv, AwaitedInPlace
    <2>2. CASE c[1] = o
      <3>1. at[c] \notin Fixtures BY <1>6, <2>2, OwnerFacts DEF Idle
      <3> QED BY <1>0, <3>1 DEF Awaits, Fixtures
    <2>3. CASE c[1] # o BY <1>0, <1>3, <2>1, <2>3 DEF Awaits
    <2> QED BY <2>2, <2>3
  <1>14. LiveIsCached'
    <2> SUFFICES ASSUME NEW i \in Instances, Live(i), i[2] \in TestScoped
                 PROVE i[2] \in cached[i[1][1]] \/ Td(i) \in ToSet(cleaning'[i[1][1]])
      BY <1>0 DEF LiveIsCached, Live, Td
    <2>1. i[2] \in cached[i[1][1]] \/ Td(i) \in ToSet(cleaning[i[1][1]]) BY DEF IInv, LiveIsCached
    <2> QED BY <1>3, <1>4, <2>1, InstanceFacts, OwnerFacts
  <1>15. OneInstance'
    <2>1. \A p \in Owners : stage[p] # "over" => stage'[p] # "over" BY <1>3, <1>5
    <2>2. \A i \in Instances : OwnerOf(i) \in Owners BY InstanceFacts
    <2> QED BY <1>0, <2>1, <2>2 DEF IInv, OneInstance, Live, OwnerOf
  <1> QED BY <1>1, <1>7, <1>8, <1>9, <1>10, <1>11, <1>12, <1>13, <1>14, <1>15 DEF IInv

LEMMA FileEndsIInv ==
  ASSUME IInv, FileEnds
  PROVE  IInv'
  <1>0. /\ UNCHANGED <<attempt, checkpoint, at, abandoned, instance, value, cached, promise, cleanups, cleaning, detached>>
        /\ File \in Owners /\ File \notin Tests /\ stage[File] = "cleaning" /\ cleaning[File] = <<>>
    BY OwnerFacts DEF FileEnds, resolved
  <1>1. TypedInv' BY FileTyped DEF IInv
  <1>2. stage'[File] = "over" /\ \A p \in Owners : p # File => stage'[p] = stage[p]
    BY <1>0, Types DEF IInv, FileEnds, Goes
  <1>3. FileContext' /\ InstancesInPlace' /\ EntriesInPlace' /\ LiveIsCached' BY <1>0, StageStep
  <1>4. \A t \in Tests : stage'[t] = stage[t] BY <1>2, OwnerFacts
  <1>5. CallsInPlace' BY <1>0, <1>4, CallFacts DEF IInv, CallsInPlace, Idle, InPlace, Current
  <1>6. CleanupsInPlace'
    <2>1. cleanups[File] = <<>> /\ \A t \in Tests : stage[t] = "over" BY <1>0 DEF IInv, CleanupsInPlace
    <2> QED BY <1>0, <1>2, <1>4, <2>1 DEF IInv, CleanupsInPlace
  <1>7. TogetherCleaned' BY <1>0, <1>4 DEF IInv, TogetherCleaned, EntriesTogether
  <1>8. AwaitedInPlace' BY <1>0 DEF IInv, AwaitedInPlace, Awaits
  <1>9. OneInstance'
    <2> SUFFICES ASSUME NEW i \in Instances, Live(i) PROVE stage'[OwnerOf(i)] # "over"
      BY <1>0 DEF IInv, OneInstance, Live, OwnerOf
    <2>1. stage[OwnerOf(i)] # "over" /\ OwnerOf(i) \in Owners /\ i[1] \in Calls /\ i[2] \in Fixtures
      BY InstanceFacts DEF IInv, OneInstance
    <2>2. CASE OwnerOf(i) = File
      <3>1. ToSet(cleanups[File]) = {} /\ ToSet(cleaning[File]) = {}
        BY <1>0 DEF IInv, CleanupsInPlace, ToSet
      <3>2. InstanceInPlace(i) BY DEF IInv, InstancesInPlace
      <3>3. instance[i] = "setup" BY <2>2, <3>1, <3>2 DEF InstanceInPlace, Live
      <3>4. at[i[1]] \in Fixtures BY <2>1, <3>2, <3>3 DEF InstanceInPlace
      <3> QED BY <1>0, <2>1, <3>4, StageOfAwaiting, StageOfCall
    <2>3. CASE OwnerOf(i) # File BY <1>2, <2>1, <2>3
    <2> QED BY <2>2, <2>3
  <1> QED BY <1>1, <1>3, <1>5, <1>6, <1>7, <1>8, <1>9 DEF IInv

-----------------------------------------------------------------------------
\* runFixtureCleanups calls one function, or one returns.
LEMMA CleaningIInv ==
  ASSUME IInv, NEW o \in Owners, NEW fails \in BOOLEAN,
         Uncaches(o) \/ TeardownStarts(o) \/ TeardownEnds(o, fails)
  PROVE  IInv'
  <1>0. /\ UNCHANGED <<stage, attempt, checkpoint, at, abandoned, value, promise, cleanups, detached>>
        /\ cleaning[o] # <<>> /\ File \in Owners /\ File \notin Tests
    BY OwnerFacts DEF Uncaches, TeardownStarts, TeardownEnds, runner
  <1>1. TypedInv' BY CleaningTyped DEF IInv
  <1>2. PICK e \in Entries : e = Head(cleaning[o]) BY <1>0, HeadFacts DEF IInv, TypedInv
  <1>3. PICK s \in Seq(Entries) : s = cleaning[o] BY Types DEF IInv
  <1>4. PICK r \in Seq(Entries) : r = Tail(cleaning[o]) BY <1>0, HeadFacts DEF IInv, TypedInv
  <1>5. ToSet(s) = {e} \cup ToSet(r)
    <2>1. s # <<>> /\ e = s[1] /\ r = Tail(s) BY <1>0, <1>2, <1>3, <1>4
    <2>2. PICK n \in Nat : n = Len(s) OBVIOUS
    <2>3. n > 0 /\ DOMAIN s = 1..n /\ DOMAIN r = 1..(n - 1) /\ \A k \in 1..(n - 1) : r[k] = s[k + 1]
      BY <2>1, <2>2
    <2>4. \A k \in 1..n : k = 1 \/ (k - 1 \in 1..(n - 1) /\ (k - 1) + 1 = k) BY <2>3
    <2>5. 1 \in 1..n /\ \A k \in 1..(n - 1) : k + 1 \in 1..n BY <2>3
    <2>6. /\ \A x : x \in ToSet(s) <=> \E k \in 1..n : s[k] = x
          /\ \A x : x \in ToSet(r) <=> \E k \in 1..(n - 1) : r[k] = x
      BY <2>3 DEF ToSet
    <2>7. ASSUME NEW k \in 1..n PROVE s[k] = e \/ s[k] \in ToSet(r)
      <3>1. CASE k = 1 BY <2>1, <3>1
      <3>2. CASE k - 1 \in 1..(n - 1) /\ (k - 1) + 1 = k
        <4>1. PICK m \in 1..(n - 1) : k = m + 1 BY <3>2
        <4>2. r[m] = s[k] BY <2>3, <4>1
        <4> QED BY <2>6, <4>2
      <3> QED BY <2>4, <3>1, <3>2
    <2>8. ASSUME NEW k \in 1..(n - 1) PROVE r[k] \in ToSet(s) BY <2>3, <2>5, <2>6
    <2>9. e \in ToSet(s) BY <2>1, <2>5, <2>6
    <2>10. \A x : x \in ToSet(s) <=> x \in {e} \cup ToSet(r) BY <2>6, <2>7, <2>8, <2>9
    <2> QED BY <2>10
  <1>6. /\ e[1] = "uncache" => o \in Tests /\ e[2] \in TestScoped /\ e = Un(e[2])
        /\ e[1] = "teardown" => e[2] \in Instances /\ e = Td(e[2]) /\ OwnerOf(e[2]) = o
    <2>1. e \in ToSet(cleaning[o]) BY <1>3, <1>5
    <2>2. e[1] = "uncache" => o \in Tests BY <2>1 DEF IInv, EntriesInPlace
    <2>3. e[1] = "teardown" => OwnerOf(e[2]) = o BY <2>1 DEF IInv, EntriesInPlace
    <2> QED BY <1>0, <1>2, <2>2, <2>3, HeadFacts DEF IInv, TypedInv
  \* The three cases, i being the instance torn down.
  <1>7. \/ /\ e[1] = "uncache" /\ cached' = [cached EXCEPT ![o] = @ \ {e[2]}] /\ instance' = instance
           /\ cleaning' = [cleaning EXCEPT ![o] = r]
        \/ /\ e[1] = "teardown" /\ cached' = cached /\ instance[e[2]] = "inUse"
           /\ instance' = [instance EXCEPT ![e[2]] = "tearing"] /\ cleaning' = cleaning
        \/ /\ e[1] = "teardown" /\ cached' = cached /\ instance[e[2]] = "tearing"
           /\ instance' = [instance EXCEPT ![e[2]] = "over"] /\ cleaning' = [cleaning EXCEPT ![o] = r]
    BY <1>2, <1>4 DEF Uncaches, TeardownStarts, TeardownEnds, Uncached, runner
  <1>8. /\ \A p \in Owners : p # o => cleaning'[p] = cleaning[p]
        /\ (cleaning'[o] = s) \/ (cleaning'[o] = r)
        /\ \A t \in Tests : t # o => cached'[t] = cached[t]
        /\ \A p \in Owners : cleaning[p] = <<>> => cleaning'[p] = <<>>
        /\ \A p \in Owners : \A d \in ToSet(cleaning'[p]) : d \in ToSet(cleaning[p])
    <2>1. \A p \in Owners : p # o => cleaning'[p] = cleaning[p] BY <1>7, Types DEF IInv
    <2>2. (cleaning'[o] = s) \/ (cleaning'[o] = r) BY <1>3, <1>7, Types DEF IInv
    <2>3. \A t \in Tests : t # o => cached'[t] = cached[t] BY <1>7, Types DEF IInv
    <2>4. \A d \in ToSet(cleaning'[o]) : d \in ToSet(cleaning[o]) BY <1>3, <1>5, <2>2
    <2> QED BY <1>0, <2>1, <2>2, <2>3, <2>4
  <1>9. \A c \in Calls : c[1] = o => at[c] \notin Fixtures BY <1>0, NobodyAwaits, CallFacts
  <1>10. CallsInPlace' BY <1>0 DEF IInv, CallsInPlace, Idle, InPlace, Current
  <1>11. CleanupsInPlace'
    <2>1. \A t \in Tests : cleaning'[t] # <<>> => stage[t] \in {"inner", "outer"}
      BY <1>8, OwnerFacts DEF IInv, CleanupsInPlace
    <2>2. \A p \in Owners : stage[p] = "over" => cleaning'[p] = <<>> BY <1>8 DEF IInv, CleanupsInPlace
    <2>3. stage[File] = "tests" => cleaning'[File] = <<>> BY <1>0, <1>8 DEF IInv, CleanupsInPlace
    <2> QED BY <1>0, <2>1, <2>2, <2>3 DEF IInv, CleanupsInPlace
  <1>12. \A i \in Instances : \/ instance'[i] = instance[i]
                              \/ /\ i = e[2] /\ e[1] = "teardown" /\ instance[i] \in {"inUse", "tearing"}
                                 /\ instance'[i] \in {"tearing", "over"}
    BY <1>6, <1>7, Types DEF IInv
  <1>13. FileContext'
    <2> SUFFICES ASSUME NEW f \in FileScoped
                 PROVE  /\ promise[f] # None => /\ promise[f][2] = f /\ instance'[promise[f]] = "setup"
                                                /\ value[File][f] = None
                        /\ value[File][f] # None => /\ value[File][f][2] = f
                                                    /\ instance'[value[File][f]] \in {"inUse", "tearing", "over"}
      BY <1>0 DEF FileContext
    <2>1. /\ promise[f] # None => /\ promise[f][2] = f /\ instance[promise[f]] = "setup"
                                  /\ value[File][f] = None
          /\ value[File][f] # None => /\ value[File][f][2] = f
                                      /\ instance[value[File][f]] \in {"inUse", "tearing", "over"}
      BY DEF IInv, FileContext
    <2>2. promise[f] \in Instances \cup {None} /\ value[File][f] \in Instances \cup {None}
      BY <1>0, Types DEF IInv, Fixtures
    <2> QED BY <1>12, <2>1, <2>2
  <1>14. InstancesInPlace'
    <2> SUFFICES ASSUME NEW i \in Instances PROVE InstanceInPlace(i)' BY DEF InstancesInPlace
    <2>1. InstanceInPlace(i) /\ OwnerOf(i) \in Owners BY InstanceFacts DEF IInv, InstancesInPlace
    <2>2. instance'[i] = "setup" => instance[i] = "setup" BY <1>12
    <2>3. instance'[i] \in {"inUse", "tearing"} => instance[i] \in {"inUse", "tearing"} BY <1>12
    <2>4. instance'[i] \in {"inUse", "tearing"} =>
            /\ Td(i) \in ToSet(cleanups[OwnerOf(i)]) \cup ToSet(cleaning'[OwnerOf(i)])
            /\ i[2] \in FileScoped => value[File][i[2]] = i
      <3> SUFFICES ASSUME instance'[i] \in {"inUse", "tearing"}
                   PROVE Td(i) \in ToSet(cleanups[OwnerOf(i)]) \cup ToSet(cleaning'[OwnerOf(i)])
        BY <2>1, <2>3 DEF InstanceInPlace
      <3>1. Td(i) \in ToSet(cleanups[OwnerOf(i)]) \cup ToSet(cleaning[OwnerOf(i)]) BY <2>1, <2>3 DEF InstanceInPlace
      <3>2. CASE OwnerOf(i) # o BY <1>8, <2>1, <3>1, <3>2
      <3>3. CASE OwnerOf(i) = o /\ cleaning'[o] = s BY <1>3, <3>1, <3>3
      <3>4. CASE OwnerOf(i) = o /\ cleaning'[o] = r /\ r # s
        <4>1. Td(i) # e
          <5>1. CASE e[1] = "uncache" BY <5>1 DEF Td
          <5>2. CASE e[1] = "teardown"
            <6>1. cleaning' # cleaning BY <1>3, <3>4
            <6>2. instance'[e[2]] = "over" BY <1>6, <1>7, <5>2, <6>1, Types DEF IInv
            <6> QED BY <6>2 DEF Td
          <5> QED BY <1>7, <5>1, <5>2
        <4> QED BY <1>3, <1>5, <3>1, <3>4, <4>1
      <3> QED BY <1>8, <3>2, <3>3, <3>4
    <2>5. instance'[i] = "tearing" => cleaning'[OwnerOf(i)] # <<>> /\ Head(cleaning'[OwnerOf(i)]) = Td(i)
      <3> SUFFICES ASSUME instance'[i] = "tearing"
                   PROVE cleaning'[OwnerOf(i)] # <<>> /\ Head(cleaning'[OwnerOf(i)]) = Td(i)
        OBVIOUS
      <3>1. CASE instance[i] = "tearing"
        <4>1. cleaning[OwnerOf(i)] # <<>> /\ Head(cleaning[OwnerOf(i)]) = Td(i) BY <2>1, <3>1 DEF InstanceInPlace
        <4>2. CASE OwnerOf(i) # o BY <1>8, <2>1, <4>1, <4>2
        <4>3. CASE OwnerOf(i) = o
          <5>1. e = Td(i) BY <1>2, <4>1, <4>3
          <5>2. e[1] = "teardown" /\ e[2] = i BY <5>1 DEF Td
          <5>3. cleaning' = cleaning BY <1>7, <3>1, <5>2, Types DEF IInv
          <5> QED BY <4>1, <5>3
        <4> QED BY <4>2, <4>3
      <3>2. CASE instance[i] # "tearing"
        <4>1. i = e[2] /\ e[1] = "teardown" BY <1>12, <3>2
        <4>2. cleaning' = cleaning BY <1>7, <3>2, <4>1, Types DEF IInv
        <4> QED BY <1>0, <1>2, <1>6, <4>1, <4>2
      <3> QED BY <3>1, <3>2
    <2> QED BY <1>0, <2>1, <2>2, <2>4, <2>5 DEF InstanceInPlace, OwnerOf
  <1>15. EntriesInPlace'
    <2> SUFFICES ASSUME NEW p \in Owners, NEW d \in ToSet(cleanups[p]) \cup ToSet(cleaning'[p])
                 PROVE /\ d[1] = "uncache" => p \in Tests
                       /\ d[1] = "teardown" => OwnerOf(d[2]) = p
      BY <1>0 DEF EntriesInPlace, OwnerOf
    <2>1. d \in ToSet(cleanups[p]) \cup ToSet(cleaning[p]) BY <1>8
    <2> QED BY <2>1 DEF IInv, EntriesInPlace
  \* What is still asked for is not what is taken from the cache.
  <1>16. \A t \in Tests : \A f \in TestScoped : \A d \in ToSet(cleanups[t]) : About(d, f) => f \in cached'[t]
    <2> SUFFICES ASSUME NEW t \in Tests, NEW f \in TestScoped, NEW d \in ToSet(cleanups[t]), About(d, f)
                 PROVE f \in cached'[t]
      OBVIOUS
    <2>1. f \in cached[t] /\ \A b \in ToSet(cleaning[t]) : ~About(b, f) BY DEF IInv, TogetherCleaned, EntriesTogether
    <2>2. CASE t # o BY <1>8, <2>1, <2>2
    <2>3. CASE t = o
      <3>1. e # Un(f) BY <1>3, <1>5, <2>1, <2>3 DEF About
      <3>2. e[1] = "uncache" => e[2] # f BY <1>6, <3>1
      <3> QED BY <1>7, <2>1, <2>3, <3>2, Types DEF IInv
    <2> QED BY <2>2, <2>3
  <1>17. TogetherCleaned'
    <2> SUFFICES ASSUME NEW t \in Tests, NEW f \in TestScoped PROVE EntriesTogether(t, f)'
      BY DEF TogetherCleaned
    <2>1. EntriesTogether(t, f) BY DEF IInv, TogetherCleaned
    <2>2. \A d \in ToSet(cleaning'[t]) : d \in ToSet(cleaning[t]) BY <1>8, OwnerFacts
    <2> QED BY <1>0, <1>16, <2>1, <2>2 DEF EntriesTogether, About
  <1>18. AwaitedInPlace'
    <2> SUFFICES ASSUME NEW c \in Calls, at[c] \in TestScoped PROVE Awaits(c)' BY <1>0 DEF AwaitedInPlace, Awaits
    <2>1. Awaits(c) /\ c[1] \in Tests BY CallFacts DEF IInv, AwaitedInPlace
    <2>2. at[c] \in Fixtures BY DEF Fixtures
    <2>3. c[1] # o BY <1>9, <2>2
    <2>4. cached'[c[1]] = cached[c[1]] BY <1>8, <2>1, <2>3
    <2>5. PICK i \in Instances : i = <<c, at[c]>> BY <2>2, CallFacts
    <2>6. instance'[i] = instance[i]
      <3>1. ~(i[2] \in FileScoped) /\ i[1][1] = c[1] BY <2>2, <2>5, Scopes
      <3>2. OwnerOf(i) # o BY <2>3, <3>1 DEF OwnerOf
      <3> QED BY <1>6, <1>12, <3>2
    <2> QED BY <1>0, <2>1, <2>4, <2>5, <2>6 DEF Awaits, About
  <1>19. \A i \in Instances : Live(i)' => Live(i) BY <1>12 DEF Live
  <1>20. LiveIsCached'
    <2> SUFFICES ASSUME NEW i \in Instances, Live(i)', i[2] \in TestScoped
                 PROVE i[2] \in cached'[i[1][1]] \/ Td(i) \in ToSet(cleaning'[i[1][1]])
      BY DEF LiveIsCached, Td
    <2>0. i[1][1] \in Tests /\ i[1][1] \in Owners /\ OwnerOf(i) = i[1][1] /\ i[1] \in Calls /\ i[2] \in Fixtures
      BY InstanceFacts, OwnerFacts, Scopes DEF OwnerOf
    <2>1. i[2] \in cached[i[1][1]] \/ Td(i) \in ToSet(cleaning[i[1][1]]) BY <1>19 DEF IInv, LiveIsCached
    <2>2. CASE i[1][1] # o BY <1>8, <2>0, <2>1, <2>2
    <2>3. CASE i[1][1] = o
      <3>1. InstanceInPlace(i)' BY <1>14 DEF InstancesInPlace
      <3>2. instance'[i] # "setup" BY <1>0, <1>9, <2>0, <2>3, <3>1 DEF InstanceInPlace
      <3>3. Td(i) \in ToSet(cleanups[o]) \cup ToSet(cleaning'[o])
        BY <1>0, <2>0, <2>3, <3>1, <3>2 DEF InstanceInPlace, Live, Td, OwnerOf
      <3>4. About(Td(i), i[2]) BY DEF About, Td
      <3> QED BY <1>16, <2>0, <2>3, <3>3, <3>4
    <2> QED BY <2>2, <2>3
  <1>21. OneInstance'
    <2> SUFFICES ASSUME NEW i \in Instances, Live(i)'
                 PROVE /\ stage[OwnerOf(i)] # "over"
                       /\ \A j \in Instances \ {i} : Live(j)' => <<j[2], OwnerOf(j)>> # <<i[2], OwnerOf(i)>>
      BY <1>0 DEF OneInstance, OwnerOf
    <2> QED BY <1>19 DEF IInv, OneInstance
  <1> QED BY <1>1, <1>10, <1>11, <1>13, <1>14, <1>15, <1>17, <1>18, <1>20, <1>21 DEF IInv

-----------------------------------------------------------------------------
\* A call goes on, at its beginning or after the fixture that it awaited.
CallGoes(c, last) ==
  LET t == c[1] IN
  /\ last \in Nat /\ GoesOn(c, last)
  /\ UNCHANGED <<stage, attempt, checkpoint, cleaning, threw, abandoned, detached>>
  /\ value'[File] = value[File]
  /\ Current(c) /\ stage[t] \in Active
  /\ c[3] = "around" <=> stage[t] = "around"
  /\ c[3] \in Before => stage[t] = "before"
  /\ c[3] \in {"fn", "after"} => stage[t] = c[3]
  /\ \A f \in Fixtures : instance[<<c, f>>] # "setup"
  /\ at[c] # "over"
  /\ \/ cleanups' = cleanups /\ at[c] \notin TestScoped
     \/ /\ at[c] \in TestScoped /\ instance[<<c, at[c]>>] = "inUse" /\ at[c] \in cached[t]
        /\ cleanups' = [cleanups EXCEPT ![t] = Append(@, Un(at[c]))]
        /\ stage[t] \in Inside =>
             \A k \in DOMAIN cleanups[t] : About(cleanups[t][k], at[c]) => k > checkpoint[t]

LEMMA BeginGoes ==
  ASSUME IInv, NEW c \in Calls, Begin(c)
  PROVE  CallGoes(c, 0)
  <1>0. c[1] \in Tests /\ c[3] \in Before \cup {"around", "fn", "after"} BY CallFacts
  <1>1. stage[c[1]] \in Active /\ (c[3] = "around" <=> stage[c[1]] = "around")
        /\ (c[3] \in Before => stage[c[1]] = "before") /\ (c[3] \in {"fn", "after"} => stage[c[1]] = c[3])
    BY <1>0 DEF Begin, MayBegin, Active, Inside, Before
  <1>2. at[c] = "none" /\ at[c] \notin Fixtures /\ at[c] \notin TestScoped BY OwnerFacts DEF Begin, Fixtures
  <1>3. ASSUME NEW f \in Fixtures PROVE instance[<<c, f>>] # "setup"
    <2>1. PICK i \in Instances : i = <<c, f>> BY CallFacts
    <2>2. InstanceInPlace(i) /\ i[1] = c /\ i[2] = f BY <2>1 DEF IInv, InstancesInPlace
    <2> QED BY <1>2, <2>1, <2>2 DEF InstanceInPlace
  <1> QED BY <1>1, <1>2, <1>3 DEF Begin, CallGoes, runner

LEMMA AfterFixtureGoes ==
  ASSUME IInv, NEW c \in Calls, AfterFixture(c)
  PROVE  CallGoes(c, Place(c, at[c]))
  <1>0. c[1] \in Tests /\ c[1] # File /\ c[1] \in Owners /\ c[3] \in Before \cup {"around", "fn", "after"}
        /\ File \in Owners
    BY CallFacts, OwnerFacts
  <1>1. PICK f \in Fixtures : f = at[c] BY DEF AfterFixture
  <1>2. ~Idle(c) /\ stage[c[1]] \in Active BY <1>1, StageOfAwaiting
  <1>3. Current(c) /\ c \notin detached /\ InPlace(c) /\ (stage[c[1]] \in Inside => c[3] # "around")
    BY <1>1, <1>2, StageOfCall DEF IInv, CallsInPlace
  <1>4. (c[3] = "around" <=> stage[c[1]] = "around")
        /\ (c[3] \in Before => stage[c[1]] = "before") /\ (c[3] \in {"fn", "after"} => stage[c[1]] = c[3])
    BY <1>0, <1>2, <1>3 DEF InPlace, Active, Inside, Before
  <1>5. Place(c, f) \in Nat BY <1>1, PlaceOfAwaited DEF IInv
  <1>6. value'[File] = value[File]
    <2>1. \E i : value' = [value EXCEPT ![c[1]][f] = i] BY <1>1 DEF AfterFixture
    <2> QED BY <1>0, <2>1, Types DEF IInv
  <1>7. ASSUME NEW g \in Fixtures PROVE instance[<<c, g>>] # "setup"
    <2>1. PICK i \in Instances : i = <<c, g>> BY CallFacts
    <2>2. InstanceInPlace(i) /\ i[1] = c /\ i[2] = g BY <2>1 DEF IInv, InstancesInPlace
    <2>3. CASE g \in TestScoped
      <3>1. CASE f = g BY <1>1, <2>3, <3>1 DEF AfterFixture
      <3>2. CASE f # g BY <1>1, <2>1, <2>2, <3>2 DEF InstanceInPlace
      <3> QED BY <3>1, <3>2
    <2>4. CASE g \in FileScoped
      <3>1. CASE f = g
        <4>1. g \notin TestScoped BY <2>4, Scopes
        <4>2. value[File][g] # None BY <1>1, <3>1, <4>1 DEF AfterFixture
        <4>3. promise[g] = None BY <2>4, <4>2 DEF IInv, FileContext
        <4>4. promise[g] # i BY <4>3, OwnerFacts, <2>1
        <4> QED BY <2>1, <2>2, <2>4, <4>4 DEF InstanceInPlace
      <3>2. CASE f # g BY <1>1, <2>1, <2>2, <3>2 DEF InstanceInPlace
      <3> QED BY <3>1, <3>2
    <2> QED BY <2>3, <2>4 DEF Fixtures
  <1>8. \/ cleanups' = cleanups /\ at[c] \notin TestScoped
        \/ /\ at[c] \in TestScoped /\ instance[<<c, at[c]>>] = "inUse" /\ at[c] \in cached[c[1]]
           /\ cleanups' = [cleanups EXCEPT ![c[1]] = Append(@, Un(at[c]))]
           /\ stage[c[1]] \in Inside =>
                \A k \in DOMAIN cleanups[c[1]] : About(cleanups[c[1]][k], at[c]) => k > checkpoint[c[1]]
    <2>1. CASE f \notin TestScoped BY <1>1, <2>1 DEF AfterFixture
    <2>2. CASE f \in TestScoped
      <3>1. Awaits(c) BY DEF IInv, AwaitedInPlace
      <3>2. /\ instance[<<c, f>>] \in {"setup", "inUse"} /\ f \in cached[c[1]]
            /\ stage[c[1]] \in Inside =>
                 \A k \in DOMAIN cleanups[c[1]] : About(cleanups[c[1]][k], f) => k > checkpoint[c[1]]
        BY <1>1, <1>3, <2>2, <3>1 DEF Awaits
      <3>3. cleanups' = [cleanups EXCEPT ![c[1]] = Append(@, Un(f))]
        BY <1>1, <1>3, <2>2 DEF AfterFixture, Pushed, Un
      <3> QED BY <1>1, <1>7, <2>2, <3>2, <3>3
    <2> QED BY <2>1, <2>2
  <1>9. GoesOn(c, Place(c, f)) /\ UNCHANGED <<stage, attempt, checkpoint, cleaning, threw, abandoned, detached>>
    BY <1>1 DEF AfterFixture, runner
  <1>10. at[c] # "over" BY <1>1, OwnerFacts
  <1> QED BY <1>1, <1>2, <1>3, <1>4, <1>5, <1>6, <1>7, <1>8, <1>9, <1>10 DEF CallGoes

\* What is there of the next fixture before it is set up: nothing.
LEMMA NothingYet ==
  ASSUME IInv, NEW c \in Calls, NEW f \in Fixtures, stage[c[1]] \in Active,
         (f \in TestScoped /\ f \notin cached[c[1]]) \/ (f \in FileScoped /\ MustBeCalled(f))
  PROVE  /\ \A j \in Instances : Live(j) => <<j[2], OwnerOf(j)>> # <<f, OwnerOf(<<c, f>>)>>
         /\ f \in TestScoped => \A k \in DOMAIN cleanups[c[1]] : ~About(cleanups[c[1]][k], f)
  <1>0. c[1] \in Tests /\ c[1] # File /\ <<c, f>> \in Instances BY CallFacts, OwnerFacts
  <1>1. ASSUME NEW j \in Instances, Live(j), j[2] = f, OwnerOf(j) = OwnerOf(<<c, f>>) PROVE FALSE
    <2>1. CASE f \in TestScoped
      <3>1. f \notin FileScoped BY <2>1, Scopes
      <3>2. j[1][1] = c[1] BY <1>1, <3>1 DEF OwnerOf
      <3>3. cleaning[c[1]] = <<>> BY <1>0 DEF IInv, CleanupsInPlace, Active, Inside
      <3>4. ToSet(cleaning[c[1]]) = {} BY <3>3 DEF ToSet
      <3>5. f \notin cached[c[1]] BY <3>1
      <3> QED BY <1>1, <2>1, <3>2, <3>4, <3>5 DEF IInv, LiveIsCached
    <2>2. CASE f \notin TestScoped
      <3>1. f \in FileScoped /\ value[File][f] = None /\ promise[f] = None BY <2>2 DEF MustBeCalled
      <3>2. InstanceInPlace(j) BY DEF IInv, InstancesInPlace
      <3> QED BY <1>1, <3>1, <3>2, OwnerFacts DEF InstanceInPlace, Live
    <2> QED BY <2>1, <2>2
  <1>2. ASSUME f \in TestScoped, NEW k \in DOMAIN cleanups[c[1]], About(cleanups[c[1]][k], f) PROVE FALSE
    <2>1. f \notin cached[c[1]] BY <1>2, Scopes
    <2>2. cleanups[c[1]][k] \in ToSet(cleanups[c[1]]) BY <1>2 DEF ToSet
    <2> QED BY <1>0, <1>2, <2>1, <2>2 DEF IInv, TogetherCleaned, EntriesTogether
  <1>3. \A j \in Instances : Live(j) => ~(j[2] = f /\ OwnerOf(j) = OwnerOf(<<c, f>>)) BY <1>1
  <1>4. \A j \in Instances : Live(j) => <<j[2], OwnerOf(j)>> # <<f, OwnerOf(<<c, f>>)>> BY <1>3
  <1> QED BY <1>2, <1>4

\* The two outcomes: the call runs or waits, or it sets up a fixture.
Starts(c, f) ==
  /\ at' = [at EXCEPT ![c] = f] /\ instance' = [instance EXCEPT ![<<c, f>>] = "setup"]
  /\ \/ /\ f \in TestScoped /\ f \notin cached[c[1]] /\ promise' = promise
        /\ cached' = [cached EXCEPT ![c[1]] = @ \cup {f}]
     \/ /\ f \in FileScoped /\ MustBeCalled(f) /\ cached' = cached /\ promise' = [promise EXCEPT ![f] = <<c, f>>]
GoesIdly(c) ==
  /\ instance' = instance /\ cached' = cached /\ promise' = promise
  /\ at' = [at EXCEPT ![c] = "running"] \/ \E f \in FileScoped : at' = [at EXCEPT ![c] = f]

LEMMA GoesOnStarts ==
  ASSUME NEW c \in Calls, NEW last \in Nat, GoesOn(c, last)
  PROVE  GoesIdly(c) \/ \E f \in Fixtures : Starts(c, f)
  <1>1. CASE Runs(c, last) BY <1>1 DEF Runs, GoesIdly
  <1>2. ASSUME NEW f \in Fixtures, WaitsFor(c, last, f) PROVE GoesIdly(c) BY <1>2 DEF WaitsFor, NextIs, GoesIdly
  <1>3. ASSUME NEW f \in Fixtures, SetsUp(c, last, f) PROVE Starts(c, f) BY <1>3 DEF SetsUp, NextIs, Starts
  <1>4. ASSUME NEW f \in Fixtures, SetsUpForFile(c, last, f) PROVE Starts(c, f) BY <1>4 DEF SetsUpForFile, NextIs, Starts
  <1> QED BY <1>1, <1>2, <1>3, <1>4, GoesOnHow

LEMMA CallGoesIInv ==
  ASSUME IInv, TypedInv', NEW c \in Calls, NEW last, CallGoes(c, last)
  PROVE  IInv'
  <1> DEFINE t == c[1]
  <1>0. /\ t \in Tests /\ t \in Owners /\ t # File /\ File \in Owners /\ File \notin Tests
        /\ \A f \in Fixtures : <<c, f>> \in Instances
    BY CallFacts, OwnerFacts
  <1>1. /\ UNCHANGED <<stage, attempt, checkpoint, cleaning, abandoned, detached>> /\ value'[File] = value[File]
        /\ stage[t] \in Active /\ Current(c) /\ (c[3] = "around" <=> stage[t] = "around")
        /\ last \in Nat /\ GoesOn(c, last)
    BY DEF CallGoes
  <1>2. cleaning[t] = <<>> /\ ToSet(cleaning[t]) = {} /\ stage[File] = "tests"
    <2>1. cleaning[t] = <<>> /\ stage[t] # "over" BY <1>0, <1>1 DEF IInv, CleanupsInPlace, Active, Inside
    <2> QED BY <1>0, <2>1 DEF IInv, CleanupsInPlace, ToSet
  <1>3. GoesIdly(c) \/ \E f \in Fixtures : Starts(c, f) BY <1>1, GoesOnStarts
  \* The instances: those there are, and the one that is set up.
  <1>4. /\ \A e \in Calls : e # c => at'[e] = at[e]
        /\ at'[c] \notin {"none", "over"}
        /\ \A i \in Instances :
             \/ instance'[i] = instance[i] /\ (i[2] \in FileScoped /\ promise[i[2]] = i => promise'[i[2]] = i)
             \/ /\ i[1] = c /\ instance'[i] = "setup" /\ at'[c] = i[2]
                /\ (i[2] \in TestScoped /\ i[2] \notin cached[t] /\ i[2] \in cached'[t])
                   \/ (i[2] \in FileScoped /\ MustBeCalled(i[2]) /\ promise'[i[2]] = i)
        /\ \A u \in Tests : cached[u] \subseteq cached'[u]
        /\ \A f \in FileScoped : \/ promise'[f] = promise[f]
                                 \/ promise'[f] = <<c, f>> /\ MustBeCalled(f) /\ instance'[<<c, f>>] = "setup"
    <2>1. CASE GoesIdly(c)
      <3>1. /\ instance' = instance /\ cached' = cached /\ promise' = promise
            /\ \A e \in Calls : e # c => at'[e] = at[e]
            /\ at'[c] = "running" \/ at'[c] \in FileScoped
        BY <2>1, Types DEF IInv, GoesIdly
      <3>2. at'[c] \notin {"none", "over"} BY <3>1, OwnerFacts DEF Fixtures
      <3> QED BY <3>1, <3>2
    <2>2. CASE \E f \in Fixtures : Starts(c, f)
      <3>0. PICK f \in Fixtures : Starts(c, f) BY <2>2
      <3>1. PICK i \in Instances : i = <<c, f>> /\ i[1] = c /\ i[2] = f BY <1>0
      <3>2. /\ \A e \in Calls : e # c => at'[e] = at[e]
            /\ at'[c] = f /\ f \notin {"none", "over"}
            /\ instance'[i] = "setup" /\ \A j \in Instances : j # i => instance'[j] = instance[j]
        BY <3>0, <3>1, Types, OwnerFacts DEF IInv, Starts
      <3>3. CASE f \in TestScoped
        <4>1. f \notin FileScoped BY <3>3, Scopes
        <4>2. /\ promise' = promise /\ f \notin cached[t] /\ f \in cached'[t]
              /\ \A u \in Tests : cached[u] \subseteq cached'[u]
          BY <1>0, <3>0, <4>1, Types DEF IInv, Starts
        <4> QED BY <3>1, <3>2, <3>3, <4>2
      <3>4. CASE f \notin TestScoped
        <4>1. /\ f \in FileScoped /\ MustBeCalled(f) /\ cached' = cached /\ promise'[f] = i
              /\ \A g \in FileScoped : g # f => promise'[g] = promise[g]
          BY <3>0, <3>1, <3>4, Types DEF IInv, Starts
        <4>2. promise[f] = None BY <4>1 DEF MustBeCalled
        <4>3. \A j \in Instances : j # None BY OwnerFacts
        <4> QED BY <3>1, <3>2, <4>1, <4>2, <4>3
      <3> QED BY <3>3, <3>4
    <2> QED BY <1>3, <2>1, <2>2
  \* The clean-ups: the entry that takes what the call awaited from the cache.
  <1>5. /\ \A o \in Owners : o # t => cleanups'[o] = cleanups[o]
        /\ \A o \in Owners : \A e \in ToSet(cleanups[o]) : e \in ToSet(cleanups'[o])
        /\ \A e \in ToSet(cleanups'[t]) : e \in ToSet(cleanups[t]) \/ (e = Un(at[c]) /\ at[c] \in TestScoped)
        /\ \A k \in DOMAIN cleanups'[t] :
             \/ k \in DOMAIN cleanups[t] /\ cleanups'[t][k] = cleanups[t][k]
             \/ /\ cleanups'[t][k] = Un(at[c]) /\ at[c] \in TestScoped
                /\ stage[t] \in Inside => k > checkpoint[t]
        /\ stage[t] \in Inside => checkpoint[t] <= Len(cleanups'[t])
    <2>1. PICK s \in Seq(Entries) : s = cleanups[t] BY <1>0, Types DEF IInv
    <2>2. checkpoint[t] \in Nat /\ (stage[t] \in Inside => checkpoint[t] <= Len(s))
      BY <1>0, <2>1, Types DEF IInv, CleanupsInPlace
    <2>3. CASE cleanups' = cleanups BY <2>1, <2>2, <2>3
    <2>4. CASE cleanups' # cleanups
      <3>1. at[c] \in TestScoped /\ cleanups' = [cleanups EXCEPT ![t] = Append(@, Un(at[c]))] BY <2>4 DEF CallGoes
      <3>2. PICK e \in Entries : e = Un(at[c]) BY <3>1 DEF Entries, Un
      <3>3. cleanups'[t] = Append(s, e) /\ \A o \in Owners : o # t => cleanups'[o] = cleanups[o]
        BY <1>0, <2>1, <3>1, <3>2, Types DEF IInv
      <3>4. /\ ToSet(Append(s, e)) = ToSet(s) \cup {e} /\ Len(Append(s, e)) = Len(s) + 1
            /\ \A k \in DOMAIN Append(s, e) : (k \in DOMAIN s /\ Append(s, e)[k] = s[k]) \/ (k = Len(s) + 1 /\ Append(s, e)[k] = e)
        BY AppendSet
      <3>5. Len(s) \in Nat OBVIOUS
      <3>6. stage[t] \in Inside => Len(s) + 1 > checkpoint[t] /\ checkpoint[t] <= Len(s) + 1 BY <2>2, <3>5
      <3>7. \A k \in DOMAIN cleanups'[t] :
             \/ k \in DOMAIN cleanups[t] /\ cleanups'[t][k] = cleanups[t][k]
             \/ /\ cleanups'[t][k] = Un(at[c]) /\ at[c] \in TestScoped
                /\ stage[t] \in Inside => k > checkpoint[t]
        BY <2>1, <3>1, <3>2, <3>3, <3>4, <3>6
      <3>8. stage[t] \in Inside => checkpoint[t] <= Len(cleanups'[t]) BY <3>3, <3>4, <3>6
      <3>9. \A e1 \in ToSet(cleanups'[t]) : e1 \in ToSet(cleanups[t]) \/ (e1 = Un(at[c]) /\ at[c] \in TestScoped)
        BY <2>1, <3>1, <3>2, <3>3, <3>4
      <3>10. \A o \in Owners : \A e1 \in ToSet(cleanups[o]) : e1 \in ToSet(cleanups'[o]) BY <2>1, <3>3, <3>4
      <3> QED BY <3>3, <3>7, <3>8, <3>9, <3>10
    <2> QED BY <2>3, <2>4
  <1> HIDE DEF t
  <1>6. CallsInPlace'
    <2>1. InPlace(c)'
      <3>1. c[3] \in Before \cup {"around", "fn", "after"} BY CallFacts
      <3>2. /\ c[3] \in Before => stage[t] = "before"
            /\ c[3] \in {"fn", "after"} => stage[t] = c[3]
        BY DEF CallGoes, t
      <3> QED BY <1>1, <3>1, <3>2 DEF InPlace, Current, t
    <2>2. ASSUME NEW e \in Calls, e # c, ~Idle(e)' PROVE InPlace(e)'
      <3>1. at'[e] = at[e] BY <1>4, <2>2
      <3>2. InPlace(e) BY <2>2, <3>1 DEF IInv, CallsInPlace, Idle
      <3> QED BY <1>1, <3>1, <3>2 DEF InPlace, Current
    <2>3. \A e \in detached : at'[e] = "over"
      <3>1. at[c] # "over" BY DEF CallGoes
      <3>2. c \notin detached BY <3>1 DEF IInv, CallsInPlace
      <3>3. detached \subseteq Calls BY Types DEF IInv
      <3> QED BY <1>4, <3>2, <3>3 DEF IInv, CallsInPlace
    <2> QED BY <1>1, <2>1, <2>2, <2>3 DEF IInv, CallsInPlace
  <1>7. CleanupsInPlace'
    <2>1. \A u \in Tests : /\ stage[u] \in {"waiting", "outer", "over"} => cleanups'[u] = <<>>
                           /\ stage[u] \in Inside => checkpoint[u] <= Len(cleanups'[u])
      <3> TAKE u \in Tests
      <3>1. CASE u = t BY <1>1, <1>5, <3>1 DEF Active, Inside
      <3>2. CASE u # t BY <1>5, <3>2, OwnerFacts DEF IInv, CleanupsInPlace
      <3> QED BY <3>1, <3>2
    <2> QED BY <1>1, <1>2, <2>1 DEF IInv, CleanupsInPlace
  <1>8. FileContext'
    <2> SUFFICES ASSUME NEW f \in FileScoped
                 PROVE  /\ promise'[f] # None => /\ promise'[f][2] = f /\ instance'[promise'[f]] = "setup"
                                                 /\ value[File][f] = None
                        /\ value[File][f] # None => /\ value[File][f][2] = f
                                                    /\ instance'[value[File][f]] \in {"inUse", "tearing", "over"}
      BY <1>1 DEF FileContext
    <2>1. /\ promise[f] # None => /\ promise[f][2] = f /\ instance[promise[f]] = "setup"
                                  /\ value[File][f] = None
          /\ value[File][f] # None => /\ value[File][f][2] = f
                                      /\ instance[value[File][f]] \in {"inUse", "tearing", "over"}
      BY DEF IInv, FileContext
    <2>2. promise[f] \in Instances \cup {None} /\ value[File][f] \in Instances \cup {None} /\ f \in Fixtures /\ f \notin TestScoped
      BY <1>0, Types, Scopes DEF IInv, Fixtures
    <2>3. value[File][f] # None => /\ value[File][f][2] = f
                                   /\ instance'[value[File][f]] \in {"inUse", "tearing", "over"}
      <3> SUFFICES ASSUME value[File][f] # None PROVE instance'[value[File][f]] \in {"inUse", "tearing", "over"}
        BY <2>1
      <3>1. PICK i \in Instances : i = value[File][f] BY <2>2
      <3>2. i[2] = f /\ ~MustBeCalled(f) BY <2>1, <3>1 DEF MustBeCalled
      <3>3. instance'[i] = instance[i] BY <1>4, <2>2, <3>1, <3>2
      <3> QED BY <2>1, <3>1, <3>3
    <2>4. CASE promise'[f] = promise[f]
      <3> SUFFICES ASSUME promise[f] # None PROVE instance'[promise[f]] = "setup"
        BY <2>1, <2>3, <2>4
      <3>1. PICK i \in Instances : i = promise[f] BY <2>2
      <3>2. instance'[i] = instance[i] \/ instance'[i] = "setup" BY <1>4
      <3> QED BY <2>1, <3>1, <3>2
    <2>5. CASE promise'[f] = <<c, f>> /\ MustBeCalled(f) /\ instance'[<<c, f>>] = "setup"
      <3>1. PICK i \in Instances : i = <<c, f>> /\ i[2] = f BY <1>0, <2>2
      <3>2. value[File][f] = None BY <2>5 DEF MustBeCalled
      <3> QED BY <2>5, <3>1, <3>2
    <2> QED BY <1>4, <2>4, <2>5
  <1>9. InstancesInPlace'
    <2> SUFFICES ASSUME NEW i \in Instances PROVE InstanceInPlace(i)' BY DEF InstancesInPlace
    <2>1. InstanceInPlace(i) /\ OwnerOf(i) \in Owners /\ i[2] \in Fixtures /\ i = <<i[1], i[2]>> /\ i[1] \in Calls
      BY InstanceFacts DEF IInv, InstancesInPlace
    <2>2. CASE instance'[i] = instance[i] /\ (i[2] \in FileScoped /\ promise[i[2]] = i => promise'[i[2]] = i)
      <3>1. instance[i] = "setup" => i[1] # c
        <4>1. \A f \in Fixtures : instance[<<c, f>>] # "setup" BY DEF CallGoes
        <4> QED BY <2>1, <4>1
      <3>2. instance[i] = "setup" => at'[i[1]] = i[2] /\ (i[2] \in FileScoped => promise'[i[2]] = i)
        BY <1>4, <2>1, <2>2, <3>1 DEF InstanceInPlace
      <3>3. instance[i] \in {"inUse", "tearing"} =>
              /\ Td(i) \in ToSet(cleanups'[OwnerOf(i)]) \cup ToSet(cleaning[OwnerOf(i)])
              /\ i[2] \in FileScoped => value[File][i[2]] = i
        BY <1>5, <2>1 DEF InstanceInPlace
      <3> QED BY <1>1, <2>1, <2>2, <3>2, <3>3 DEF InstanceInPlace, OwnerOf, Td
    <2>3. CASE /\ i[1] = c /\ instance'[i] = "setup" /\ at'[c] = i[2]
               /\ i[2] \in FileScoped => promise'[i[2]] = i
      BY <2>3 DEF InstanceInPlace
    <2> QED BY <1>4, <2>1, <2>2, <2>3, Scopes
  <1>10. EntriesInPlace'
    <2> SUFFICES ASSUME NEW o \in Owners, NEW e \in ToSet(cleanups'[o]) \cup ToSet(cleaning[o])
                 PROVE /\ e[1] = "uncache" => o \in Tests
                       /\ e[1] = "teardown" => OwnerOf(e[2]) = o
      BY <1>1 DEF EntriesInPlace, OwnerOf
    <2>1. e \in ToSet(cleanups[o]) \cup ToSet(cleaning[o]) \/ (o = t /\ e = Un(at[c])) BY <1>5
    <2>2. ASSUME e = Un(at[c]) PROVE e[1] = "uncache" BY <2>2 DEF Un
    <2> QED BY <1>0, <2>1, <2>2 DEF IInv, EntriesInPlace, t
  <1>11. TogetherCleaned'
    <2> SUFFICES ASSUME NEW u \in Tests, NEW f \in TestScoped PROVE EntriesTogether(u, f)'
      BY DEF TogetherCleaned
    <2>1. EntriesTogether(u, f) BY DEF IInv, TogetherCleaned
    <2>2. CASE u # t
      <3>1. cleanups'[u] = cleanups[u] /\ cached[u] \subseteq cached'[u] BY <1>4, <1>5, <2>2, OwnerFacts
      <3> QED BY <1>1, <2>1, <3>1 DEF EntriesTogether, About
    <2>3. CASE u = t
      <3>1. at[c] \in TestScoped => at[c] \in cached[t] BY DEF CallGoes, t
      <3>2. ASSUME NEW e \in ToSet(cleanups'[t]), About(e, f) PROVE f \in cached'[t]
        <4>1. CASE e \in ToSet(cleanups[t]) BY <1>0, <1>4, <2>1, <2>3, <3>2, <4>1 DEF EntriesTogether, t
        <4>2. CASE e = Un(at[c]) /\ at[c] \in TestScoped
          <5>1. f = at[c] BY <3>2, <4>2 DEF About, Un
          <5> QED BY <1>0, <1>4, <3>1, <4>2, <5>1 DEF t
        <4> QED BY <1>5, <3>2, <4>1, <4>2
      <3>3. ASSUME stage[t] \in Inside, NEW k \in DOMAIN cleanups'[t], NEW m \in DOMAIN cleanups'[t],
                   About(cleanups'[t][k], f), About(cleanups'[t][m], f)
            PROVE  k <= checkpoint[t] <=> m <= checkpoint[t]
        <4>0. PICK r \in Seq(Entries) : r = cleanups'[t] BY <1>0, Types DEF t, TypedInv, Typed
        <4>1. k \in Nat /\ m \in Nat /\ checkpoint[t] \in Nat BY SMTT(30), <1>0, <3>3, <4>0, Types DEF IInv, t
        <4>2. at[c] \in TestScoped => \A n \in DOMAIN cleanups[t] : About(cleanups[t][n], at[c]) => n > checkpoint[t]
          BY <3>3 DEF CallGoes, t
        <4>3. \A n \in DOMAIN cleanups'[t] :
                About(cleanups'[t][n], f) /\ at[c] = f /\ f \in TestScoped => n > checkpoint[t]
          BY <1>5, <3>3, <4>2
        <4>4. CASE at[c] = f BY <3>3, <4>1, <4>3, <4>4
        <4>5. CASE at[c] # f
          <5>1. ~About(Un(at[c]), f) BY <4>5 DEF About, Un
          <5>2. \A n \in DOMAIN cleanups'[t] : About(cleanups'[t][n], f) =>
                  n \in DOMAIN cleanups[t] /\ cleanups'[t][n] = cleanups[t][n]
            BY <1>5, <5>1
          <5> QED BY <2>1, <2>3, <3>3, <5>2 DEF EntriesTogether
        <4> QED BY <4>4, <4>5
      <3> QED BY <1>1, <1>2, <2>3, <3>2, <3>3 DEF EntriesTogether, About
    <2> QED BY <2>2, <2>3
  \* Nobody else awaits what the call awaits and set up.
  <1>12. ASSUME at[c] \in TestScoped, NEW e \in Calls, e # c, e[1] = t, at[e] = at[c] PROVE FALSE
    <2>1. Awaits(c) /\ Awaits(e) BY <1>12 DEF IInv, AwaitedInPlace
    <2>2. PICK i \in Instances : i = <<c, at[c]>> BY <1>0, <1>12 DEF Fixtures
    <2>3. PICK j \in Instances : j = <<e, at[c]>> BY <1>12, CallFacts DEF Fixtures
    <2>4. Live(i) /\ Live(j) BY <1>12, <2>1, <2>2, <2>3 DEF Awaits, Live
    <2>5. i # j /\ i[2] = j[2] /\ OwnerOf(i) = OwnerOf(j) BY <1>12, <2>2, <2>3 DEF OwnerOf, t
    <2> QED BY <2>4, <2>5 DEF IInv, OneInstance
  <1>13. AwaitedInPlace'
    <2> SUFFICES ASSUME NEW e \in Calls, at'[e] \in TestScoped PROVE Awaits(e)' BY DEF AwaitedInPlace, Awaits
    <2>0. e[1] \in Tests /\ at'[e] \in Fixtures /\ at'[e] \notin FileScoped BY CallFacts, Scopes DEF Fixtures
    <2>i. PICK i \in Instances : i = <<e, at'[e]>> /\ i[1] = e /\ i[2] = at'[e] BY <2>0, CallFacts
    <2>1. CASE e # c
      <3>1. at'[e] = at[e] BY <1>4, <2>1
      <3>2. Awaits(e) BY DEF IInv, AwaitedInPlace
      <3>3. /\ instance[i] \in {"setup", "inUse"} /\ at[e] \in cached[e[1]]
            /\ \A k \in DOMAIN cleanups[e[1]] : About(cleanups[e[1]][k], at[e]) =>
                 /\ instance[i] = "inUse" /\ cleanups[e[1]][k] # Un(at[e])
                 /\ e[3] # "around" => k > checkpoint[e[1]]
        BY <2>i, <3>1, <3>2 DEF Awaits
      <3>4. instance'[i] = instance[i] BY <1>4, <2>1, <2>i
      <3>5. at[e] \in cached'[e[1]] BY <1>4, <2>0, <3>3
      <3>6. \A k \in DOMAIN cleanups'[e[1]] : About(cleanups'[e[1]][k], at[e]) =>
                k \in DOMAIN cleanups[e[1]] /\ cleanups'[e[1]][k] = cleanups[e[1]][k]
        <4>1. CASE e[1] # t BY <1>5, <2>0, <4>1, OwnerFacts
        <4>2. CASE e[1] = t
          <5>1. at[c] \in TestScoped => ~About(Un(at[c]), at[e])
            BY <1>12, <2>1, <3>1, <4>2 DEF About, Un
          <5> QED BY <1>5, <4>2, <5>1
        <4> QED BY <4>1, <4>2
      <3>7. \A k \in DOMAIN cleanups'[e[1]] : About(cleanups'[e[1]][k], at[e]) =>
              /\ instance'[i] = "inUse" /\ cleanups'[e[1]][k] # Un(at[e])
              /\ e[3] # "around" => k > checkpoint[e[1]]
        BY <3>3, <3>4, <3>6
      <3> QED BY <1>1, <2>i, <3>1, <3>3, <3>4, <3>5, <3>7 DEF Awaits, About, Un
    <2>2. CASE e = c
      <3>1. PICK f \in TestScoped : f = at'[c] BY <2>2
      <3>2. ~GoesIdly(c) BY <2>0, <2>2, Types, OwnerFacts DEF IInv, GoesIdly
      <3>3. Starts(c, f)
        <4>1. PICK g \in Fixtures : Starts(c, g) BY <1>3, <3>2
        <4>2. at'[c] = g BY <4>1, Types DEF Starts, IInv
        <4> QED BY <3>1, <4>1, <4>2
      <3>4. f \notin cached[t] /\ instance'[i] = "setup" /\ f \in cached'[t]
        BY <1>0, <2>2, <2>i, <3>1, <3>3, Types, Scopes DEF IInv, Starts, t, Fixtures
      <3>5. \A k \in DOMAIN cleanups[t] : ~About(cleanups[t][k], f)
        <4>1. f \in Fixtures BY DEF Fixtures
        <4>2. f \in TestScoped /\ f \notin cached[c[1]] BY <3>4 DEF t
        <4>3. stage[c[1]] \in Active BY <1>1 DEF t
        <4> QED BY <4>1, <4>2, <4>3, NothingYet DEF t
      <3>6. at[c] \in TestScoped => ~About(Un(at[c]), f)
        <4>1. at[c] \in TestScoped => at[c] \in cached[t] BY DEF CallGoes, t
        <4> QED BY <3>4, <4>1 DEF About, Un
      <3>7. \A k \in DOMAIN cleanups'[t] : ~About(cleanups'[t][k], f) BY <1>5, <3>5, <3>6
      <3> QED BY <2>2, <2>i, <3>1, <3>4, <3>7 DEF Awaits, About, t
    <2> QED BY <2>1, <2>2
  <1>14. LiveIsCached'
    <2> SUFFICES ASSUME NEW i \in Instances, Live(i)', i[2] \in TestScoped
                 PROVE i[2] \in cached'[i[1][1]] \/ Td(i) \in ToSet(cleaning[i[1][1]])
      BY <1>1 DEF LiveIsCached, Td
    <2>1. i[2] \notin FileScoped /\ i[1][1] \in Tests BY InstanceFacts, Scopes
    <2>2. CASE instance'[i] = instance[i] BY <1>4, <2>1, <2>2 DEF IInv, LiveIsCached, Live
    <2>3. CASE i[1] = c /\ i[2] \in cached'[t] BY <2>3 DEF t
    <2> QED BY <1>4, <2>1, <2>2, <2>3
  <1>15. OneInstance'
    \* An instance set up is the only one.
    <2>1. ASSUME NEW i \in Instances, instance'[i] # instance[i]
          PROVE  /\ stage[OwnerOf(i)] # "over"
                 /\ \A j \in Instances : Live(j) => <<j[2], OwnerOf(j)>> # <<i[2], OwnerOf(i)>>
                 /\ \A j \in Instances : instance'[j] # instance[j] => j = i
      <3>1. /\ i[1] = c /\ at'[c] = i[2]
            /\ (i[2] \in TestScoped /\ i[2] \notin cached[t]) \/ (i[2] \in FileScoped /\ MustBeCalled(i[2]))
        BY <1>4, <2>1
      <3>2. PICK f \in Fixtures : f = i[2] BY InstanceFacts
      <3>3. i = <<c, f>> BY <3>1, <3>2, InstanceFacts
      <3>4. \A j \in Instances : Live(j) => <<j[2], OwnerOf(j)>> # <<f, OwnerOf(<<c, f>>)>>
        <4>1. (f \in TestScoped /\ f \notin cached[c[1]]) \/ (f \in FileScoped /\ MustBeCalled(f))
          BY <3>1, <3>2 DEF t
        <4>2. stage[c[1]] \in Active BY <1>1 DEF t
        <4> QED BY <4>1, <4>2, NothingYet
      <3>5. stage[OwnerOf(i)] # "over"
        BY <1>1, <1>2, <3>1 DEF OwnerOf, t, Active, Inside
      <3>6. ASSUME NEW j \in Instances, instance'[j] # instance[j] PROVE j = i
        <4>1. j[1] = c /\ at'[c] = j[2] BY <1>4, <3>6
        <4> QED BY <3>1, <4>1, InstanceFacts
      <3> QED BY <3>2, <3>3, <3>4, <3>5, <3>6
    <2> SUFFICES ASSUME NEW i \in Instances, Live(i)'
                 PROVE /\ stage[OwnerOf(i)] # "over"
                       /\ \A j \in Instances \ {i} : Live(j)' => <<j[2], OwnerOf(j)>> # <<i[2], OwnerOf(i)>>
      BY <1>1 DEF OneInstance, OwnerOf
    <2>2. \A j \in Instances : instance'[j] = instance[j] => (Live(j)' <=> Live(j)) BY DEF Live
    <2>3. CASE instance'[i] = instance[i]
      <3>1. Live(i) BY <2>2, <2>3
      <3>2. ASSUME NEW j \in Instances \ {i}, Live(j)' PROVE <<j[2], OwnerOf(j)>> # <<i[2], OwnerOf(i)>>
        <4>1. CASE instance'[j] = instance[j] BY <2>2, <3>1, <3>2, <4>1 DEF IInv, OneInstance
        <4>2. CASE instance'[j] # instance[j] BY <2>1, <3>1, <4>2
        <4> QED BY <4>1, <4>2
      <3> QED BY <3>1, <3>2 DEF IInv, OneInstance
    <2>4. CASE instance'[i] # instance[i]
      <3>1. ASSUME NEW j \in Instances \ {i}, Live(j)' PROVE <<j[2], OwnerOf(j)>> # <<i[2], OwnerOf(i)>>
        <4>1. instance'[j] = instance[j] BY <2>1, <2>4
        <4> QED BY <2>1, <2>2, <2>4, <3>1, <4>1
      <3> QED BY <2>1, <2>4, <3>1
    <2> QED BY <2>3, <2>4
  <1> QED BY <1>6, <1>7, <1>8, <1>9, <1>10, <1>11, <1>13, <1>14, <1>15 DEF IInv

\* A hook or test function ends.
LEMMA EndIInv ==
  ASSUME IInv, ~Timeouts, NEW c \in Calls, NEW fails \in BOOLEAN, End(c, fails)
  PROVE  IInv'
  <1>0. /\ UNCHANGED <<stage, attempt, checkpoint, abandoned, instance, value, cached, promise, cleanups, cleaning, detached>>
        /\ at[c] = "running" /\ at' = [at EXCEPT ![c] = "over"]
    BY DEF End, runner, resolved
  <1>1. TypedInv' BY CallTypedStep DEF IInv, Call
  <1>2. at'[c] = "over" /\ \A e \in Calls : e # c => at'[e] = at[e] BY <1>0, Types DEF IInv
  <1>3. at[c] \notin Fixtures /\ at'[c] \notin Fixtures BY <1>0, <1>2, OwnerFacts
  <1>4. CallsInPlace'
    <2>1. \A e \in Calls : ~Idle(e)' => InPlace(e)'
      <3> SUFFICES ASSUME NEW e \in Calls, ~Idle(e)' PROVE InPlace(e)' OBVIOUS
      <3>1. at'[e] = at[e] BY <1>2 DEF Idle
      <3>2. InPlace(e) BY <3>1 DEF IInv, CallsInPlace, Idle
      <3> QED BY <1>0, <3>1, <3>2 DEF InPlace, Current
    <2>2. \A e \in detached : at'[e] = "over"
      <3>1. detached \subseteq Calls BY Types DEF IInv
      <3> QED BY <1>2, <3>1 DEF IInv, CallsInPlace
    <2> QED BY <1>0, <2>1, <2>2 DEF IInv, CallsInPlace
  <1>5. CleanupsInPlace' /\ FileContext' /\ EntriesInPlace' /\ LiveIsCached'
    BY <1>0 DEF IInv, CleanupsInPlace, FileContext, EntriesInPlace, LiveIsCached, Live
  <1>6. InstancesInPlace'
    <2> SUFFICES ASSUME NEW i \in Instances PROVE InstanceInPlace(i)' BY DEF InstancesInPlace
    <2>1. InstanceInPlace(i) /\ i[1] \in Calls /\ i[2] \in Fixtures BY InstanceFacts DEF IInv, InstancesInPlace
    <2>2. instance[i] = "setup" => at'[i[1]] = i[2] BY <1>2, <1>3, <2>1 DEF InstanceInPlace
    <2> QED BY <1>0, <2>1, <2>2 DEF InstanceInPlace, OwnerOf
  <1>7. TogetherCleaned' BY <1>0 DEF IInv, TogetherCleaned, EntriesTogether, About
  <1>8. AwaitedInPlace'
    <2> SUFFICES ASSUME NEW e \in Calls, at'[e] \in TestScoped PROVE Awaits(e)' BY DEF AwaitedInPlace, Awaits
    <2>1. at'[e] = at[e] BY <1>2, <1>3 DEF Fixtures
    <2>2. Awaits(e) BY DEF IInv, AwaitedInPlace
    <2> QED BY <1>0, <2>1, <2>2 DEF Awaits, About
  <1>9. OneInstance' BY <1>0 DEF IInv, OneInstance, Live, OwnerOf
  <1> QED BY <1>1, <1>4, <1>5, <1>6, <1>7, <1>8, <1>9 DEF IInv

\* No two calls of a test await an instance of the same fixture of it.
LEMMA OneAwaits ==
  ASSUME IInv, NEW i \in Instances, i[2] \in TestScoped, Live(i),
         NEW e \in Calls, e[1] = i[1][1], at[e] = i[2]
  PROVE  e = i[1]
  <1>1. Awaits(e) BY DEF IInv, AwaitedInPlace
  <1>2. PICK j \in Instances : j = <<e, i[2]>> BY CallFacts, InstanceFacts
  <1>3. Live(j) BY <1>1, <1>2 DEF Awaits, Live
  <1>4. j[2] = i[2] /\ OwnerOf(j) = OwnerOf(i) BY <1>2 DEF OwnerOf
  <1>5. j = i BY <1>3, <1>4 DEF IInv, OneInstance
  <1> QED BY <1>2, <1>5

\* A fixture of a test calls use().
LEMMA UseInTestIInv ==
  ASSUME IInv, NEW i \in Instances, i[2] \in TestScoped, Use(i)
  PROVE  IInv'
  <1> DEFINE c == i[1]
             f == i[2]
             t == i[1][1]
  <1>0. /\ c \in Calls /\ t \in Tests /\ t \in Owners /\ t # File /\ File \in Owners /\ f \notin FileScoped
        /\ f \in Fixtures /\ i = <<c, f>> /\ OwnerOf(i) = t /\ OwnerOf(i)' = t
    BY InstanceFacts, OwnerFacts, Scopes DEF OwnerOf
  <1>1. TypedInv' BY FixtureTyped DEF IInv
  <1>2. instance[i] = "setup" /\ Live(i) /\ at[c] = f
    BY <1>0 DEF Use, Live, IInv, InstancesInPlace, InstanceInPlace
  <1>3. stage[t] \in Active /\ c \notin detached /\ (stage[t] \in Inside => c[3] # "around")
    BY <1>0, <1>2, StageOfAwaiting, StageOfCall
  <1>4. /\ UNCHANGED <<stage, attempt, checkpoint, at, abandoned, value, cached, promise, cleaning, detached>>
        /\ instance' = [instance EXCEPT ![i] = "inUse"]
        /\ cleanups' = [cleanups EXCEPT ![t] = Append(@, Td(i))]
    BY <1>0, <1>3 DEF Use, Settled, Pushed, Td, runner
  <1>5. PICK s \in Seq(Entries) : s = cleanups[t] BY <1>0, Types DEF IInv
  <1>6. PICK e \in Entries : e = Td(i) BY DEF Entries, Td
  <1>7. /\ cleanups'[t] = Append(s, e) /\ \A o \in Owners : o # t => cleanups'[o] = cleanups[o]
        /\ ToSet(cleanups'[t]) = ToSet(cleanups[t]) \cup {e} /\ Len(cleanups'[t]) = Len(cleanups[t]) + 1
        /\ \A k \in DOMAIN cleanups'[t] : (k \in DOMAIN s /\ cleanups'[t][k] = s[k]) \/ (k = Len(s) + 1 /\ cleanups'[t][k] = e)
    <2>1. /\ cleanups'[t] = Append(s, e) /\ \A o \in Owners : o # t => cleanups'[o] = cleanups[o]
      BY <1>0, <1>4, <1>5, <1>6, Types DEF IInv
    <2>2. /\ ToSet(Append(s, e)) = ToSet(s) \cup {e} /\ Len(Append(s, e)) = Len(s) + 1
          /\ \A k \in DOMAIN Append(s, e) : (k \in DOMAIN s /\ Append(s, e)[k] = s[k]) \/ (k = Len(s) + 1 /\ Append(s, e)[k] = e)
      BY AppendSet
    <2> QED BY <1>5, <2>1, <2>2
  <1>8. /\ instance'[i] = "inUse" /\ \A j \in Instances : j # i => instance'[j] = instance[j]
        /\ \A j \in Instances : Live(j)' <=> Live(j)
    BY <1>2, <1>4, Types DEF IInv, Live
  \* There is no entry about the fixture yet.
  <1>9. \A k \in DOMAIN s : ~About(s[k], f)
    <2>1. Awaits(c) BY <1>0 DEF IInv, AwaitedInPlace
    <2> QED BY <1>0, <1>2, <1>5, <2>1 DEF Awaits
  <1>10. /\ checkpoint[t] \in Nat /\ Len(s) \in Nat /\ About(e, f) /\ \A g : About(e, g) => g = f
         /\ stage[t] \in Inside => checkpoint[t] <= Len(s)
    <2>1. checkpoint[t] \in Nat BY <1>0, Types DEF IInv
    <2>2. About(e, f) /\ \A g : About(e, g) => g = f BY <1>6 DEF About, Td, Un
    <2>3. stage[t] \in Inside => checkpoint[t] <= Len(s) BY <1>0, <1>5 DEF IInv, CleanupsInPlace
    <2> QED BY <2>1, <2>2, <2>3
  <1> HIDE DEF c, f, t
  <1>11. CallsInPlace' BY <1>4 DEF IInv, CallsInPlace, Idle, InPlace, Current
  <1>12. CleanupsInPlace'
    <2>1. \A u \in Tests : /\ stage[u] \in {"waiting", "outer", "over"} => cleanups'[u] = <<>>
                           /\ stage[u] \in Inside => checkpoint[u] <= Len(cleanups'[u])
      <3> TAKE u \in Tests
      <3>1. CASE u = t
        <4>1. stage[t] \in Inside => checkpoint[t] <= Len(cleanups'[t]) BY <1>5, <1>7, <1>10
        <4> QED BY <1>3, <3>1, <4>1 DEF Active, Inside
      <3>2. CASE u # t BY <1>7, <3>2, OwnerFacts DEF IInv, CleanupsInPlace
      <3> QED BY <3>1, <3>2
    <2>2. cleanups'[File] = cleanups[File] BY <1>0, <1>7
    <2> QED BY <1>4, <2>1, <2>2 DEF IInv, CleanupsInPlace
  <1>13. FileContext'
    <2> SUFFICES ASSUME NEW g \in FileScoped
                 PROVE  /\ promise[g] # None => instance'[promise[g]] = instance[promise[g]]
                        /\ value[File][g] # None => instance'[value[File][g]] = instance[value[File][g]]
      BY <1>4 DEF IInv, FileContext
    <2>1. promise[g] \in Instances \cup {None} /\ value[File][g] \in Instances \cup {None}
      BY <1>0, Types DEF IInv, Fixtures
    <2>2. promise[g] # i /\ value[File][g] # i BY <1>0, OwnerFacts DEF IInv, FileContext, f
    <2> QED BY <1>8, <2>1, <2>2
  <1>14. InstancesInPlace'
    <2> SUFFICES ASSUME NEW j \in Instances PROVE InstanceInPlace(j)' BY DEF InstancesInPlace
    <2>1. InstanceInPlace(j) /\ OwnerOf(j) \in Owners BY InstanceFacts DEF IInv, InstancesInPlace
    <2>2. CASE j # i
      <3>1. \A o \in Owners : \A d \in ToSet(cleanups[o]) : d \in ToSet(cleanups'[o]) BY <1>7
      <3> QED BY <1>4, <1>8, <2>1, <2>2, <3>1 DEF InstanceInPlace, OwnerOf, Td
    <2>3. CASE j = i BY <1>0, <1>6, <1>7, <1>8, <2>3 DEF InstanceInPlace, Td, f
    <2> QED BY <2>2, <2>3
  <1>15. EntriesInPlace'
    <2> SUFFICES ASSUME NEW o \in Owners, NEW d \in ToSet(cleanups'[o]) \cup ToSet(cleaning[o])
                 PROVE /\ d[1] = "uncache" => o \in Tests
                       /\ d[1] = "teardown" => OwnerOf(d[2]) = o
      BY <1>4 DEF EntriesInPlace, OwnerOf
    <2>1. (d \in ToSet(cleanups[o]) \cup ToSet(cleaning[o])) \/ (o = t /\ d = Td(i))
      <3>1. CASE o # t BY <1>7, <3>1
      <3>2. CASE o = t
        <4>1. d \in ToSet(cleanups'[t]) \cup ToSet(cleaning[t]) BY <3>2
        <4> QED BY <1>6, <1>7, <3>2, <4>1
      <3> QED BY <3>1, <3>2
    <2>2. Td(i)[1] = "teardown" /\ Td(i)[2] = i BY DEF Td
    <2> QED BY <1>0, <2>1, <2>2 DEF IInv, EntriesInPlace
  <1>16. TogetherCleaned'
    <2> SUFFICES ASSUME NEW u \in Tests, NEW g \in TestScoped PROVE EntriesTogether(u, g)'
      BY DEF TogetherCleaned
    <2>1. EntriesTogether(u, g) BY DEF IInv, TogetherCleaned
    <2>2. CASE u # t
      <3>1. cleanups'[u] = cleanups[u] BY <1>7, <2>2, OwnerFacts
      <3> QED BY <1>4, <2>1, <3>1 DEF EntriesTogether, About
    <2>3. CASE u = t /\ g # f
      <3>1. ~About(e, g) BY <1>10, <2>3
      <3>2. \A d \in ToSet(cleanups'[t]) : About(d, g) => d \in ToSet(cleanups[t]) BY <1>7, <3>1
      <3>3. \A k \in DOMAIN cleanups'[t] : About(cleanups'[t][k], g) => k \in DOMAIN cleanups[t] /\ cleanups'[t][k] = cleanups[t][k]
        BY <1>5, <1>7, <3>1
      <3> QED BY <1>4, <2>1, <2>3, <3>2, <3>3 DEF EntriesTogether, About
    <2>4. CASE u = t /\ g = f
      <3>1. f \in cached[t]
        <4>1. Awaits(c) BY <1>0 DEF IInv, AwaitedInPlace
        <4> QED BY <1>2, <2>4, <4>1 DEF Awaits, c, t
      <3>2. ToSet(cleaning[t]) = {} BY <1>0, <1>3 DEF IInv, CleanupsInPlace, Active, Inside, ToSet
      <3>3. \A k \in DOMAIN cleanups'[t] : About(cleanups'[t][k], f) => k = Len(s) + 1
        BY <1>7, <1>9
      <3>4. stage[t] \in Inside => ~(Len(s) + 1 <= checkpoint[t]) BY <1>10
      <3> QED BY <1>4, <2>4, <3>1, <3>2, <3>3 DEF EntriesTogether, About
    <2> QED BY <2>2, <2>3, <2>4
  <1>17. AwaitedInPlace'
    <2> SUFFICES ASSUME NEW b \in Calls, at[b] \in TestScoped PROVE Awaits(b)' BY <1>4 DEF AwaitedInPlace, Awaits
    <2>1. Awaits(b) /\ b[1] \in Tests BY CallFacts DEF IInv, AwaitedInPlace
    <2>2. CASE b = c
      <3>1. instance'[<<b, at[b]>>] = "inUse" BY <1>0, <1>2, <1>8, <2>2
      <3>2. \A k \in DOMAIN cleanups'[t] : About(cleanups'[t][k], f) =>
              /\ cleanups'[t][k] # Un(f)
              /\ c[3] # "around" => k > checkpoint[t]
        <4> SUFFICES ASSUME NEW k \in DOMAIN cleanups'[t], About(cleanups'[t][k], f)
                     PROVE  cleanups'[t][k] # Un(f) /\ (c[3] # "around" => k > checkpoint[t])
          OBVIOUS
        <4>1. k = Len(s) + 1 /\ cleanups'[t][k] = Td(i) BY <1>6, <1>7, <1>9
        <4>2. c[3] # "around" => stage[t] \in Inside
          <5>1. InPlace(c) /\ c[3] \in Before \cup {"around", "fn", "after"} BY <1>0, <1>2, StageOfAwaiting, CallFacts DEF IInv, CallsInPlace
          <5> QED BY <1>3, <5>1 DEF InPlace, Active, Inside, Before, t, c
        <4>3. Td(i) # Un(f) BY DEF Td, Un
        <4> QED BY <1>10, <4>1, <4>2, <4>3
      <3>3. f \in cached[t] BY <1>2, <2>1, <2>2 DEF Awaits, t, c
      <3>4. b[1] = t BY <2>2 DEF t, c
      <3> QED BY <1>2, <1>4, <2>2, <3>1, <3>2, <3>3, <3>4 DEF Awaits, About, Un
    <2>3. CASE b # c
      <3>1. PICK j \in Instances : j = <<b, at[b]>> BY CallFacts DEF Fixtures
      <3>2. j # i BY <1>0, <2>3, <3>1
      <3>3. b[1] = t => at[b] # f BY <1>0, <1>2, <2>3, OneAwaits DEF c, f, t
      <3>4. \A k \in DOMAIN cleanups'[b[1]] : About(cleanups'[b[1]][k], at[b]) =>
              k \in DOMAIN cleanups[b[1]] /\ cleanups'[b[1]][k] = cleanups[b[1]][k]
        <4>1. CASE b[1] # t BY <1>7, <2>1, <4>1, OwnerFacts
        <4>2. CASE b[1] = t BY <1>5, <1>7, <1>10, <3>3, <4>2
        <4> QED BY <4>1, <4>2
      <3>5. instance'[<<b, at[b]>>] = instance[<<b, at[b]>>] BY <1>8, <3>1, <3>2
      <3> QED BY <1>4, <2>1, <3>4, <3>5 DEF Awaits, About, Un
    <2> QED BY <2>2, <2>3
  <1>18. LiveIsCached' BY <1>4, <1>8 DEF IInv, LiveIsCached, Td
  <1>19. OneInstance'
    <2> SUFFICES ASSUME NEW j \in Instances, Live(j)
                 PROVE /\ stage[OwnerOf(j)] # "over"
                       /\ \A b \in Instances \ {j} : Live(b) => <<b[2], OwnerOf(b)>> # <<j[2], OwnerOf(j)>>
      BY <1>4, <1>8 DEF OneInstance, OwnerOf
    <2> QED BY DEF IInv, OneInstance
  <1> QED BY <1>1, <1>11, <1>12, <1>13, <1>14, <1>15, <1>16, <1>17, <1>18, <1>19 DEF IInv

\* A fixture of the file calls use().
LEMMA UseInFileIInv ==
  ASSUME IInv, NEW i \in Instances, i[2] \notin TestScoped, Use(i)
  PROVE  IInv'
  <1> DEFINE f == i[2]
  <1>0. /\ i[1] \in Calls /\ File \in Owners /\ File \notin Tests /\ f \in FileScoped /\ f \in Fixtures
        /\ OwnerOf(i) = File /\ None \notin Instances
    BY InstanceFacts, OwnerFacts, Scopes DEF OwnerOf
  <1>1. TypedInv' BY FixtureTyped DEF IInv
  <1>2. instance[i] = "setup" /\ Live(i) /\ at[i[1]] = f /\ promise[f] = i
    BY <1>0 DEF Use, Live, IInv, InstancesInPlace, InstanceInPlace
  <1>3. stage[File] = "tests" /\ value[File][f] = None
    <2>1. stage[File] = "tests" BY <1>0, <1>2, StageOfAwaiting, StageOfCall
    <2> QED BY <1>0, <1>2, <2>1 DEF IInv, FileContext
  <1>4. /\ UNCHANGED <<stage, attempt, checkpoint, at, abandoned, cached, cleaning, detached>>
        /\ instance' = [instance EXCEPT ![i] = "inUse"]
        /\ value' = [value EXCEPT ![File][f] = i]
        /\ promise' = [promise EXCEPT ![f] = None]
        /\ cleanups' = [cleanups EXCEPT ![File] = Append(@, Td(i))]
    BY <1>0, <1>3 DEF Use, Settled, Td, runner
  <1>5. PICK s \in Seq(Entries) : s = cleanups[File] BY <1>0, Types DEF IInv
  <1>6. PICK e \in Entries : e = Td(i) BY DEF Entries, Td
  <1>7. /\ \A o \in Owners : o # File => cleanups'[o] = cleanups[o]
        /\ ToSet(cleanups'[File]) = ToSet(cleanups[File]) \cup {e}
    <2>1. /\ cleanups'[File] = Append(s, e) /\ \A o \in Owners : o # File => cleanups'[o] = cleanups[o]
      BY <1>0, <1>4, <1>5, <1>6, Types DEF IInv
    <2>2. ToSet(Append(s, e)) = ToSet(s) \cup {e} BY AppendSet
    <2> QED BY <1>5, <2>1, <2>2
  <1>8. /\ instance'[i] = "inUse" /\ \A j \in Instances : j # i => instance'[j] = instance[j]
        /\ \A j \in Instances : Live(j)' <=> Live(j)
        /\ value'[File][f] = i /\ \A g \in Fixtures : g # f => value'[File][g] = value[File][g]
        /\ promise'[f] = None /\ \A g \in FileScoped : g # f => promise'[g] = promise[g]
    BY <1>0, <1>2, <1>4, Types DEF IInv, Live
  <1> HIDE DEF f
  <1>9. CallsInPlace' BY <1>4 DEF IInv, CallsInPlace, Idle, InPlace, Current
  <1>10. \A u \in Tests : cleanups'[u] = cleanups[u] BY <1>7, OwnerFacts
  <1>11. CleanupsInPlace' BY <1>3, <1>4, <1>10 DEF IInv, CleanupsInPlace
  <1>12. FileContext'
    <2> SUFFICES ASSUME NEW g \in FileScoped
                 PROVE  /\ promise'[g] # None => /\ promise'[g][2] = g /\ instance'[promise'[g]] = "setup"
                                                 /\ value'[File][g] = None
                        /\ value'[File][g] # None => /\ value'[File][g][2] = g
                                                     /\ instance'[value'[File][g]] \in {"inUse", "tearing", "over"}
      BY DEF FileContext
    <2>1. CASE g = f BY <1>0, <1>8, <2>1 DEF f
    <2>2. CASE g # f
      <3>1. /\ promise[g] # None => /\ promise[g][2] = g /\ instance[promise[g]] = "setup"
                                    /\ value[File][g] = None
            /\ value[File][g] # None => /\ value[File][g][2] = g
                                        /\ instance[value[File][g]] \in {"inUse", "tearing", "over"}
        BY DEF IInv, FileContext
      <3>2. promise[g] \in Instances \cup {None} /\ value[File][g] \in Instances \cup {None} /\ g \in Fixtures
        BY <1>0, Types DEF IInv, Fixtures
      <3>3. (promise[g] # None => promise[g] # i) /\ (value[File][g] # None => value[File][g] # i)
        BY <2>2, <3>1 DEF f
      <3> QED BY <1>8, <2>2, <3>1, <3>2, <3>3
    <2> QED BY <2>1, <2>2
  <1>13. InstancesInPlace'
    <2> SUFFICES ASSUME NEW j \in Instances PROVE InstanceInPlace(j)' BY DEF InstancesInPlace
    <2>1. InstanceInPlace(j) /\ OwnerOf(j) \in Owners /\ j[2] \in Fixtures BY InstanceFacts DEF IInv, InstancesInPlace
    <2>2. CASE j # i
      <3>1. \A o \in Owners : \A d \in ToSet(cleanups[o]) : d \in ToSet(cleanups'[o]) BY <1>7
      <3>2. j[2] = f => instance[j] \notin {"setup", "inUse", "tearing"}
        BY <1>0, <1>2, <1>3, <2>1, <2>2 DEF InstanceInPlace
      <3>3. j[2] # f => (j[2] \in FileScoped => promise'[j[2]] = promise[j[2]]) /\ value'[File][j[2]] = value[File][j[2]]
        BY <1>8, <2>1
      <3> QED BY <1>4, <1>8, <2>1, <2>2, <3>1, <3>2, <3>3 DEF InstanceInPlace, OwnerOf, Td
    <2>3. CASE j = i BY <1>0, <1>6, <1>7, <1>8, <2>3 DEF InstanceInPlace, Td, f, OwnerOf
    <2> QED BY <2>2, <2>3
  <1>14. EntriesInPlace'
    <2> SUFFICES ASSUME NEW o \in Owners, NEW d \in ToSet(cleanups'[o]) \cup ToSet(cleaning[o])
                 PROVE /\ d[1] = "uncache" => o \in Tests
                       /\ d[1] = "teardown" => OwnerOf(d[2]) = o
      BY <1>4 DEF EntriesInPlace, OwnerOf
    <2>1. (d \in ToSet(cleanups[o]) \cup ToSet(cleaning[o])) \/ (o = File /\ d = Td(i))
      <3>1. CASE o # File BY <1>7, <3>1
      <3>2. CASE o = File
        <4>1. d \in ToSet(cleanups'[File]) \cup ToSet(cleaning[File]) BY <3>2
        <4> QED BY <1>6, <1>7, <3>2, <4>1
      <3> QED BY <3>1, <3>2
    <2>2. Td(i)[1] = "teardown" /\ Td(i)[2] = i BY DEF Td
    <2> QED BY <1>0, <2>1, <2>2 DEF IInv, EntriesInPlace
  <1>15. TogetherCleaned'
    <2> SUFFICES ASSUME NEW u \in Tests, NEW g \in TestScoped PROVE EntriesTogether(u, g)'
      BY DEF TogetherCleaned
    <2>1. EntriesTogether(u, g) BY DEF IInv, TogetherCleaned
    <2>2. cleanups'[u] = cleanups[u] BY <1>10
    <2> QED BY <1>4, <2>1, <2>2 DEF EntriesTogether, About
  <1>16. AwaitedInPlace'
    <2> SUFFICES ASSUME NEW b \in Calls, at[b] \in TestScoped PROVE Awaits(b)' BY <1>4 DEF AwaitedInPlace, Awaits
    <2>1. Awaits(b) /\ b[1] \in Tests BY CallFacts DEF IInv, AwaitedInPlace
    <2>2. PICK j \in Instances : j = <<b, at[b]>> BY CallFacts DEF Fixtures
    <2>3. j # i BY <2>2
    <2>4. instance'[<<b, at[b]>>] = instance[<<b, at[b]>>] BY <1>8, <2>2, <2>3
    <2> QED BY <1>4, <1>10, <2>1, <2>4 DEF Awaits, About, Un
  <1>17. LiveIsCached' BY <1>4, <1>8 DEF IInv, LiveIsCached, Td
  <1>18. OneInstance'
    <2> SUFFICES ASSUME NEW j \in Instances, Live(j)
                 PROVE /\ stage[OwnerOf(j)] # "over"
                       /\ \A b \in Instances \ {j} : Live(b) => <<b[2], OwnerOf(b)>> # <<j[2], OwnerOf(j)>>
      BY <1>4, <1>8 DEF OneInstance, OwnerOf
    <2> QED BY DEF IInv, OneInstance
  <1> QED BY <1>1, <1>9, <1>11, <1>12, <1>13, <1>14, <1>15, <1>16, <1>17, <1>18 DEF IInv

\* A fixture fails before use().
LEMMA ThrowsIInv ==
  ASSUME IInv, NEW i \in Instances, SetupThrows(i)
  PROVE  IInv'
  <1> DEFINE c == i[1]
             f == i[2]
             t == i[1][1]
  <1>0. /\ c \in Calls /\ t \in Tests /\ File \in Owners /\ File \notin Tests /\ f \in Fixtures /\ i = <<c, f>>
        /\ f \in FileScoped <=> f \notin TestScoped
    BY InstanceFacts, OwnerFacts, Scopes
  <1>1. TypedInv' BY FixtureTyped DEF IInv
  <1>2. instance[i] = "setup" /\ Live(i) /\ at[c] = f /\ (f \in FileScoped => promise[f] = i /\ value[File][f] = None)
    <2>1. instance[i] = "setup" BY DEF SetupThrows
    <2>2. InstanceInPlace(i) BY DEF IInv, InstancesInPlace
    <2> QED BY <1>0, <2>1, <2>2, OwnerFacts DEF Live, InstanceInPlace, IInv, FileContext
  <1>3. /\ UNCHANGED <<stage, attempt, checkpoint, abandoned, value, cleanups, cleaning, detached>>
        /\ instance'[i] = "over" /\ \A j \in Instances : j # i => instance'[j] = instance[j]
    BY Types DEF IInv, SetupThrows, runner
  <1>4. \A e \in Calls : IF e \in WhoAwaits(i) THEN at'[e] = "over" ELSE at'[e] = at[e]
    BY DEF SetupThrows
  <1>5. WhoAwaits(i) = IF f \in TestScoped THEN {c} ELSE {e \in Calls : at[e] = f} BY DEF WhoAwaits
  <1>6. /\ \A g \in FileScoped : g # f => promise'[g] = promise[g]
        /\ f \in FileScoped => promise'[f] = None
        /\ \A u \in Tests : cached'[u] = IF f \in TestScoped /\ u = t THEN cached[u] \ {f} ELSE cached[u]
    <2>1. promise' = IF f \in FileScoped THEN [promise EXCEPT ![f] = None] ELSE promise BY DEF SetupThrows, Settled
    <2>2. cached' = IF f \in TestScoped THEN [cached EXCEPT ![t] = @ \ {f}] ELSE cached BY DEF SetupThrows, Uncached
    <2>3. \A u \in Tests : cached'[u] = IF f \in TestScoped /\ u = t THEN cached[u] \ {f} ELSE cached[u]
      BY <1>0, <2>2, Types DEF IInv
    <2> QED BY <2>1, <2>3, Types DEF IInv
  <1>7. \A j \in Instances : Live(j)' => Live(j) /\ j # i BY <1>3 DEF Live
  \* There is no entry about the fixture.
  <1>8. f \in TestScoped => \A d \in ToSet(cleanups[t]) : ~About(d, f)
    <2>1. Awaits(c) BY <1>0 DEF IInv, AwaitedInPlace
    <2> QED BY <1>0, <1>2, <2>1 DEF Awaits, ToSet
  <1> HIDE DEF c, f, t
  <1>9. CallsInPlace'
    <2>1. \A e \in Calls : ~Idle(e)' => InPlace(e)'
      <3> SUFFICES ASSUME NEW e \in Calls, ~Idle(e)' PROVE InPlace(e)' OBVIOUS
      <3>1. at'[e] = at[e] BY <1>4 DEF Idle
      <3>2. InPlace(e) BY <3>1 DEF IInv, CallsInPlace, Idle
      <3> QED BY <1>3, <3>1, <3>2 DEF InPlace, Current
    <2>2. \A e \in detached : at'[e] = "over"
      <3>1. detached \subseteq Calls BY Types DEF IInv
      <3> QED BY <1>4, <3>1 DEF IInv, CallsInPlace
    <2> QED BY <1>3, <2>1, <2>2 DEF IInv, CallsInPlace
  <1>10. CleanupsInPlace' BY <1>3 DEF IInv, CleanupsInPlace
  <1>11. EntriesInPlace' BY <1>3 DEF IInv, EntriesInPlace, OwnerOf
  <1>12. FileContext'
    <2> SUFFICES ASSUME NEW g \in FileScoped
                 PROVE  /\ promise'[g] # None => /\ promise'[g][2] = g /\ instance'[promise'[g]] = "setup"
                                                 /\ value[File][g] = None
                        /\ value[File][g] # None => /\ value[File][g][2] = g
                                                    /\ instance'[value[File][g]] \in {"inUse", "tearing", "over"}
      BY <1>3 DEF FileContext
    <2>1. CASE g = f BY <1>2, <1>6, <2>1
    <2>2. CASE g # f
      <3>1. /\ promise[g] # None => /\ promise[g][2] = g /\ instance[promise[g]] = "setup"
                                    /\ value[File][g] = None
            /\ value[File][g] # None => /\ value[File][g][2] = g
                                        /\ instance[value[File][g]] \in {"inUse", "tearing", "over"}
        BY DEF IInv, FileContext
      <3>2. promise[g] \in Instances \cup {None} /\ value[File][g] \in Instances \cup {None}
        BY <1>0, Types DEF IInv, Fixtures
      <3>3. (promise[g] # None => promise[g] # i) /\ (value[File][g] # None => value[File][g] # i)
        BY <2>2, <3>1 DEF f
      <3> QED BY <1>3, <1>6, <2>2, <3>1, <3>2, <3>3
    <2> QED BY <2>1, <2>2
  <1>13. InstancesInPlace'
    <2> SUFFICES ASSUME NEW j \in Instances PROVE InstanceInPlace(j)' BY DEF InstancesInPlace
    <2>1. InstanceInPlace(j) /\ OwnerOf(j) \in Owners /\ j[2] \in Fixtures /\ j[1] \in Calls /\ j = <<j[1], j[2]>>
      BY InstanceFacts DEF IInv, InstancesInPlace
    <2>2. CASE j # i
      <3>1. instance'[j] = instance[j] BY <1>3, <2>2
      <3>2. instance[j] = "setup" => at'[j[1]] = j[2] /\ (j[2] \in FileScoped => promise'[j[2]] = j)
        <4> SUFFICES ASSUME instance[j] = "setup" PROVE at'[j[1]] = j[2] /\ (j[2] \in FileScoped => promise'[j[2]] = j)
          OBVIOUS
        <4>1. at[j[1]] = j[2] /\ (j[2] \in FileScoped => promise[j[2]] = j) BY <2>1 DEF InstanceInPlace
        <4>2. j[2] # f \/ (f \in TestScoped /\ j[1] # c) BY <1>0, <1>2, <2>1, <2>2, <4>1
        <4>3. j[1] \notin WhoAwaits(i) BY <1>0, <1>2, <1>5, <4>1, <4>2
        <4>4. at'[j[1]] = j[2] BY <1>4, <2>1, <4>1, <4>3
        <4>5. j[2] \in FileScoped => promise'[j[2]] = j BY <1>0, <1>6, <2>1, <4>1, <4>2
        <4> QED BY <4>4, <4>5
      <3> QED BY <1>3, <2>1, <3>1, <3>2 DEF InstanceInPlace, OwnerOf
    <2>3. CASE j = i BY <1>3, <2>3 DEF InstanceInPlace
    <2> QED BY <2>2, <2>3
  <1>14. TogetherCleaned'
    <2> SUFFICES ASSUME NEW u \in Tests, NEW g \in TestScoped PROVE EntriesTogether(u, g)'
      BY DEF TogetherCleaned
    <2>1. EntriesTogether(u, g) BY DEF IInv, TogetherCleaned
    <2>2. \A d \in ToSet(cleanups[u]) : About(d, g) => g \in cached'[u]
      BY <1>6, <1>8, <2>1 DEF EntriesTogether
    <2> QED BY <1>3, <2>1, <2>2 DEF EntriesTogether, About
  <1>15. AwaitedInPlace'
    <2> SUFFICES ASSUME NEW e \in Calls, at'[e] \in TestScoped PROVE Awaits(e)' BY DEF AwaitedInPlace, Awaits
    <2>1. Awaits(e) /\ e[1] \in Tests BY CallFacts DEF IInv, AwaitedInPlace
    <2>2. at'[e] = at[e] /\ e \notin WhoAwaits(i)
      <3>1. at'[e] # "over" BY OwnerFacts DEF Fixtures
      <3> QED BY <1>4, <3>1
    <2>3. e # c \/ at[e] # f BY <1>5, <2>2
    <2>4. PICK j \in Instances : j = <<e, at[e]>> BY <2>2, CallFacts DEF Fixtures
    <2>5. j # i BY <1>0, <2>3, <2>4
    <2>6. instance'[<<e, at[e]>>] = instance[<<e, at[e]>>] BY <1>3, <2>4, <2>5
    <2>7. at[e] \in cached'[e[1]]
      <3>1. at[e] \in cached[e[1]] BY <2>1, <2>2 DEF Awaits
      <3>2. f \in TestScoped /\ e[1] = t => at[e] # f BY <1>2, <2>3, OneAwaits DEF t, f, c
      <3> QED BY <1>6, <2>1, <3>1, <3>2
    <2> QED BY <1>3, <2>1, <2>2, <2>6, <2>7 DEF Awaits, About, Un
  <1>16. LiveIsCached'
    <2> SUFFICES ASSUME NEW j \in Instances, Live(j), j # i, j[2] \in TestScoped
                 PROVE j[2] \in cached'[j[1][1]] \/ Td(j) \in ToSet(cleaning[j[1][1]])
      BY <1>3, <1>7 DEF LiveIsCached, Td
    <2>1. j[2] \in cached[j[1][1]] \/ Td(j) \in ToSet(cleaning[j[1][1]]) BY DEF IInv, LiveIsCached
    <2>2. f \in TestScoped /\ j[1][1] = t => j[2] # f BY <1>0, <1>2, Scopes DEF IInv, OneInstance, OwnerOf, t, f
    <2> QED BY <1>6, <2>1, <2>2, InstanceFacts
  <1>17. OneInstance'
    <2> SUFFICES ASSUME NEW j \in Instances, Live(j)
                 PROVE /\ stage[OwnerOf(j)] # "over"
                       /\ \A b \in Instances \ {j} : Live(b) => <<b[2], OwnerOf(b)>> # <<j[2], OwnerOf(j)>>
      BY <1>3, <1>7 DEF OneInstance, OwnerOf
    <2> QED BY DEF IInv, OneInstance
  <1> QED BY <1>1, <1>9, <1>10, <1>11, <1>12, <1>13, <1>14, <1>15, <1>16, <1>17 DEF IInv

LEMMA NextIInv ==
  ASSUME IInv, ~Timeouts, [Next]_vars
  PROVE  IInv'
  <1>1. ASSUME NEW o \in Owners, Runner(o) PROVE IInv'
    BY <1>1, MovesIInv, InnerIInv, TakesAllIInv, FileEndsIInv, CleaningIInv DEF Runner
  <1>2. ASSUME NEW c \in Calls, Call(c) PROVE IInv'
    <2>0. TypedInv' BY <1>2, CallTypedStep DEF IInv
    <2>1. CASE Begin(c) BY <2>0, <2>1, BeginGoes, CallGoesIInv
    <2>2. CASE AfterFixture(c) BY <2>0, <2>2, AfterFixtureGoes, CallGoesIInv
    <2> QED BY <1>2, <2>1, <2>2, EndIInv DEF Call
  <1>3. ASSUME NEW i \in Instances, Use(i) \/ SetupThrows(i) PROVE IInv'
    BY <1>3, UseInTestIInv, UseInFileIInv, ThrowsIInv
  <1> QED BY <1>1, <1>2, <1>3, StutterIInv DEF Next

\* Unless calls time out, a context has one instance of a fixture at a time, whatever is cached,
\* shared by concurrent tests, cleaned up in two parts or set up anew for a retry: what the
\* caches of withFixtures and resolveScopeFixtureValue are for.
THEOREM FixturesOneInstance == ASSUME ~Timeouts PROVE Spec => []OneInstance
  <1>1. IInv => OneInstance BY DEF IInv
  <1> QED BY <1>1, InitIInv, NextIInv, PTL DEF Spec

-----------------------------------------------------------------------------
ScopeOf(t, f) == IF f \in FileScoped THEN File ELSE t
\* The context of a test has the fixture, and nobody tore it down.
Ready(t, f) ==
  /\ value[t][f] \in Instances /\ instance[value[t][f]] = "inUse"
  /\ value[t][f][2] = f /\ OwnerOf(value[t][f]) = ScopeOf(t, f)

\* The second beforeEach hook begins after the first.
BeforeInOrder ==
  \A c, e \in Calls : c[1] = e[1] /\ c[2] = e[2] /\ c[3] = "before1" /\ e[3] = "before2" /\ at[e] # "none"
                      => at[c] = "over"

\* A fixture in the cache of a test that may call is there, or somebody awaits it.
CachedReady(t, f) ==
  \/ \E c \in Calls : c[1] = t /\ at[c] = f
  \/ /\ Un(f) \in ToSet(cleanups[t]) \cup ToSet(cleaning[t])
     /\ stage[t] \in Active => Ready(t, f)
CachedIsReady == \A t \in Tests : \A f \in cached[t] : CachedReady(t, f)

\* What comes before the fixture that a call awaits is ready, for a running call all.
CallIsReady(c) ==
  /\ at[c] \in Fixtures => \A n \in DOMAIN Pending(c) : n < Place(c, at[c]) => Ready(c[1], Pending(c)[n])
  /\ at[c] = "running" => \A f \in ToSet(Pending(c)) : Ready(c[1], f)
CallsAreReady == \A c \in Calls : CallIsReady(c)

\* What the hook around a test uses is torn down after what it encloses.
KeptFor(t, f) == \E k \in DOMAIN cleanups[t] : /\ cleanups[t][k] = Td(value[t][f])
                                               /\ stage[t] \in Inside => k <= checkpoint[t]
AroundKeeps ==
  \A c \in Calls : c[3] = "around" /\ at[c] = "running" =>
    \A f \in ToSet(Pending(c)) : f \in TestScoped => KeptFor(c[1], f)

\* An instance is torn down once.
TornOnce(o) ==
  /\ \A k, m \in DOMAIN cleanups[o] : cleanups[o][k] = cleanups[o][m] /\ cleanups[o][k][1] = "teardown" => k = m
  /\ \A k, m \in DOMAIN cleaning[o] : cleaning[o][k] = cleaning[o][m] /\ cleaning[o][k][1] = "teardown" => k = m
  /\ \A k \in DOMAIN cleanups[o] : cleanups[o][k][1] = "teardown" =>
       /\ instance[cleanups[o][k][2]] = "inUse"
       /\ \A m \in DOMAIN cleaning[o] : cleaning[o][m] # cleanups[o][k]
  /\ \A k \in DOMAIN cleaning[o] : cleaning[o][k][1] = "teardown" =>
       instance[cleaning[o][k][2]] = "inUse" \/ (k = 1 /\ instance[cleaning[o][k][2]] = "tearing")
AllTornOnce == \A o \in Owners : TornOnce(o)

\* Of two instances of a context, the second is torn down after the first.
TornAfter(o, i, j) ==
  \/ \E k, m \in DOMAIN cleanups[o] : m < k /\ cleanups[o][k] = Td(i) /\ cleanups[o][m] = Td(j)
  \/ Td(i) \in ToSet(cleaning[o]) /\ Td(j) \in ToSet(cleanups[o])
  \/ \E k, m \in DOMAIN cleaning[o] : k < m /\ cleaning[o][k] = Td(i) /\ cleaning[o][m] = Td(j)

\* What an instance depends on is there and outlives it.
OutlivesOfFile(i, d) ==
  /\ value[File][d] # None
  /\ i[2] \in FileScoped /\ instance[i] # "setup" => TornAfter(File, i, value[File][d])
OutlivesOfTest(i, d) ==
  \E j \in Instances :
    /\ j[2] = d /\ OwnerOf(j) = OwnerOf(i)
    /\ IF instance[i] = "setup" THEN Td(j) \in ToSet(cleanups[OwnerOf(i)]) ELSE TornAfter(OwnerOf(i), i, j)
Outlives(i, d) == IF d \in FileScoped THEN OutlivesOfFile(i, d) ELSE OutlivesOfTest(i, d)
DepsOutlive == \A i \in Instances : Live(i) => \A d \in ToSet(Deps[i[2]]) : Outlives(i, d)

\* As long as the file runs its fixtures stay.
FileStays ==
  stage[File] = "tests" => \A f \in FileScoped : value[File][f] # None => instance[value[File][f]] = "inUse"

RInv == /\ BeforeInOrder /\ CachedIsReady /\ CallsAreReady /\ AroundKeeps
        /\ AllTornOnce /\ DepsOutlive /\ FileStays

-----------------------------------------------------------------------------
LEMMA InitRInv == Init => RInv
  <1> SUFFICES ASSUME Init PROVE RInv OBVIOUS
  <1>1. /\ \A c \in Calls : at[c] = "none" /\ at[c] \notin Fixtures
        /\ \A i \in Instances : ~Live(i)
    BY OwnerFacts DEF Init, Live
  <1>2. /\ \A t \in Tests : cached[t] = {}
        /\ \A o \in Owners : cleanups[o] = <<>> /\ cleaning[o] = <<>>
        /\ \A f \in FileScoped : value[File][f] = None
    BY OwnerFacts DEF Init, Fixtures
  <1>3. DOMAIN <<>> = {} OBVIOUS
  <1>4. AllTornOnce BY <1>2, <1>3 DEF AllTornOnce, TornOnce
  <1>5. BeforeInOrder /\ CachedIsReady /\ CallsAreReady /\ AroundKeeps /\ DepsOutlive /\ FileStays
    BY <1>1, <1>2 DEF BeforeInOrder, CachedIsReady, CallsAreReady, CallIsReady, AroundKeeps, DepsOutlive, FileStays
  <1> QED BY <1>4, <1>5 DEF RInv

\* What a fixture depends on is in the context of the test or of the file, for one of the file
\* in that of the file.
LEMMA DepsFacts ==
  ASSUME NEW f \in Fixtures, NEW d \in ToSet(Deps[f])
  PROVE  d \in Fixtures /\ (f \in FileScoped => d \in FileScoped) /\ (d \notin FileScoped => f \in TestScoped /\ f \notin FileScoped)
  <1>1. PICK s \in Seq(Fixtures) : s = Deps[f] BY DepsAssumption
  <1>2. d \in Fixtures BY <1>1 DEF ToSet
  <1>3. f \in FileScoped => d \in FileScoped BY DepsAssumption
  <1> QED BY <1>2, <1>3, Scopes

\* What is torn down later than something of its context is there.
LEMMA TornAfterIsThere ==
  ASSUME IInv, RInv, NEW o \in Owners, NEW i, NEW j, TornAfter(o, i, j)
  PROVE  instance[j] = "inUse"
  <1>1. TornOnce(o) BY DEF RInv, AllTornOnce
  <1>2. Td(j)[1] = "teardown" /\ Td(j)[2] = j BY DEF Td
  <1>3. CASE \E m \in DOMAIN cleanups[o] : cleanups[o][m] = Td(j) BY <1>1, <1>2, <1>3 DEF TornOnce
  <1>4. CASE \E k, m \in DOMAIN cleaning[o] : k < m /\ cleaning[o][m] = Td(j)
    <2>1. PICK k \in DOMAIN cleaning[o], m \in DOMAIN cleaning[o] : k < m /\ cleaning[o][m] = Td(j) BY <1>4
    <2>2. PICK s \in Seq(Entries) : s = cleaning[o] BY Types DEF IInv
    <2>3. k >= 1 /\ k \in Nat /\ m \in Nat BY <2>1, <2>2
    <2>4. m # 1 BY <2>1, <2>3
    <2> QED BY <1>1, <1>2, <2>1, <2>4 DEF TornOnce
  <1> QED BY <1>3, <1>4 DEF TornAfter, ToSet

LEMMA RInvReady == ASSUME IInv, RInv PROVE FixturesAreReady
  <1>1. ASSUME NEW c \in Calls, at[c] = "running", NEW f \in ToSet(Pending(c))
        PROVE  value[c[1]][f] # None /\ instance[value[c[1]][f]] = "inUse"
    <2>1. Ready(c[1], f) BY <1>1 DEF RInv, CallsAreReady, CallIsReady
    <2> QED BY <2>1, OwnerFacts DEF Ready
  <1>2. ASSUME NEW i \in Instances, Live(i), NEW d \in ToSet(Deps[i[2]])
        PROVE  \E j \in Instances : j[2] = d /\ OwnerOf(j) \in {i[1][1], File} /\ instance[j] = "inUse"
    <2>0. i[1] \in Calls /\ i[1][1] \in Tests /\ i[2] \in Fixtures /\ OwnerOf(i) \in Owners /\ File \in Owners /\ OwnerOf(i) \in {i[1][1], File}
      BY InstanceFacts, OwnerFacts DEF OwnerOf
    <2>1. d \in Fixtures BY <2>0, DepsFacts
    <2>2. Outlives(i, d) BY <1>2 DEF RInv, DepsOutlive
    <2>3. CASE d \in FileScoped
      <3>1. OutlivesOfFile(i, d) BY <2>2, <2>3 DEF Outlives
      <3>2. value[File][d] \in Instances \cup {None} BY <2>0, <2>1, Types DEF IInv
      <3>3. PICK j \in Instances : j = value[File][d] BY <3>1, <3>2 DEF OutlivesOfFile
      <3>4. j[2] = d BY <2>3, <3>3, OwnerFacts DEF IInv, FileContext
      <3>5. OwnerOf(j) = File BY <2>3, <3>4 DEF OwnerOf
      <3>6. CASE i[2] \in FileScoped /\ instance[i] # "setup"
        <4>1. TornAfter(File, i, j) BY <3>1, <3>3, <3>6 DEF OutlivesOfFile
        <4> QED BY <2>0, <3>4, <3>5, <4>1, TornAfterIsThere
      <3>7. CASE ~(i[2] \in FileScoped /\ instance[i] # "setup")
        <4>1. stage[File] = "tests"
          <5>1. CASE instance[i] = "setup"
            <6>1. at[i[1]] \in Fixtures BY <2>0, <5>1 DEF IInv, InstancesInPlace, InstanceInPlace
            <6> QED BY <2>0, <6>1, StageOfAwaiting, StageOfCall
          <5>2. CASE i[2] \notin FileScoped
            <6>1. stage[i[1][1]] # "over" BY <1>2, <5>2 DEF IInv, OneInstance, OwnerOf
            <6> QED BY <2>0, <6>1 DEF IInv, CleanupsInPlace
          <5> QED BY <3>7, <5>1, <5>2
        <4>2. instance[j] = "inUse" BY <2>3, <3>1, <3>3, <4>1 DEF RInv, FileStays, OutlivesOfFile
        <4> QED BY <2>0, <3>4, <3>5, <4>2
      <3> QED BY <3>6, <3>7
    <2>4. CASE d \notin FileScoped
      <3>1. PICK j \in Instances :
              /\ j[2] = d /\ OwnerOf(j) = OwnerOf(i)
              /\ IF instance[i] = "setup" THEN Td(j) \in ToSet(cleanups[OwnerOf(i)]) ELSE TornAfter(OwnerOf(i), i, j)
        BY <2>2, <2>4 DEF Outlives, OutlivesOfTest
      <3>2. CASE instance[i] = "setup"
        <4>1. TornOnce(OwnerOf(i)) BY <2>0 DEF RInv, AllTornOnce
        <4>2. Td(j)[1] = "teardown" /\ Td(j)[2] = j BY DEF Td
        <4>3. PICK k \in DOMAIN cleanups[OwnerOf(i)] : cleanups[OwnerOf(i)][k] = Td(j) BY <3>1, <3>2 DEF ToSet
        <4>4. instance[j] = "inUse" BY <4>1, <4>2, <4>3 DEF TornOnce
        <4> QED BY <2>0, <3>1, <4>4
      <3>3. CASE instance[i] # "setup"
        <4>1. instance[j] = "inUse" BY <2>0, <3>1, <3>3, TornAfterIsThere
        <4> QED BY <2>0, <3>1, <4>1
      <3> QED BY <3>2, <3>3
    <2> QED BY <2>3, <2>4
  <1> QED BY <1>1, <1>2 DEF FixturesAreReady

-----------------------------------------------------------------------------
\* Hooks follow each other.
LEMMA BeforeInOrderStep ==
  ASSUME IInv, ~Timeouts, ~Parallel, BeforeInOrder, [Next]_vars
  PROVE  BeforeInOrder'
  \* A call that is over remains so; one that begins is called by the runner.
  <1>1. \A e \in Calls : at[e] = "over" => at'[e] = "over"
    <2> SUFFICES ASSUME NEW e \in Calls, at[e] = "over" PROVE at'[e] = "over" OBVIOUS
    <2>0. at[e] \notin Fixtures BY OwnerFacts
    <2>1. ASSUME NEW o \in Owners, Runner(o) PROVE at' = at
      BY <2>1 DEF Runner, Uncaches, TeardownStarts, TeardownEnds, AttemptStarts, RunTestCalled, NextCalls, InnerCleanup,
                  RunTestReturns, OuterCleanup, AttemptEnds, FileCleanup, FileEnds
    <2>2. ASSUME NEW c \in Calls, NEW last \in Nat, GoesOn(c, last), at[c] # "over" PROVE at'[e] = "over"
      <3>1. GoesIdly(c) \/ \E f \in Fixtures : Starts(c, f) BY <2>2, GoesOnStarts
      <3>2. \E x : at' = [at EXCEPT ![c] = x] BY <3>1 DEF GoesIdly, Starts
      <3>3. e # c BY <2>2
      <3> QED BY <3>2, <3>3, Types DEF IInv
    <2>3. ASSUME NEW c \in Calls, Call(c) PROVE at'[e] = "over"
      <3>1. CASE Begin(c)
        <4>1. GoesOn(c, 0) /\ at[c] # "over" BY <3>1 DEF Begin
        <4> QED BY <2>2, <4>1
      <3>2. CASE AfterFixture(c)
        <4>1. GoesOn(c, Place(c, at[c])) /\ at[c] \in Fixtures BY <3>2 DEF AfterFixture
        <4>2. Place(c, at[c]) \in Nat BY <4>1, PlaceOfAwaited DEF IInv
        <4>3. at[c] # "over" BY <4>1, OwnerFacts
        <4> QED BY <2>2, <4>1, <4>2, <4>3
      <3>3. ASSUME NEW fails \in BOOLEAN, End(c, fails) PROVE at'[e] = "over"
        <4>1. at' = at \/ at' = [at EXCEPT ![c] = "over"] BY <3>3 DEF End
        <4> QED BY <4>1, Types DEF IInv
      <3> QED BY <2>3, <3>1, <3>2, <3>3 DEF Call
    <2>4. ASSUME NEW i \in Instances, Use(i) \/ SetupThrows(i) PROVE at'[e] = "over" BY <2>4 DEF Use, SetupThrows
    <2>5. CASE UNCHANGED vars BY <2>5 DEF vars
    <2> QED BY <2>1, <2>3, <2>4, <2>5 DEF Next
  <1>2. ASSUME NEW e \in Calls, at[e] = "none", at'[e] # "none" PROVE Begin(e)
    <2>0. at[e] \notin Fixtures BY <1>2, OwnerFacts
    <2>1. ASSUME NEW o \in Owners, Runner(o) PROVE at' = at
      BY <2>1 DEF Runner, Uncaches, TeardownStarts, TeardownEnds, AttemptStarts, RunTestCalled, NextCalls, InnerCleanup,
                  RunTestReturns, OuterCleanup, AttemptEnds, FileCleanup, FileEnds
    <2>2. ASSUME NEW c \in Calls, NEW last \in Nat, GoesOn(c, last), c # e PROVE FALSE
      <3>1. GoesIdly(c) \/ \E f \in Fixtures : Starts(c, f) BY <2>2, GoesOnStarts
      <3>2. \E x : at' = [at EXCEPT ![c] = x] BY <3>1 DEF GoesIdly, Starts
      <3> QED BY <1>2, <2>2, <3>2, Types DEF IInv
    <2>3. ASSUME NEW c \in Calls, Call(c) PROVE Begin(e)
      <3>1. CASE Begin(c)
        <4>1. GoesOn(c, 0) BY <3>1 DEF Begin
        <4> QED BY <2>2, <3>1, <4>1
      <3>2. CASE AfterFixture(c)
        <4>1. GoesOn(c, Place(c, at[c])) /\ at[c] \in Fixtures BY <3>2 DEF AfterFixture
        <4>2. Place(c, at[c]) \in Nat BY <4>1, PlaceOfAwaited DEF IInv
        <4>3. c # e BY <2>0, <4>1
        <4> QED BY <2>2, <4>1, <4>2, <4>3
      <3>3. ASSUME NEW fails \in BOOLEAN, End(c, fails) PROVE FALSE
        <4>1. at[c] = "running" /\ at' = [at EXCEPT ![c] = "over"] BY <3>3 DEF End
        <4> QED BY <1>2, <4>1, Types DEF IInv
      <3> QED BY <2>3, <3>1, <3>2, <3>3 DEF Call
    <2>4. ASSUME NEW i \in Instances, Use(i) \/ SetupThrows(i) PROVE FALSE
      <3>1. CASE Use(i) BY <1>2, <3>1 DEF Use
      <3>2. CASE SetupThrows(i)
        <4>1. e \in WhoAwaits(i) BY <1>2, <3>2 DEF SetupThrows
        <4>2. at[i[1]] = i[2] /\ i[2] \in Fixtures
          BY <3>2, InstanceFacts DEF SetupThrows, IInv, InstancesInPlace, InstanceInPlace
        <4> QED BY <2>0, <4>1, <4>2 DEF WhoAwaits
      <3> QED BY <2>4, <3>1, <3>2
    <2>5. CASE UNCHANGED vars BY <1>2, <2>5 DEF vars
    <2> QED BY <1>2, <2>1, <2>3, <2>4, <2>5 DEF Next
  <1> SUFFICES ASSUME NEW c \in Calls, NEW e \in Calls, c[1] = e[1], c[2] = e[2], c[3] = "before1", e[3] = "before2", at'[e] # "none"
               PROVE  at'[c] = "over"
    BY DEF BeforeInOrder
  <1>3. CASE at[e] # "none" BY <1>1, <1>3 DEF BeforeInOrder
  <1>4. CASE at[e] = "none"
    <2>1. Begin(e) BY <1>2, <1>4
    <2>2. Current(e) /\ \A b \in CallsOf(e[1], {"before1"}) : IsOver(b)
      BY <2>1 DEF Begin, MayBegin, Before
    <2>3. c \in CallsOf(e[1], {"before1"}) BY <2>2 DEF CallsOf, Current
    <2>4. at[c] = "over" BY <2>2, <2>3 DEF IsOver, IInv, CallsInPlace
    <2> QED BY <1>1, <2>4
  <1> QED BY <1>3, <1>4

\* The runner goes on, the clean-ups being what they were, or nothing happens.
LEMMA MovesRInv ==
  ASSUME IInv, RInv, BeforeInOrder',
         UNCHANGED <<at, instance, value, cached, cleanups, cleaning>>,
         \A t \in Tests : \/ stage'[t] \notin Active
                          \/ cleanups[t] = <<>> /\ cleaning[t] = <<>> /\ \A c \in Calls : c[1] = t => Idle(c)
                          \/ /\ stage[t] \in Active
                             /\ (stage'[t] \in Inside => stage[t] \in Inside /\ checkpoint'[t] = checkpoint[t])
                                \/ checkpoint'[t] = Len(cleanups[t]),
         stage'[File] = "tests" => stage[File] = "tests"
  PROVE  RInv'
  <1>1. CallsAreReady' BY DEF RInv, CallsAreReady, CallIsReady, Ready, OwnerOf
  <1>2. AllTornOnce' BY DEF RInv, AllTornOnce, TornOnce
  <1>3. DepsOutlive'
    BY DEF RInv, DepsOutlive, Live, Outlives, OutlivesOfFile, OutlivesOfTest, OwnerOf, TornAfter
  <1>4. FileStays' BY DEF RInv, FileStays
  <1>5. CachedIsReady'
    <2> SUFFICES ASSUME NEW t \in Tests, NEW f \in cached[t] PROVE CachedReady(t, f)' BY DEF CachedIsReady
    <2>1. CachedReady(t, f) BY DEF RInv, CachedIsReady
    <2>2. cached[t] \subseteq TestScoped BY Types DEF IInv
    <2>3. CASE cleanups[t] = <<>> /\ cleaning[t] = <<>> /\ \A c \in Calls : c[1] = t => Idle(c)
      <3>1. ToSet(cleanups[t]) = {} /\ ToSet(cleaning[t]) = {} BY <2>3 DEF ToSet
      <3>2. PICK c \in Calls : c[1] = t /\ at[c] = f BY <2>1, <3>1 DEF CachedReady
      <3> QED BY <2>2, <2>3, <3>2, OwnerFacts DEF Idle, Fixtures
    <2>4. CASE stage'[t] \notin Active \/ stage[t] \in Active BY <2>1, <2>4 DEF CachedReady, Ready, OwnerOf
    <2> QED BY <2>3, <2>4
  <1>6. AroundKeeps'
    <2> SUFFICES ASSUME NEW c \in Calls, c[3] = "around", at[c] = "running", NEW f \in ToSet(Pending(c)), f \in TestScoped
                 PROVE  KeptFor(c[1], f)'
      BY DEF AroundKeeps
    <2>0. c[1] \in Tests /\ ~Idle(c) BY CallFacts DEF Idle
    <2>1. PICK k \in DOMAIN cleanups[c[1]] :
            /\ cleanups[c[1]][k] = Td(value[c[1]][f])
            /\ stage[c[1]] \in Inside => k <= checkpoint[c[1]]
      BY DEF RInv, AroundKeeps, KeptFor
    <2>2. k <= Len(cleanups[c[1]])
      <3>1. PICK s \in Seq(Entries) : s = cleanups[c[1]] BY <2>0, OwnerFacts, Types DEF IInv
      <3> QED BY <2>1, <3>1
    <2>3. stage'[c[1]] \in Inside => k <= checkpoint'[c[1]] BY <2>0, <2>1, <2>2 DEF Active
    <2> QED BY <2>1, <2>3 DEF KeptFor, Td
  <1> QED BY <1>1, <1>2, <1>3, <1>4, <1>5, <1>6 DEF RInv

LEMMA MovesKeepRInv ==
  ASSUME IInv, RInv, BeforeInOrder', NEW t \in Tests,
         AttemptStarts(t) \/ RunTestCalled(t) \/ NextCalls(t) \/ RunTestReturns(t) \/ AttemptEnds(t)
  PROVE  RInv'
  <1>0. /\ UNCHANGED <<at, instance, value, cached, cleanups, cleaning>> /\ t \in Owners /\ t # File /\ File \in Owners
    BY OwnerFacts DEF AttemptStarts, RunTestCalled, NextCalls, RunTestReturns, AttemptEnds, resolved
  <1>1. /\ stage'[File] = stage[File]
        /\ \A u \in Tests : u # t => stage'[u] = stage[u] /\ checkpoint'[u] = checkpoint[u]
    BY <1>0, OwnerFacts, Types DEF IInv, AttemptStarts, RunTestCalled, NextCalls, RunTestReturns, AttemptEnds, Goes
  <1>2. \/ stage[t] = "waiting"
        \/ stage[t] = "around" /\ checkpoint'[t] = Len(cleanups[t])
        \/ stage[t] \in Inside /\ checkpoint' = checkpoint
        \/ stage'[t] \notin Active
    <2>1. stage[t] \in {"inner", "outer"} => stage'[t] \notin Active
      BY <1>0, Types DEF IInv, AttemptStarts, RunTestCalled, NextCalls, RunTestReturns, AttemptEnds, Goes, Active, Inside
    <2>2. CASE RunTestCalled(t) BY <2>2, Types DEF IInv, RunTestCalled, Checkpoint
    <2>3. CASE NextCalls(t) BY <2>3 DEF NextCalls, Inside
    <2> QED BY <2>1, <2>2, <2>3 DEF AttemptStarts, RunTestReturns, AttemptEnds
  <1>3. stage[t] = "waiting" => cleanups[t] = <<>> /\ cleaning[t] = <<>> /\ \A c \in Calls : c[1] = t => Idle(c)
    <2> SUFFICES ASSUME stage[t] = "waiting"
                 PROVE  cleanups[t] = <<>> /\ cleaning[t] = <<>> /\ \A c \in Calls : c[1] = t => Idle(c)
      OBVIOUS
    <2>1. cleanups[t] = <<>> /\ cleaning[t] = <<>> BY DEF IInv, CleanupsInPlace
    <2> QED BY <2>1, StageOfCall DEF Active, Inside
  <1>4. \A u \in Tests : \/ stage'[u] \notin Active
                         \/ cleanups[u] = <<>> /\ cleaning[u] = <<>> /\ \A c \in Calls : c[1] = u => Idle(c)
                         \/ /\ stage[u] \in Active
                            /\ (stage'[u] \in Inside => stage[u] \in Inside /\ checkpoint'[u] = checkpoint[u])
                               \/ checkpoint'[u] = Len(cleanups[u])
    <2> TAKE u \in Tests
    <2>1. CASE u # t BY <1>1, <2>1
    <2>2. CASE u = t BY <1>2, <1>3, <2>2 DEF Active
    <2> QED BY <2>1, <2>2
  <1> QED BY <1>0, <1>1, <1>4, MovesRInv

LEMMA FileEndsKeepsRInv ==
  ASSUME IInv, RInv, BeforeInOrder', FileEnds \/ UNCHANGED vars
  PROVE  RInv'
  <1>0. /\ UNCHANGED <<at, instance, value, cached, cleanups, cleaning, checkpoint>> /\ \A t \in Tests : t \in Owners /\ t # File
    BY OwnerFacts DEF FileEnds, vars, resolved, runner
  <1>1. (\A t \in Tests : stage'[t] = stage[t]) /\ (stage'[File] = "tests" => stage[File] = "tests")
    BY <1>0, OwnerFacts, Types DEF IInv, FileEnds, Goes, vars, runner
  <1> QED BY <1>0, <1>1, MovesRInv

\* A hook or test function ends.
LEMMA EndKeepsRInv ==
  ASSUME IInv, RInv, ~Timeouts, BeforeInOrder', NEW c \in Calls, NEW fails \in BOOLEAN, End(c, fails)
  PROVE  RInv'
  <1>0. /\ UNCHANGED <<stage, checkpoint, instance, value, cached, cleanups, cleaning>>
        /\ at[c] = "running" /\ at' = [at EXCEPT ![c] = "over"]
    BY DEF End, runner, resolved
  <1>1. at'[c] = "over" /\ \A e \in Calls : e # c => at'[e] = at[e] BY <1>0, Types DEF IInv
  <1>2. at[c] \notin Fixtures /\ at'[c] \notin Fixtures BY <1>0, <1>1, OwnerFacts
  <1>3. CallsAreReady'
    <2> SUFFICES ASSUME NEW e \in Calls PROVE CallIsReady(e)' BY DEF CallsAreReady
    <2>1. CallIsReady(e) BY DEF RInv, CallsAreReady
    <2> QED BY <1>0, <1>1, <1>2, <2>1 DEF CallIsReady, Ready, OwnerOf
  <1>4. AllTornOnce' BY <1>0 DEF RInv, AllTornOnce, TornOnce
  <1>5. DepsOutlive'
    BY <1>0 DEF RInv, DepsOutlive, Live, Outlives, OutlivesOfFile, OutlivesOfTest, OwnerOf, TornAfter
  <1>6. FileStays' BY <1>0 DEF RInv, FileStays
  <1>7. CachedIsReady'
    <2> SUFFICES ASSUME NEW t \in Tests, NEW f \in cached[t] PROVE CachedReady(t, f)' BY <1>0 DEF CachedIsReady
    <2>1. CachedReady(t, f) BY DEF RInv, CachedIsReady
    <2>2. f \in Fixtures BY Types DEF IInv, Fixtures
    <2> QED BY <1>0, <1>1, <1>2, <2>1, <2>2 DEF CachedReady, Ready, OwnerOf
  <1>8. AroundKeeps' BY <1>0, <1>1 DEF RInv, AroundKeeps, KeptFor
  <1> QED BY <1>3, <1>4, <1>5, <1>6, <1>7, <1>8 DEF RInv

-----------------------------------------------------------------------------
\* The clean-ups from the k-th on leave the map, to run the other way round.
CutsAt(o, k) ==
  LET n == Len(cleanups[o]) IN
  /\ k <= n /\ cleaning[o] = <<>>
  /\ DOMAIN cleanups'[o] = 1..k /\ \A m \in 1..k : cleanups'[o][m] = cleanups[o][m]
  /\ DOMAIN cleaning'[o] = 1..(n - k) /\ \A m \in 1..(n - k) : cleaning'[o][m] = cleanups[o][(n + 1) - m]
  /\ \A p \in Owners : p # o => cleanups'[p] = cleanups[p] /\ cleaning'[p] = cleaning[p]

LEMMA CutFacts ==
  ASSUME IInv, NEW o \in Owners, NEW k \in Nat, CutsAt(o, k)
  PROVE  \E n \in Nat :
           /\ n = Len(cleanups[o]) /\ k <= n /\ DOMAIN cleanups[o] = 1..n
           /\ DOMAIN cleanups'[o] = 1..k /\ \A m \in 1..k : m \in 1..n /\ cleanups'[o][m] = cleanups[o][m]
           /\ DOMAIN cleaning'[o] = 1..(n - k)
           /\ \A m \in 1..(n - k) : /\ (n + 1) - m \in 1..n /\ (n + 1) - m > k
                                    /\ cleaning'[o][m] = cleanups[o][(n + 1) - m]
           /\ \A m \in 1..n : m > k => /\ (n + 1) - m \in 1..(n - k)
                                       /\ cleaning'[o][(n + 1) - m] = cleanups[o][m]
           /\ DOMAIN cleaning[o] = {}
  <1>1. PICK s \in Seq(Entries) : s = cleanups[o] BY Types DEF IInv
  <1>2. PICK n \in Nat : n = Len(s) OBVIOUS
  <1>3. DOMAIN s = 1..n BY <1>2
  <1>4. \A m \in 1..(n - k) : (n + 1) - m \in 1..n /\ (n + 1) - m > k BY <1>1, <1>2 DEF CutsAt
  <1>5. \A m \in 1..n : m > k => (n + 1) - m \in 1..(n - k) /\ (n + 1) - ((n + 1) - m) = m BY <1>1, <1>2 DEF CutsAt
  <1>6. \A m \in 1..(n - k) : cleaning'[o][m] = cleanups[o][(n + 1) - m] BY <1>1, <1>2 DEF CutsAt
  <1>7. \A m \in 1..n : m > k => cleaning'[o][(n + 1) - m] = cleanups[o][m] BY <1>5, <1>6
  <1>8. DOMAIN cleaning[o] = {} BY DEF CutsAt
  <1>9. k <= n /\ DOMAIN cleanups'[o] = 1..k /\ DOMAIN cleaning'[o] = 1..(n - k) /\ \A m \in 1..k : cleanups'[o][m] = cleanups[o][m]
    BY <1>1, <1>2 DEF CutsAt
  <1>10. \A m \in 1..k : m \in 1..n BY <1>9
  <1>11. n = Len(cleanups[o]) /\ DOMAIN cleanups[o] = 1..n BY <1>1, <1>2, <1>3
  <1> QED BY <1>4, <1>5, <1>6, <1>7, <1>8, <1>9, <1>10, <1>11

LEMMA CutTornOnce ==
  ASSUME IInv, AllTornOnce, NEW o \in Owners, NEW k \in Nat, CutsAt(o, k), UNCHANGED instance
  PROVE  AllTornOnce'
  <1> SUFFICES ASSUME NEW p \in Owners PROVE TornOnce(p)' BY DEF AllTornOnce
  <1>1. TornOnce(p) BY DEF AllTornOnce
  <1>2. CASE p # o
    <2>1. cleanups'[p] = cleanups[p] /\ cleaning'[p] = cleaning[p] BY <1>2 DEF CutsAt
    <2> QED BY <1>1, <2>1 DEF TornOnce
  <1>3. CASE p = o
    <2>1. PICK n \in Nat :
           /\ n = Len(cleanups[o]) /\ k <= n /\ DOMAIN cleanups[o] = 1..n
           /\ DOMAIN cleanups'[o] = 1..k /\ \A m \in 1..k : m \in 1..n /\ cleanups'[o][m] = cleanups[o][m]
           /\ DOMAIN cleaning'[o] = 1..(n - k)
           /\ \A m \in 1..(n - k) : /\ (n + 1) - m \in 1..n /\ (n + 1) - m > k
                                    /\ cleaning'[o][m] = cleanups[o][(n + 1) - m]
           /\ \A m \in 1..n : m > k => /\ (n + 1) - m \in 1..(n - k)
                                       /\ cleaning'[o][(n + 1) - m] = cleanups[o][m]
           /\ DOMAIN cleaning[o] = {}
      BY CutFacts
    <2>2. \A a, b \in 1..n : cleanups[o][a] = cleanups[o][b] /\ cleanups[o][a][1] = "teardown" => a = b
      <3>1. DOMAIN cleanups[o] = 1..n BY <2>1
      <3> QED BY <1>1, <1>3, <3>1 DEF TornOnce
    <2>3. \A a \in 1..n : cleanups[o][a][1] = "teardown" => instance[cleanups[o][a][2]] = "inUse"
      <3>1. DOMAIN cleanups[o] = 1..n BY <2>1
      <3> QED BY <1>1, <1>3, <3>1 DEF TornOnce
    <2>4. \A a, b \in 1..k : cleanups'[o][a] = cleanups'[o][b] /\ cleanups'[o][a][1] = "teardown" => a = b BY <2>1, <2>2
    <2>5. ASSUME NEW a \in 1..(n - k), NEW b \in 1..(n - k), cleaning'[o][a] = cleaning'[o][b], cleaning'[o][a][1] = "teardown"
          PROVE  a = b
      <3>1. PICK a2 \in 1..n : a2 = (n + 1) - a /\ cleaning'[o][a] = cleanups[o][a2] BY <2>1
      <3>2. PICK b2 \in 1..n : b2 = (n + 1) - b /\ cleaning'[o][b] = cleanups[o][b2] BY <2>1
      <3>3. a2 = b2 BY <2>2, <2>5, <3>1, <3>2
      <3> QED BY <3>1, <3>2, <3>3
    <2>6. \A a \in 1..k : cleanups'[o][a][1] = "teardown" => instance[cleanups'[o][a][2]] = "inUse" BY <2>1, <2>3
    <2>7. ASSUME NEW a \in 1..k, NEW b \in 1..(n - k), cleanups'[o][a][1] = "teardown", cleaning'[o][b] = cleanups'[o][a]
          PROVE  FALSE
      <3>1. PICK b2 \in 1..n : b2 = (n + 1) - b /\ b2 > k /\ cleaning'[o][b] = cleanups[o][b2] BY <2>1
      <3>2. a \in 1..n /\ cleanups'[o][a] = cleanups[o][a] BY <2>1
      <3>3. a = b2 BY <2>2, <2>7, <3>1, <3>2
      <3> QED BY <3>1, <3>3
    <2>8. ASSUME NEW b \in 1..(n - k), cleaning'[o][b][1] = "teardown" PROVE instance[cleaning'[o][b][2]] = "inUse"
      <3>1. PICK b2 \in 1..n : cleaning'[o][b] = cleanups[o][b2] BY <2>1
      <3> QED BY <2>3, <2>8, <3>1
    <2>9. DOMAIN cleanups'[p] = 1..k /\ DOMAIN cleaning'[p] = 1..(n - k) BY <1>3, <2>1
    <2> QED BY <1>3, <2>4, <2>5, <2>6, <2>7, <2>8, <2>9 DEF TornOnce
  <1> QED BY <1>2, <1>3

LEMMA CutTornAfter ==
  ASSUME IInv, NEW o \in Owners, NEW k \in Nat, CutsAt(o, k), NEW p \in Owners, NEW i, NEW j, TornAfter(p, i, j)
  PROVE  TornAfter(p, i, j)'
  <1>1. CASE p # o
    <2>1. cleanups'[p] = cleanups[p] /\ cleaning'[p] = cleaning[p] BY <1>1 DEF CutsAt
    <2> QED BY <2>1 DEF TornAfter, Td
  <1>2. CASE p = o
    <2>1. PICK n \in Nat :
           /\ n = Len(cleanups[o]) /\ k <= n /\ DOMAIN cleanups[o] = 1..n
           /\ DOMAIN cleanups'[o] = 1..k /\ \A m \in 1..k : m \in 1..n /\ cleanups'[o][m] = cleanups[o][m]
           /\ DOMAIN cleaning'[o] = 1..(n - k)
           /\ \A m \in 1..(n - k) : /\ (n + 1) - m \in 1..n /\ (n + 1) - m > k
                                    /\ cleaning'[o][m] = cleanups[o][(n + 1) - m]
           /\ \A m \in 1..n : m > k => /\ (n + 1) - m \in 1..(n - k)
                                       /\ cleaning'[o][(n + 1) - m] = cleanups[o][m]
           /\ DOMAIN cleaning[o] = {}
      BY CutFacts
    <2>2. PICK a \in 1..n, b \in 1..n : b < a /\ cleanups[o][a] = Td(i) /\ cleanups[o][b] = Td(j)
      BY <1>2, <2>1 DEF TornAfter, ToSet
    <2>3. CASE a <= k
      <3>1. a \in 1..k /\ b \in 1..k BY <2>2, <2>3
      <3>2. cleanups'[o][a] = Td(i) /\ cleanups'[o][b] = Td(j) BY <2>1, <2>2, <3>1
      <3> QED BY <1>2, <2>1, <2>2, <3>1, <3>2 DEF TornAfter, Td
    <2>4. CASE a > k /\ b <= k
      <3>1. b \in 1..k BY <2>4
      <3>2. cleanups'[o][b] = Td(j) BY <2>1, <2>2, <3>1
      <3>3. (n + 1) - a \in 1..(n - k) /\ cleaning'[o][(n + 1) - a] = Td(i) BY <2>1, <2>2, <2>4
      <3>4. Td(i) \in ToSet(cleaning'[o]) /\ Td(j) \in ToSet(cleanups'[o]) BY <2>1, <3>1, <3>2, <3>3 DEF ToSet
      <3> QED BY <1>2, <3>4 DEF TornAfter, Td
    <2>5. CASE a > k /\ b > k
      <3>1. (n + 1) - a \in 1..(n - k) /\ cleaning'[o][(n + 1) - a] = Td(i) BY <2>1, <2>2, <2>5
      <3>2. (n + 1) - b \in 1..(n - k) /\ cleaning'[o][(n + 1) - b] = Td(j) BY <2>1, <2>2, <2>5
      <3>3. (n + 1) - a < (n + 1) - b BY <2>2
      <3>4. PICK a2 \in 1..(n - k), b2 \in 1..(n - k) : a2 < b2 /\ cleaning'[o][a2] = Td(i) /\ cleaning'[o][b2] = Td(j)
        BY <3>1, <3>2, <3>3
      <3> QED BY <1>2, <2>1, <3>4 DEF TornAfter, Td
    <2> QED BY <2>3, <2>4, <2>5
  <1> QED BY <1>1, <1>2

\* Nobody of the owner of the clean-ups calls, but for the hook around the test.
LEMMA CutsKeepRInv ==
  ASSUME IInv, IInv', RInv, BeforeInOrder', NEW o \in Owners, NEW k \in Nat, CutsAt(o, k),
         UNCHANGED <<at, instance, value, cached, checkpoint>>,
         stage'[o] \notin Active, \A p \in Owners : p # o => stage'[p] = stage[p],
         stage'[File] = "tests" => stage[File] = "tests",
         \A c \in Calls : /\ c[1] = o \/ o = File => at[c] \notin Fixtures
                          /\ c[1] = o /\ at[c] = "running" => stage[o] \in Inside /\ checkpoint[o] <= k
  PROVE  RInv'
  <1>1. CallsAreReady' BY DEF RInv, CallsAreReady, CallIsReady, Ready, OwnerOf
  <1>2. AllTornOnce' BY CutTornOnce DEF RInv
  <1>3. FileStays' BY DEF RInv, FileStays
  <1>4. DepsOutlive'
    <2> SUFFICES ASSUME NEW i \in Instances, Live(i), NEW d \in ToSet(Deps[i[2]]) PROVE Outlives(i, d)'
      BY DEF DepsOutlive, Live
    <2>0. i[1] \in Calls /\ i[2] \in Fixtures /\ OwnerOf(i) \in Owners /\ File \in Owners BY InstanceFacts, OwnerFacts
    <2>1. Outlives(i, d) BY DEF RInv, DepsOutlive
    <2>2. CASE d \in FileScoped
      <3>1. OutlivesOfFile(i, d) BY <2>1, <2>2 DEF Outlives
      <3>2. PICK j : j = value[File][d] OBVIOUS
      <3>3. i[2] \in FileScoped /\ instance[i] # "setup" => TornAfter(File, i, j)
        BY <3>1, <3>2 DEF OutlivesOfFile
      <3>4. i[2] \in FileScoped /\ instance[i] # "setup" => TornAfter(File, i, j)' BY <2>0, <3>3, CutTornAfter
      <3>5. j = value'[File][d] /\ j # None BY <3>1, <3>2 DEF OutlivesOfFile
      <3> QED BY <2>2, <3>4, <3>5 DEF Outlives, OutlivesOfFile, TornAfter, Td
    <2>3. CASE d \notin FileScoped
      <3>0. i[2] \notin FileScoped BY <2>0, <2>3, DepsFacts
      <3>1. PICK j \in Instances :
              /\ j[2] = d /\ OwnerOf(j) = OwnerOf(i)
              /\ IF instance[i] = "setup" THEN Td(j) \in ToSet(cleanups[OwnerOf(i)]) ELSE TornAfter(OwnerOf(i), i, j)
        BY <2>1, <2>3 DEF Outlives, OutlivesOfTest
      <3>2. CASE instance[i] = "setup"
        <4>1. at[i[1]] \in Fixtures BY <2>0, <3>2 DEF IInv, InstancesInPlace, InstanceInPlace
        <4>2. OwnerOf(i) # o BY <2>0, <3>0, <4>1 DEF OwnerOf
        <4>3. cleanups'[OwnerOf(i)] = cleanups[OwnerOf(i)] BY <2>0, <4>2 DEF CutsAt
        <4> QED BY <2>3, <3>1, <3>2, <4>3 DEF Outlives, OutlivesOfTest, OwnerOf, Td
      <3>3. CASE instance[i] # "setup"
        <4>1. TornAfter(OwnerOf(i), i, j) BY <3>1, <3>3
        <4>2. PICK p \in Owners : p = OwnerOf(i) BY <2>0
        <4>3. TornAfter(p, i, j)' BY SMTT(30), <4>1, <4>2, CutTornAfter
        <4>4. TornAfter(OwnerOf(i), i, j)' BY <4>2, <4>3 DEF TornAfter, OwnerOf
        <4> QED BY <2>3, <3>1, <3>3, <4>4 DEF Outlives, OutlivesOfTest, OwnerOf
      <3> QED BY <3>2, <3>3
    <2> QED BY <2>2, <2>3
  <1>5. CachedIsReady'
    <2> SUFFICES ASSUME NEW t \in Tests, NEW f \in cached[t] PROVE CachedReady(t, f)' BY DEF CachedIsReady
    <2>1. CachedReady(t, f) /\ t \in Owners BY OwnerFacts DEF RInv, CachedIsReady
    <2>2. CASE \E c \in Calls : c[1] = t /\ at[c] = f BY <2>2 DEF CachedReady
    <2>3. CASE Un(f) \in ToSet(cleanups[t]) \cup ToSet(cleaning[t]) /\ (stage[t] \in Active => Ready(t, f))
      <3>1. CASE t # o
        <4>1. cleanups'[t] = cleanups[t] /\ cleaning'[t] = cleaning[t] BY <2>1, <3>1 DEF CutsAt
        <4> QED BY <2>1, <2>3, <3>1, <4>1 DEF CachedReady, Ready, OwnerOf, Un
      <3>2. CASE t = o
        <4>1. PICK n \in Nat :
           /\ n = Len(cleanups[o]) /\ k <= n /\ DOMAIN cleanups[o] = 1..n
           /\ DOMAIN cleanups'[o] = 1..k /\ \A m \in 1..k : m \in 1..n /\ cleanups'[o][m] = cleanups[o][m]
           /\ DOMAIN cleaning'[o] = 1..(n - k)
           /\ \A m \in 1..(n - k) : /\ (n + 1) - m \in 1..n /\ (n + 1) - m > k
                                    /\ cleaning'[o][m] = cleanups[o][(n + 1) - m]
           /\ \A m \in 1..n : m > k => /\ (n + 1) - m \in 1..(n - k)
                                       /\ cleaning'[o][(n + 1) - m] = cleanups[o][m]
           /\ DOMAIN cleaning[o] = {}
          BY CutFacts
        <4>2. PICK a \in 1..n : cleanups[o][a] = Un(f) BY <2>3, <3>2, <4>1 DEF ToSet
        <4>3. a > k \/ a \in 1..k BY <4>1
        <4>4. Un(f) \in ToSet(cleanups'[o]) \cup ToSet(cleaning'[o])
          <5>1. CASE a \in 1..k
            <6>1. cleanups'[o][a] = cleanups[o][a] /\ DOMAIN cleanups'[o] = 1..k BY <4>1, <5>1
            <6> QED BY <4>2, <5>1, <6>1 DEF ToSet
          <5>2. CASE a > k
            <6>1. PICK b \in 1..(n - k) : cleaning'[o][b] = cleanups[o][a] BY <4>1, <5>2
            <6>2. DOMAIN cleaning'[o] = 1..(n - k) BY <4>1
            <6> QED BY <4>2, <6>1, <6>2 DEF ToSet
          <5> QED BY <4>3, <5>1, <5>2
        <4> QED BY <3>2, <4>4 DEF CachedReady, Un
      <3> QED BY <3>1, <3>2
    <2> QED BY <2>1, <2>2, <2>3 DEF CachedReady
  <1>6. AroundKeeps'
    <2> SUFFICES ASSUME NEW c \in Calls, c[3] = "around", at[c] = "running", NEW f \in ToSet(Pending(c)), f \in TestScoped
                 PROVE  KeptFor(c[1], f)'
      BY DEF AroundKeeps
    <2>0. c[1] \in Tests /\ c[1] \in Owners BY CallFacts, OwnerFacts
    <2>1. KeptFor(c[1], f) BY DEF RInv, AroundKeeps
    <2>2. CASE c[1] # o
      <3>1. cleanups'[c[1]] = cleanups[c[1]] /\ stage'[c[1]] = stage[c[1]] BY <2>0, <2>2 DEF CutsAt
      <3> QED BY <2>1, <3>1 DEF KeptFor, Td
    <2>3. CASE c[1] = o
      <3>1. stage[o] \in Inside /\ checkpoint[o] <= k BY <2>3
      <3>2. PICK a \in DOMAIN cleanups[o] : cleanups[o][a] = Td(value[o][f]) /\ a <= checkpoint[o]
        BY <2>1, <2>3, <3>1 DEF KeptFor
      <3>3. PICK s \in Seq(Entries) : s = cleanups[o] BY Types DEF IInv
      <3>4. checkpoint[o] \in Nat BY <2>0, <2>3, Types DEF IInv
      <3>5. a \in 1..k BY <3>1, <3>2, <3>3, <3>4
      <3>6. a \in DOMAIN cleanups'[o] /\ cleanups'[o][a] = cleanups[o][a] BY <3>5 DEF CutsAt
      <3> QED BY <2>3, <3>2, <3>6 DEF KeptFor, Td, Active
    <2> QED BY <2>2, <2>3
  <1> QED BY <1>1, <1>2, <1>3, <1>4, <1>5, <1>6 DEF RInv

LEMMA WholeCut ==
  ASSUME NEW S, NEW s \in Seq(S)
  PROVE  /\ DOMAIN Reverse(s) = 1..(Len(s) - 0) /\ Len(s) \in Nat
         /\ \A m \in 1..(Len(s) - 0) : Reverse(s)[m] = s[(Len(s) + 1) - m]
  <1>1. PICK n \in Nat : n = Len(s) OBVIOUS
  <1>2. DOMAIN Reverse(s) = 1..n /\ \A m \in 1..n : Reverse(s)[m] = s[(n - m) + 1] BY <1>1 DEF Reverse
  <1>3. \A m \in 1..n : (n - m) + 1 = (n + 1) - m OBVIOUS
  <1> QED BY <1>1, <1>2, <1>3

LEMMA PartCut ==
  ASSUME NEW S, NEW s \in Seq(S), NEW k \in Nat, k < Len(s)
  PROVE  /\ DOMAIN SubSeq(s, 1, k) = 1..k /\ \A m \in 1..k : SubSeq(s, 1, k)[m] = s[m]
         /\ DOMAIN Reverse(SubSeq(s, k + 1, Len(s))) = 1..(Len(s) - k)
         /\ \A m \in 1..(Len(s) - k) : Reverse(SubSeq(s, k + 1, Len(s)))[m] = s[(Len(s) + 1) - m]
  <1>1. PICK n \in Nat : n = Len(s) OBVIOUS
  <1>2. DOMAIN SubSeq(s, 1, k) = 1..k /\ \A m \in 1..k : SubSeq(s, 1, k)[m] = s[m] BY <1>1
  <1>3. /\ SubSeq(s, k + 1, n) \in Seq(S) /\ Len(SubSeq(s, k + 1, n)) = n - k
        /\ \A m \in 1..(n - k) : SubSeq(s, k + 1, n)[m] = s[k + m]
    <2>1. k + 1 \in 1..(n + 1) /\ n \in (k + 1) - 1..n BY <1>1
    <2> QED BY <1>1
  <1>4. PICK r \in Seq(S) : r = SubSeq(s, k + 1, n) BY <1>3
  <1>5. PICK l \in Nat : l = n - k
    <2>1. k < n BY <1>1
    <2>2. n - k \in Nat BY <2>1
    <2> QED BY <2>2
  <1>6. Len(r) = l /\ \A m \in 1..l : r[m] = s[k + m] BY <1>3, <1>4, <1>5
  <1>7. DOMAIN Reverse(r) = 1..l /\ \A m \in 1..l : Reverse(r)[m] = r[(l - m) + 1] BY <1>6 DEF Reverse
  <1>8. ASSUME NEW m \in 1..l PROVE Reverse(r)[m] = s[(n + 1) - m]
    <2>1. PICK j \in 1..l : j = (l - m) + 1 OBVIOUS
    <2>2. k + j = (n + 1) - m BY <1>5, <2>1
    <2>3. Reverse(r)[m] = r[j] BY <1>7, <2>1
    <2>4. r[j] = s[k + j] BY <1>6
    <2> QED BY <2>2, <2>3, <2>4
  <1> QED BY <1>1, <1>2, <1>4, <1>5, <1>7, <1>8

LEMMA InnerKeepsRInv ==
  ASSUME IInv, IInv', RInv, BeforeInOrder', NEW t \in Tests, InnerCleanup(t)
  PROVE  RInv'
  <1>0. /\ UNCHANGED <<attempt, checkpoint, at, instance, value, cached>>
        /\ stage[t] = "after" /\ t \in Owners /\ t # File /\ File \in Owners
    BY OwnerFacts DEF InnerCleanup, resolved
  <1>1. PICK s \in Seq(Entries) : s = cleanups[t] BY <1>0, Types DEF IInv
  <1>2. PICK cp \in Nat : cp = checkpoint[t] BY Types DEF IInv
  <1>3. PICK n \in Nat : n = Len(s) OBVIOUS
  <1>4. cleaning[t] = <<>> /\ cp <= n BY <1>0, <1>1, <1>2, <1>3 DEF IInv, CleanupsInPlace, Inside
  <1>5. /\ stage'[t] = "inner" /\ \A o \in Owners : o # t => /\ stage'[o] = stage[o] /\ cleanups'[o] = cleanups[o]
                                                            /\ cleaning'[o] = cleaning[o]
    BY <1>0, Types DEF IInv, InnerCleanup, Goes
  <1>6. \E k \in Nat : CutsAt(t, k) /\ cp <= k
    <2>1. CASE cleanups' = cleanups /\ cleaning' = cleaning
      <3>1. DOMAIN s = 1..n /\ n <= n /\ DOMAIN cleaning[t] = 1..(n - n) BY <1>3, <1>4
      <3>2. \A m \in 1..(n - n) : FALSE OBVIOUS
      <3>3. CutsAt(t, n) BY <1>1, <1>3, <1>4, <2>1, <3>1, <3>2 DEF CutsAt
      <3> QED BY <1>4, <3>3
    <2>2. CASE ~(cleanups' = cleanups /\ cleaning' = cleaning)
      <3>1. cp < n /\ cleaning'[t] = Reverse(SubSeq(s, cp + 1, n)) /\ cleanups'[t] = SubSeq(s, 1, cp)
        BY <1>0, <1>1, <1>2, <1>3, <2>2, Types DEF IInv, InnerCleanup
      <3>2. /\ DOMAIN SubSeq(s, 1, cp) = 1..cp /\ \A m \in 1..cp : SubSeq(s, 1, cp)[m] = s[m]
            /\ DOMAIN Reverse(SubSeq(s, cp + 1, n)) = 1..(n - cp)
            /\ \A m \in 1..(n - cp) : Reverse(SubSeq(s, cp + 1, n))[m] = s[(n + 1) - m]
        BY <1>3, <3>1, PartCut
      <3>3. CutsAt(t, cp) BY <1>1, <1>3, <1>4, <1>5, <3>1, <3>2 DEF CutsAt
      <3> QED BY <3>3
    <2> QED BY <2>1, <2>2
  <1>7. PICK k \in Nat : CutsAt(t, k) /\ cp <= k BY <1>6
  <1>8. \A c \in Calls : c[1] = t => at[c] \notin Fixtures
    <2> SUFFICES ASSUME NEW c \in Calls, c[1] = t, at[c] \in Fixtures PROVE FALSE OBVIOUS
    <2>1. ~Idle(c) BY StageOfAwaiting
    <2>2. InPlace(c) /\ Current(c) BY <2>1, StageOfCall DEF IInv, CallsInPlace
    <2>3. \A e \in CallsOf(t, {"after"}) : Idle(e) BY DEF IInv, CallsInPlace, InnerCleanup, IsOver, Idle
    <2>4. c[3] # "after" BY <2>1, <2>2, <2>3 DEF CallsOf, Current
    <2>5. c[3] = "around" BY <1>0, <2>2, <2>4, CallFacts DEF InPlace, Before
    <2>6. at[c] = "running" BY <1>0, <2>2, <2>5 DEF InPlace
    <2> QED BY <2>6, OwnerFacts
  <1>9. stage'[t] \notin Active BY <1>5 DEF Active, Inside
  <1>10. /\ \A p \in Owners : p # t => stage'[p] = stage[p]
         /\ stage'[File] = "tests" => stage[File] = "tests"
         /\ \A c \in Calls : /\ c[1] = t \/ t = File => at[c] \notin Fixtures
                             /\ c[1] = t /\ at[c] = "running" => stage[t] \in Inside /\ checkpoint[t] <= k
    BY <1>0, <1>2, <1>5, <1>7, <1>8 DEF Inside
  <1> QED BY <1>0, <1>7, <1>9, <1>10, CutsKeepRInv

LEMMA TakesAllKeepsRInv ==
  ASSUME IInv, IInv', RInv, BeforeInOrder', NEW o \in Owners, (o \in Tests /\ OuterCleanup(o)) \/ (o = File /\ FileCleanup)
  PROVE  RInv'
  <1>0. /\ UNCHANGED <<attempt, checkpoint, at, instance, value, cached>>
        /\ File \in Owners /\ File \notin Tests /\ cleaning[o] = <<>>
    <2>1. o \in Tests => cleaning[o] = <<>> BY DEF IInv, CleanupsInPlace, OuterCleanup
    <2>2. o = File => cleaning[o] = <<>> BY OwnerFacts DEF IInv, CleanupsInPlace, FileCleanup, OuterCleanup
    <2> QED BY <2>1, <2>2, OwnerFacts DEF OuterCleanup, FileCleanup, resolved
  <1>1. PICK s \in Seq(Entries) : s = cleanups[o] BY Types DEF IInv
  <1>2. PICK n \in Nat : n = Len(s) OBVIOUS
  <1>3. /\ cleaning'[o] = Reverse(s) /\ cleanups'[o] = <<>>
        /\ \A p \in Owners : p # o => stage'[p] = stage[p] /\ cleanups'[p] = cleanups[p] /\ cleaning'[p] = cleaning[p]
    BY <1>1, Types DEF IInv, OuterCleanup, FileCleanup, CleansUp, Goes
  <1>4. CutsAt(o, 0)
    <2>1. /\ DOMAIN Reverse(s) = 1..(n - 0)
          /\ \A m \in 1..(n - 0) : Reverse(s)[m] = s[(n + 1) - m]
      BY <1>2, WholeCut
    <2>2. DOMAIN <<>> = 1..0 /\ 0 <= n /\ \A m \in 1..0 : FALSE OBVIOUS
    <2> QED BY <1>0, <1>1, <1>2, <1>3, <2>1, <2>2 DEF CutsAt
  <1>5. (o \in Tests /\ stage'[o] = "outer" /\ stage[o] \in {"around", "aroundEnds"})
        \/ (o = File /\ stage'[o] = "cleaning" /\ \A u \in Tests : stage[u] = "over")
    BY <1>0, Types DEF IInv, OuterCleanup, FileCleanup, Goes
  <1>6. \A c \in Calls : c[1] = o \/ o = File => Idle(c)
    <2> SUFFICES ASSUME NEW c \in Calls, c[1] = o \/ o = File, ~Idle(c) PROVE FALSE OBVIOUS
    <2>0. c[1] \in Tests /\ c[3] \in Before \cup {"around", "fn", "after"} BY CallFacts
    <2>1. InPlace(c) /\ Current(c) /\ stage[c[1]] \in Active \cup {"inner", "aroundEnds"} BY StageOfCall DEF IInv, CallsInPlace
    <2>2. o # File BY <1>0, <1>5, <2>0, <2>1 DEF Active, Inside
    <2>3. c[3] = "around" BY <1>0, <1>5, <2>0, <2>1, <2>2 DEF InPlace, Before
    <2>4. OuterCleanup(o) BY <2>2
    <2>5. \A e \in CallsOf(o, {"around"}) : Idle(e) BY <2>4 DEF OuterCleanup, Idle
    <2> QED BY <2>1, <2>2, <2>3, <2>5 DEF CallsOf, Current
  <1>7. \A c \in Calls : /\ c[1] = o \/ o = File => at[c] \notin Fixtures
                         /\ c[1] = o /\ at[c] = "running" => stage[o] \in Inside /\ checkpoint[o] <= 0
    BY <1>6, OwnerFacts DEF Idle
  <1>8. stage'[o] \notin Active /\ (stage'[File] = "tests" => stage[File] = "tests")
    BY <1>0, <1>3, <1>5 DEF Active, Inside
  <1>9. 0 \in Nat OBVIOUS
  <1> QED BY <1>0, <1>3, <1>4, <1>7, <1>8, <1>9, CutsKeepRInv

-----------------------------------------------------------------------------
\* runFixtureCleanups calls one function, or one returns.
LEMMA CleaningKeepsRInv ==
  ASSUME IInv, IInv', RInv, BeforeInOrder', NEW o \in Owners, NEW fails \in BOOLEAN,
         Uncaches(o) \/ TeardownStarts(o) \/ TeardownEnds(o, fails)
  PROVE  RInv'
  <1>0. /\ UNCHANGED <<stage, checkpoint, at, value, promise, cleanups>>
        /\ cleaning[o] # <<>> /\ File \in Owners /\ File \notin Tests
    BY OwnerFacts DEF Uncaches, TeardownStarts, TeardownEnds, runner
  <1>1. PICK s \in Seq(Entries) : s = cleaning[o] BY Types DEF IInv
  <1>2. PICK n \in Nat : n = Len(s) OBVIOUS
  <1>3. PICK e \in Entries : e = Head(cleaning[o]) BY <1>0, HeadFacts DEF IInv, TypedInv
  <1>4. PICK r \in Seq(Entries) : r = Tail(cleaning[o]) BY <1>0, HeadFacts DEF IInv, TypedInv
  <1>5. /\ DOMAIN s = 1..n /\ n > 0 /\ s[1] = e /\ 1 \in 1..n
        /\ DOMAIN r = 1..(n - 1) /\ \A m \in 1..(n - 1) : r[m] = s[m + 1] /\ m + 1 \in 1..n /\ m + 1 # 1 /\ m >= 1
        /\ \A m \in 1..n : m # 1 => m - 1 \in 1..(n - 1) /\ r[m - 1] = s[m]
    <2>1. s # <<>> /\ e = s[1] /\ r = Tail(s) BY <1>0, <1>1, <1>3, <1>4
    <2>2. n > 0 /\ DOMAIN s = 1..n /\ DOMAIN r = 1..(n - 1) /\ \A m \in 1..(n - 1) : r[m] = s[m + 1] BY <1>2, <2>1
    <2>3. \A m \in 1..(n - 1) : m + 1 \in 1..n /\ m + 1 # 1 /\ m >= 1 BY <2>2
    <2>4. \A m \in 1..n : m # 1 => m - 1 \in 1..(n - 1) /\ (m - 1) + 1 = m BY <2>2
    <2>5. \A m \in 1..n : m # 1 => m - 1 \in 1..(n - 1) /\ r[m - 1] = s[m] BY <2>2, <2>4
    <2> QED BY <2>1, <2>2, <2>3, <2>5
  <1>6. /\ e[1] = "uncache" => o \in Tests /\ e[2] \in TestScoped /\ e = Un(e[2])
        /\ e[1] = "teardown" => e[2] \in Instances /\ e = Td(e[2]) /\ OwnerOf(e[2]) = o
    <2>1. e \in ToSet(cleaning[o]) BY <1>1, <1>5 DEF ToSet
    <2>2. e[1] = "uncache" => o \in Tests BY <2>1 DEF IInv, EntriesInPlace
    <2>3. e[1] = "teardown" => OwnerOf(e[2]) = o BY <2>1 DEF IInv, EntriesInPlace
    <2> QED BY <1>0, <1>3, <2>2, <2>3, HeadFacts DEF IInv, TypedInv
  <1>7. \/ /\ e[1] = "uncache" /\ cached' = [cached EXCEPT ![o] = @ \ {e[2]}] /\ instance' = instance
           /\ cleaning' = [cleaning EXCEPT ![o] = r]
        \/ /\ e[1] = "teardown" /\ cached' = cached /\ instance[e[2]] = "inUse"
           /\ instance' = [instance EXCEPT ![e[2]] = "tearing"] /\ cleaning' = cleaning
        \/ /\ e[1] = "teardown" /\ cached' = cached /\ instance[e[2]] = "tearing"
           /\ instance' = [instance EXCEPT ![e[2]] = "over"] /\ cleaning' = [cleaning EXCEPT ![o] = r]
    BY <1>3, <1>4 DEF Uncaches, TeardownStarts, TeardownEnds, Uncached, runner
  \* The list becomes shorter, but when a teardown starts.
  <1>8. /\ \A p \in Owners : p # o => cleaning'[p] = cleaning[p]
        /\ cleaning'[o] = r \/ (cleaning' = cleaning /\ e[1] = "teardown" /\ instance'[e[2]] = "tearing")
        /\ \A t \in Tests : \A f \in cached'[t] : f \in cached[t] /\ (t = o => e # Un(f))
    <2>1. \A p \in Owners : p # o => cleaning'[p] = cleaning[p] BY <1>7, Types DEF IInv
    <2>2. cleaning'[o] = r \/ (cleaning' = cleaning /\ e[1] = "teardown" /\ instance'[e[2]] = "tearing")
      BY <1>6, <1>7, Types DEF IInv
    <2>3. ASSUME NEW t \in Tests, NEW f \in cached'[t] PROVE f \in cached[t] /\ (t = o => e # Un(f))
      <3>1. CASE e[1] = "uncache" /\ cached' = [cached EXCEPT ![o] = @ \ {e[2]}]
        <4>1. Un(f)[2] = f BY DEF Un
        <4> QED BY <1>6, <2>3, <3>1, <4>1, Types DEF IInv
      <3>2. CASE e[1] = "teardown" /\ cached' = cached
        <4>1. Un(f)[1] = "uncache" BY DEF Un
        <4> QED BY <2>3, <3>2, <4>1
      <3> QED BY <1>7, <3>1, <3>2
    <2> QED BY <2>1, <2>2, <2>3
  <1>9. \A i \in Instances : \/ instance'[i] = instance[i]
                             \/ /\ i = e[2] /\ e[1] = "teardown" /\ e = Td(i) /\ OwnerOf(i) = o
                                /\ instance[i] \in {"inUse", "tearing"} /\ instance'[i] \in {"tearing", "over"}
    BY <1>6, <1>7, Types DEF IInv
  <1>10. \A c \in Calls : c[1] = o \/ o = File => at[c] \notin Fixtures
    <2> SUFFICES ASSUME NEW c \in Calls, c[1] = o \/ o = File, at[c] \in Fixtures PROVE FALSE OBVIOUS
    <2>1. c[1] # o BY <1>0, NobodyAwaits, CallFacts
    <2>2. o = File BY <2>1
    <2>3. stage[File] = "tests" BY StageOfAwaiting, StageOfCall
    <2> QED BY <1>0, <2>2, <2>3 DEF IInv, CleanupsInPlace
  <1>11. \A t \in Tests : t = o \/ o = File => stage[t] \notin Active
    <2>1. \A t \in Tests : t = o => stage[t] \notin Active BY <1>0 DEF IInv, CleanupsInPlace, Active, Inside
    <2>2. o = File => \A t \in Tests : stage[t] \notin Active BY <1>0 DEF IInv, CleanupsInPlace, Active, Inside
    <2> QED BY <2>1, <2>2
  \* What is ready in a test that calls remains so.
  <1>12. ASSUME NEW t \in Tests, NEW f \in Fixtures, Ready(t, f), stage[t] \in Active PROVE Ready(t, f)'
    <2>1. PICK i \in Instances : i = value[t][f] /\ instance[i] = "inUse" /\ i[2] = f /\ OwnerOf(i) = ScopeOf(t, f)
      BY <1>12 DEF Ready
    <2>2. OwnerOf(i) # o BY <1>11, <1>12, <2>1 DEF ScopeOf
    <2>3. instance'[i] = instance[i] BY <1>9, <2>2
    <2> QED BY <1>0, <1>12, <2>1, <2>3 DEF Ready, OwnerOf
  <1>13. CachedIsReady'
    <2> SUFFICES ASSUME NEW t \in Tests, NEW f \in cached'[t] PROVE CachedReady(t, f)' BY DEF CachedIsReady
    <2>1. CachedReady(t, f) /\ t \in Owners BY <1>8, OwnerFacts DEF RInv, CachedIsReady
    <2>2. f \in Fixtures BY <1>8, Types DEF IInv, Fixtures
    <2>3. CASE \E c \in Calls : c[1] = t /\ at[c] = f BY <1>0, <2>3 DEF CachedReady
    <2>4. CASE Un(f) \in ToSet(cleanups[t]) \cup ToSet(cleaning[t]) /\ (stage[t] \in Active => Ready(t, f))
      <3>1. Un(f) \in ToSet(cleanups[t]) \cup ToSet(cleaning'[t])
        <4>1. CASE t # o \/ cleaning' = cleaning BY <1>8, <2>1, <2>4, <4>1
        <4>2. CASE t = o /\ cleaning'[o] = r
          <5>1. e # Un(f) BY <1>8, <4>2
          <5>2. CASE Un(f) \in ToSet(cleaning[t])
            <6>1. PICK m \in 1..n : s[m] = Un(f) BY <1>1, <1>5, <4>2, <5>2 DEF ToSet
            <6>2. m - 1 \in 1..(n - 1) /\ r[m - 1] = Un(f) BY <1>5, <5>1, <6>1
            <6>3. PICK l \in 1..(n - 1) : r[l] = Un(f) BY <6>2
            <6>4. DOMAIN r = 1..(n - 1) BY <1>5
            <6>5. Un(f) \in ToSet(r) BY <6>3, <6>4 DEF ToSet
            <6> QED BY <4>2, <6>5
          <5> QED BY <2>4, <4>2, <5>2
        <4> QED BY <1>8, <4>1, <4>2
      <3>2. stage[t] \in Active => Ready(t, f)' BY <1>12, <2>2, <2>4
      <3> QED BY <1>0, <3>1, <3>2 DEF CachedReady, Un
    <2> QED BY <2>1, <2>3, <2>4 DEF CachedReady
  <1>14. AroundKeeps' BY <1>0 DEF RInv, AroundKeeps, KeptFor, Td
  <1>15. AllTornOnce'
    <2> SUFFICES ASSUME NEW p \in Owners PROVE TornOnce(p)' BY DEF AllTornOnce
    <2>1. TornOnce(p) BY DEF RInv, AllTornOnce
    <2>2. CASE p # o
      <3>1. cleanups'[p] = cleanups[p] /\ cleaning'[p] = cleaning[p] BY <1>0, <1>8, <2>2
      <3>2. ASSUME NEW d \in ToSet(cleanups[p]) \cup ToSet(cleaning[p]), d[1] = "teardown" PROVE instance'[d[2]] = instance[d[2]]
        <4>1. OwnerOf(d[2]) = p BY <3>2 DEF IInv, EntriesInPlace
        <4>2. d \in Entries
          <5>1. PICK q1 \in Seq(Entries) : q1 = cleanups[p] BY Types DEF IInv
          <5>2. PICK q2 \in Seq(Entries) : q2 = cleaning[p] BY Types DEF IInv
          <5> QED BY <3>2, <5>1, <5>2 DEF ToSet
        <4>3. d[2] \in Instances BY <3>2, <4>2 DEF Entries
        <4> QED BY <1>9, <2>2, <4>1, <4>3
      <3>3. \A k \in DOMAIN cleanups[p] : cleanups[p][k][1] = "teardown" => instance'[cleanups[p][k][2]] = instance[cleanups[p][k][2]]
        BY <3>2 DEF ToSet
      <3>4. \A k \in DOMAIN cleaning[p] : cleaning[p][k][1] = "teardown" => instance'[cleaning[p][k][2]] = instance[cleaning[p][k][2]]
        BY <3>2 DEF ToSet
      <3> QED BY <2>1, <3>1, <3>3, <3>4 DEF TornOnce
    <2>3. CASE p = o
      \* Of the other entries none is that of the instance torn down.
      <3>1. ASSUME NEW d \in Entries, d[1] = "teardown", d # e PROVE instance'[d[2]] = instance[d[2]]
        <4>1. d[2] \in Instances /\ d = Td(d[2]) BY <3>1 DEF Entries, Td
        <4> QED BY <1>9, <3>1, <4>1
      <3>2. PICK q \in Seq(Entries) : q = cleanups[o] BY Types DEF IInv
      <3>3. ASSUME NEW k \in DOMAIN cleanups[o], cleanups[o][k][1] = "teardown"
            PROVE  /\ instance'[cleanups[o][k][2]] = "inUse"
                   /\ \A m \in 1..n : s[m] # cleanups[o][k]
        <4>1. cleanups[o][k] \in Entries BY <3>2
        <4>2. \A m \in 1..n : s[m] # cleanups[o][k] BY <1>1, <1>5, <2>1, <2>3, <3>3 DEF TornOnce
        <4>3. cleanups[o][k] # e BY <1>5, <4>2
        <4>4. instance[cleanups[o][k][2]] = "inUse" BY <2>1, <2>3, <3>3 DEF TornOnce
        <4> QED BY <3>1, <3>3, <4>1, <4>2, <4>3, <4>4
      <3>4. \A k, m \in 1..n : s[k] = s[m] /\ s[k][1] = "teardown" => k = m
        <4>1. \A k, m \in DOMAIN cleaning[o] : cleaning[o][k] = cleaning[o][m] /\ cleaning[o][k][1] = "teardown" => k = m
          BY <2>1, <2>3 DEF TornOnce
        <4>2. DOMAIN s = 1..n BY <1>5
        <4> QED BY ONLY <1>1, <4>1, <4>2
      <3>5. ASSUME NEW k \in 1..n, s[k][1] = "teardown", k # 1 PROVE instance'[s[k][2]] = "inUse"
        <4>1. s[k] # s[1] BY <1>5, <3>4, <3>5
        <4>2. DOMAIN s = 1..n BY <1>5
        <4>3. instance[s[k][2]] = "inUse" BY <1>1, <2>1, <2>3, <3>5, <4>2 DEF TornOnce
        <4>4. s[k] \in Entries BY <4>2
        <4> QED BY <1>5, <3>1, <3>5, <4>1, <4>3, <4>4
      <3>6. \A k, m \in DOMAIN cleanups[o] : cleanups[o][k] = cleanups[o][m] /\ cleanups[o][k][1] = "teardown" => k = m
        BY <2>1, <2>3 DEF TornOnce
      <3>7. CASE cleaning'[o] = r
        <4>1. ASSUME NEW k \in 1..(n - 1), NEW m \in 1..(n - 1), r[k] = r[m], r[k][1] = "teardown" PROVE k = m
          <5>1. PICK k2 \in 1..n : k2 = k + 1 /\ s[k2] = r[k] BY <1>5
          <5>2. PICK m2 \in 1..n : m2 = m + 1 /\ s[m2] = r[m] BY <1>5
          <5>3. k2 = m2 BY <3>4, <4>1, <5>1, <5>2
          <5> QED BY <5>1, <5>2, <5>3
        <4>2. ASSUME NEW k \in 1..(n - 1), r[k][1] = "teardown" PROVE instance'[r[k][2]] = "inUse"
          <5>1. PICK k2 \in 1..n : k2 = k + 1 /\ k2 # 1 /\ s[k2] = r[k] BY <1>5
          <5> QED BY <3>5, <4>2, <5>1
        <4>3. ASSUME NEW k \in DOMAIN cleanups[o], cleanups[o][k][1] = "teardown", NEW m \in 1..(n - 1) PROVE r[m] # cleanups[o][k]
          <5>1. PICK m2 \in 1..n : s[m2] = r[m] BY <1>5
          <5> QED BY <3>3, <4>3, <5>1
        <4>4. DOMAIN r = 1..(n - 1) BY <1>5
        <4> QED BY <1>0, <2>3, <3>3, <3>6, <3>7, <4>1, <4>2, <4>3, <4>4 DEF TornOnce
      <3>8. CASE cleaning' = cleaning /\ e[1] = "teardown" /\ instance'[e[2]] = "tearing"
        <4>1. DOMAIN s = 1..n /\ s[1] = e BY <1>5
        <4> QED BY <1>0, <1>1, <2>3, <3>3, <3>4, <3>5, <3>6, <3>8, <4>1 DEF TornOnce
      <3> QED BY <1>8, <3>7, <3>8
    <2> QED BY <2>2, <2>3
  <1>16. CallsAreReady'
    <2> SUFFICES ASSUME NEW c \in Calls PROVE CallIsReady(c)' BY DEF CallsAreReady
    <2>0. c[1] \in Tests /\ CallIsReady(c) BY CallFacts DEF RInv, CallsAreReady
    <2>p. Pending(c) \in Seq(Fixtures) BY PendingDepsFirst DEF DepsFirst
    <2>1. ASSUME at[c] \in Fixtures, NEW k \in DOMAIN Pending(c), k < Place(c, at[c]) PROVE Ready(c[1], Pending(c)[k])'
      <3>1. stage[c[1]] \in Active BY <2>1, StageOfAwaiting
      <3>2. Pending(c)[k] \in Fixtures BY <2>p, <2>1
      <3>3. Ready(c[1], Pending(c)[k]) BY <2>0, <2>1 DEF CallIsReady
      <3>4. PICK f \in Fixtures : f = Pending(c)[k] BY <3>2
      <3>5. Ready(c[1], f)' BY <1>12, <2>0, <3>1, <3>3, <3>4
      <3> QED BY <3>4, <3>5
    <2>2. ASSUME at[c] = "running", NEW f \in ToSet(Pending(c)) PROVE Ready(c[1], f)'
      <3>1. f \in Fixtures BY <2>p, <2>2 DEF ToSet
      <3>2. Ready(c[1], f) BY <2>0, <2>2 DEF CallIsReady
      <3>3. CASE stage[c[1]] \in Active BY <1>12, <2>0, <3>1, <3>2, <3>3
      <3>4. CASE stage[c[1]] \notin Active
        <4>0. ~Idle(c) BY <2>2 DEF Idle
        <4>1. stage[c[1]] \in {"inner", "aroundEnds"} /\ c[3] = "around" /\ stage[File] = "tests" BY <3>4, <4>0, StageOfCall
        <4>2. o # File BY <1>0, <4>1 DEF IInv, CleanupsInPlace
        <4>3. PICK i \in Instances : i = value[c[1]][f] /\ instance[i] = "inUse" /\ i[2] = f /\ OwnerOf(i) = ScopeOf(c[1], f)
          BY <3>2 DEF Ready
        <4>4. ~(OwnerOf(i) = o /\ e = Td(i))
          <5> SUFFICES ASSUME OwnerOf(i) = o, e = Td(i) PROVE FALSE OBVIOUS
          <5>1. o = c[1] /\ f \notin FileScoped BY <4>2, <4>3 DEF ScopeOf
          <5>2. f \in TestScoped BY <3>1, <5>1, Scopes
          <5>3. KeptFor(c[1], f) BY <2>2, <4>1, <5>2 DEF RInv, AroundKeeps
          <5>4. PICK k \in DOMAIN cleanups[o] : cleanups[o][k] = Td(i) BY <4>3, <5>1, <5>3 DEF KeptFor
          <5>5. TornOnce(o) /\ Td(i)[1] = "teardown" BY DEF RInv, AllTornOnce, Td
          <5>6. 1 \in DOMAIN cleaning[o] /\ cleaning[o][1] = Td(i) BY <1>1, <1>5
          <5> QED BY <5>4, <5>5, <5>6 DEF TornOnce
        <4>5. instance'[i] = instance[i] BY <1>9, <4>4
        <4> QED BY <1>0, <4>3, <4>5 DEF Ready, OwnerOf
      <3> QED BY <3>3, <3>4
    <2> QED BY <1>0, <2>1, <2>2 DEF CallIsReady
  \* Nothing but the head of the list leaves it.
  <1>17. ASSUME NEW p \in Owners, NEW i \in Instances, Live(i)', NEW j, TornAfter(p, i, j) PROVE TornAfter(p, i, j)'
    <2>1. CASE p # o \/ cleaning' = cleaning
      <3>1. cleaning'[p] = cleaning[p] BY <1>8, <2>1
      <3> QED BY <1>0, <1>17, <3>1 DEF TornAfter, Td
    <2>2. CASE p = o /\ cleaning'[o] = r /\ cleaning' # cleaning
      <3>1. Td(i) # e
        <4>1. CASE e[1] = "uncache" BY <4>1 DEF Td
        <4>2. CASE e[1] = "teardown"
          <5>1. instance'[e[2]] = "over" BY <1>6, <1>7, <2>2, <4>2, Types DEF IInv
          <5> QED BY <1>17, <5>1 DEF Td, Live
        <4> QED BY <1>7, <4>1, <4>2
      <3>2. DOMAIN r = 1..(n - 1) BY <1>5
      <3>3. ASSUME NEW k \in 1..n, s[k] = Td(i) PROVE \E l \in 1..(n - 1) : l = k - 1 /\ r[l] = Td(i) BY <1>5, <3>1, <3>3
      <3>4. CASE \E k, m \in DOMAIN cleanups[p] : m < k /\ cleanups[p][k] = Td(i) /\ cleanups[p][m] = Td(j)
        BY <1>0, <3>4 DEF TornAfter, Td
      <3>5. CASE Td(i) \in ToSet(cleaning[o]) /\ Td(j) \in ToSet(cleanups[o])
        <4>1. PICK k \in 1..n : s[k] = Td(i) BY <1>1, <1>5, <3>5 DEF ToSet
        <4>2. PICK l \in 1..(n - 1) : r[l] = Td(i) BY <3>3, <4>1
        <4>3. Td(i) \in ToSet(r) BY <3>2, <4>2 DEF ToSet
        <4> QED BY <1>0, <2>2, <3>5, <4>3 DEF TornAfter, Td
      <3>6. CASE \E k, m \in DOMAIN s : k < m /\ s[k] = Td(i) /\ s[m] = Td(j)
        <4>1. PICK k \in 1..n, m \in 1..n : k < m /\ s[k] = Td(i) /\ s[m] = Td(j) BY <1>5, <3>6
        <4>2. PICK l \in 1..(n - 1) : l = k - 1 /\ r[l] = Td(i) BY <3>3, <4>1
        <4>3. m # 1 BY <4>1
        <4>4. PICK l2 \in 1..(n - 1) : l2 = m - 1 /\ r[l2] = Td(j) BY <1>5, <4>1, <4>3
        <4>5. l < l2 BY <4>1, <4>2, <4>4
        <4> QED BY <2>2, <3>2, <4>2, <4>4, <4>5 DEF TornAfter, Td
      <3> QED BY <1>1, <1>17, <2>2, <3>4, <3>5, <3>6 DEF TornAfter
    <2> QED BY <1>8, <2>1, <2>2
  <1>18. DepsOutlive'
    <2> SUFFICES ASSUME NEW i \in Instances, Live(i)', NEW d \in ToSet(Deps[i[2]]) PROVE Outlives(i, d)'
      BY DEF DepsOutlive
    <2>0. OwnerOf(i) \in Owners /\ Live(i) /\ (instance'[i] = "setup" <=> instance[i] = "setup")
      BY <1>9, InstanceFacts DEF Live
    <2>1. Outlives(i, d) BY <2>0 DEF RInv, DepsOutlive
    <2>2. CASE d \in FileScoped
      <3>1. PICK j : j = value[File][d] OBVIOUS
      <3>2. j # None /\ (i[2] \in FileScoped /\ instance[i] # "setup" => TornAfter(File, i, j))
        BY <2>1, <2>2, <3>1 DEF Outlives, OutlivesOfFile
      <3>3. i[2] \in FileScoped /\ instance[i] # "setup" => TornAfter(File, i, j)' BY <1>0, <1>17, <3>2
      <3>4. j = value'[File][d] BY <1>0, <3>1
      <3> QED BY <2>0, <2>2, <3>2, <3>3, <3>4 DEF Outlives, OutlivesOfFile, TornAfter, Td
    <2>3. CASE d \notin FileScoped
      <3>1. PICK j \in Instances :
              /\ j[2] = d /\ OwnerOf(j) = OwnerOf(i)
              /\ IF instance[i] = "setup" THEN Td(j) \in ToSet(cleanups[OwnerOf(i)]) ELSE TornAfter(OwnerOf(i), i, j)
        BY <2>1, <2>3 DEF Outlives, OutlivesOfTest
      <3>2. CASE instance[i] = "setup" BY <1>0, <2>0, <2>3, <3>1, <3>2 DEF Outlives, OutlivesOfTest, OwnerOf, Td
      <3>3. CASE instance[i] # "setup"
        <4>1. PICK p \in Owners : p = OwnerOf(i) BY <2>0
        <4>2. TornAfter(p, i, j)' BY SMTT(30), <1>17, <3>1, <3>3, <4>1
        <4>3. TornAfter(OwnerOf(i), i, j)' BY <4>1, <4>2 DEF TornAfter, OwnerOf
        <4> QED BY <2>0, <2>3, <3>1, <3>3, <4>3 DEF Outlives, OutlivesOfTest, OwnerOf
      <3> QED BY <3>2, <3>3
    <2> QED BY <2>2, <2>3
  <1>19. FileStays'
    <2> SUFFICES ASSUME stage[File] = "tests", NEW f \in FileScoped, value[File][f] # None
                 PROVE  instance'[value[File][f]] = "inUse"
      BY <1>0 DEF FileStays
    <2>1. value[File][f] \in Instances \cup {None} BY <1>0, Types DEF IInv, Fixtures
    <2>2. PICK i \in Instances : i = value[File][f] BY <2>1
    <2>3. i[2] = f /\ instance[i] = "inUse" BY <2>2 DEF IInv, FileContext, RInv, FileStays
    <2>4. OwnerOf(i) = File /\ o # File BY <1>0, <2>3 DEF OwnerOf, IInv, CleanupsInPlace
    <2> QED BY <1>9, <2>2, <2>3, <2>4
  <1> QED BY <1>13, <1>14, <1>15, <1>16, <1>18, <1>19 DEF RInv

-----------------------------------------------------------------------------
\* Calls and fixtures go on: at most one entry more, and what is set up stays.
Grows(o, e) ==
  /\ UNCHANGED <<stage, checkpoint, cleaning>>
  /\ \/ cleanups' = cleanups
     \/ /\ e \in Entries /\ cleanups' = [cleanups EXCEPT ![o] = Append(@, e)]
        /\ e[1] = "teardown" => /\ instance'[e[2]] = "inUse"
                                /\ e \notin ToSet(cleanups[o]) \cup ToSet(cleaning[o])
  /\ \A i \in Instances : instance[i] \in {"inUse", "tearing"} => instance'[i] = instance[i]
  /\ \A f \in Fixtures : value[File][f] # None => value'[File][f] = value[File][f]

\* The list that is longer: its places, and the last one.
LongerBy(s, r, e) ==
  /\ \A k \in DOMAIN s : k \in DOMAIN r /\ r[k] = s[k]
  /\ \A k \in DOMAIN r : (k \in DOMAIN s /\ r[k] = s[k]) \/ (k \notin DOMAIN s /\ r[k] = e)
  /\ \A k, m \in DOMAIN r : k \notin DOMAIN s /\ m \notin DOMAIN s => k = m
  /\ \E k \in DOMAIN r : r[k] = e /\ \A m \in DOMAIN s : m < k

LEMMA AppendLonger ==
  ASSUME NEW S, NEW s \in Seq(S), NEW e \in S
  PROVE  LongerBy(s, Append(s, e), e)
  <1>1. PICK n \in Nat : n = Len(s) OBVIOUS
  <1>2. PICK l \in Nat : l = n + 1 BY <1>1
  <1>0. Append(s, e) \in Seq(S) OBVIOUS
  <1>3. PICK r \in Seq(S) : r = Append(s, e) BY <1>0
  <1>4. DOMAIN s = 1..n /\ DOMAIN r = 1..l /\ r[l] = e /\ \A k \in 1..n : r[k] = s[k] BY <1>1, <1>2, <1>3
  <1>5. l \in 1..l /\ l \notin 1..n /\ (\A k \in 1..n : k \in 1..l /\ k < l) /\ \A k \in 1..l : k \notin 1..n => k = l
    BY <1>2
  <1>6. \A k \in DOMAIN s : k \in DOMAIN r /\ r[k] = s[k] BY ONLY <1>4, <1>5
  <1>7. \A k \in DOMAIN r : (k \in DOMAIN s /\ r[k] = s[k]) \/ (k \notin DOMAIN s /\ r[k] = e)
    BY ONLY <1>4, <1>5
  <1>8. \A k, m \in DOMAIN r : k \notin DOMAIN s /\ m \notin DOMAIN s => k = m BY ONLY <1>4, <1>5
  <1>9. \E k \in DOMAIN r : r[k] = e /\ \A m \in DOMAIN s : m < k BY ONLY <1>4, <1>5
  <1> QED BY <1>3, <1>6, <1>7, <1>8, <1>9 DEF LongerBy

LEMMA GrowsHow ==
  ASSUME IInv, NEW o \in Owners, NEW e, Grows(o, e), NEW p \in Owners
  PROVE  \/ cleanups'[p] = cleanups[p]
         \/ /\ p = o /\ LongerBy(cleanups[o], cleanups'[o], e)
            /\ e[1] = "teardown" => /\ instance'[e[2]] = "inUse"
                                    /\ e \notin ToSet(cleanups[o]) \cup ToSet(cleaning[o])
  <1>1. PICK s \in Seq(Entries) : s = cleanups[o] BY Types DEF IInv
  <1>2. CASE cleanups' = cleanups BY <1>2
  <1>3. CASE /\ e \in Entries /\ cleanups' = [cleanups EXCEPT ![o] = Append(@, e)]
             /\ e[1] = "teardown" => /\ instance'[e[2]] = "inUse"
                                     /\ e \notin ToSet(cleanups[o]) \cup ToSet(cleaning[o])
    <2>1. LongerBy(s, Append(s, e), e) BY <1>3, AppendLonger
    <2>2. cleanups'[p] = IF p = o THEN Append(s, e) ELSE cleanups[p] BY <1>1, <1>3, Types DEF IInv
    <2> QED BY <1>1, <1>3, <2>1, <2>2
  <1> QED BY <1>2, <1>3 DEF Grows

\* What is among the clean-ups remains there, in its order.
LEMMA GrowsKeepsOrder ==
  ASSUME IInv, NEW o \in Owners, NEW e, Grows(o, e), NEW p \in Owners
  PROVE  /\ \A d \in ToSet(cleanups[p]) : d \in ToSet(cleanups'[p])
         /\ \A k \in DOMAIN cleanups[p] : k \in DOMAIN cleanups'[p] /\ cleanups'[p][k] = cleanups[p][k]
         /\ \A i, j : TornAfter(p, i, j) => TornAfter(p, i, j)'
  <1>1. \A k \in DOMAIN cleanups[p] : k \in DOMAIN cleanups'[p] /\ cleanups'[p][k] = cleanups[p][k]
    BY GrowsHow DEF LongerBy
  <1>2. \A d \in ToSet(cleanups[p]) : d \in ToSet(cleanups'[p]) BY <1>1 DEF ToSet
  <1>3. ASSUME NEW i, NEW j, TornAfter(p, i, j) PROVE TornAfter(p, i, j)'
    <2>1. cleaning' = cleaning BY DEF Grows
    <2>2. CASE \E k, m \in DOMAIN cleanups[p] : m < k /\ cleanups[p][k] = Td(i) /\ cleanups[p][m] = Td(j)
      <3>1. PICK k \in DOMAIN cleanups[p], m \in DOMAIN cleanups[p] : m < k /\ cleanups[p][k] = Td(i) /\ cleanups[p][m] = Td(j)
        BY <2>2
      <3>2. /\ k \in DOMAIN cleanups'[p] /\ cleanups'[p][k] = Td(i)
            /\ m \in DOMAIN cleanups'[p] /\ cleanups'[p][m] = Td(j)
        BY <1>1, <3>1
      <3> QED BY <3>1, <3>2 DEF TornAfter, Td
    <2>3. CASE Td(i) \in ToSet(cleaning[p]) /\ Td(j) \in ToSet(cleanups[p])
      BY <1>2, <2>1, <2>3 DEF TornAfter, Td
    <2>4. CASE \E k, m \in DOMAIN cleaning[p] : k < m /\ cleaning[p][k] = Td(i) /\ cleaning[p][m] = Td(j)
      BY <2>1, <2>4 DEF TornAfter, Td
    <2> QED BY <1>3, <2>2, <2>3, <2>4 DEF TornAfter
  <1> QED BY <1>1, <1>2, <1>3

LEMMA GrowsKeepsTornOnce ==
  ASSUME IInv, RInv, NEW o \in Owners, NEW e, Grows(o, e)
  PROVE  AllTornOnce'
  <1> SUFFICES ASSUME NEW p \in Owners PROVE TornOnce(p)' BY DEF AllTornOnce
  <1>1. TornOnce(p) /\ cleaning'[p] = cleaning[p] BY DEF RInv, AllTornOnce, Grows
  <1>2. \A d \in ToSet(cleanups[p]) \cup ToSet(cleaning[p]) : d[1] = "teardown" => d[2] \in Instances
    <2>1. PICK q1 \in Seq(Entries) : q1 = cleanups[p] BY Types DEF IInv
    <2>2. PICK q2 \in Seq(Entries) : q2 = cleaning[p] BY Types DEF IInv
    <2> QED BY <2>1, <2>2 DEF ToSet, Entries
  <1>3. \A k \in DOMAIN cleanups[p] : cleanups[p][k][1] = "teardown" => instance'[cleanups[p][k][2]] = "inUse"
    <2> SUFFICES ASSUME NEW k \in DOMAIN cleanups[p], cleanups[p][k][1] = "teardown"
                 PROVE  instance'[cleanups[p][k][2]] = "inUse"
      OBVIOUS
    <2>1. cleanups[p][k] \in ToSet(cleanups[p]) BY DEF ToSet
    <2>2. cleanups[p][k][2] \in Instances BY <1>2, <2>1
    <2>3. instance[cleanups[p][k][2]] = "inUse" BY <1>1 DEF TornOnce
    <2> QED BY <2>2, <2>3 DEF Grows
  <1>4. \A k \in DOMAIN cleaning[p] : cleaning[p][k][1] = "teardown" =>
          instance'[cleaning[p][k][2]] = "inUse" \/ (k = 1 /\ instance'[cleaning[p][k][2]] = "tearing")
    <2> SUFFICES ASSUME NEW k \in DOMAIN cleaning[p], cleaning[p][k][1] = "teardown"
                 PROVE  instance'[cleaning[p][k][2]] = "inUse" \/ (k = 1 /\ instance'[cleaning[p][k][2]] = "tearing")
      OBVIOUS
    <2>1. cleaning[p][k] \in ToSet(cleaning[p]) BY DEF ToSet
    <2>2. cleaning[p][k][2] \in Instances BY <1>2, <2>1
    <2>3. instance[cleaning[p][k][2]] = "inUse" \/ (k = 1 /\ instance[cleaning[p][k][2]] = "tearing")
      BY <1>1 DEF TornOnce
    <2> QED BY <2>2, <2>3 DEF Grows
  <1>5. \A k, m \in DOMAIN cleaning[p] : cleaning[p][k] = cleaning[p][m] /\ cleaning[p][k][1] = "teardown" => k = m
    BY <1>1 DEF TornOnce
  <1>6. CASE cleanups'[p] = cleanups[p]
    <2>1. \A k, m \in DOMAIN cleanups[p] : cleanups[p][k] = cleanups[p][m] /\ cleanups[p][k][1] = "teardown" => k = m
      BY <1>1 DEF TornOnce
    <2>2. \A k \in DOMAIN cleanups[p] : cleanups[p][k][1] = "teardown" =>
            \A m \in DOMAIN cleaning[p] : cleaning[p][m] # cleanups[p][k]
      BY <1>1 DEF TornOnce
    <2> QED BY <1>1, <1>3, <1>4, <1>5, <1>6, <2>1, <2>2 DEF TornOnce
  <1>7. CASE /\ p = o /\ LongerBy(cleanups[o], cleanups'[o], e)
             /\ e[1] = "teardown" => /\ instance'[e[2]] = "inUse"
                                     /\ e \notin ToSet(cleanups[o]) \cup ToSet(cleaning[o])
    <2>1. PICK s : s = cleanups[p] OBVIOUS
    <2>2. PICK r : r = cleanups'[p] OBVIOUS
    <2>3. PICK w : w = cleaning[p] OBVIOUS
    <2>4. /\ \A k \in DOMAIN r : (k \in DOMAIN s /\ r[k] = s[k]) \/ (k \notin DOMAIN s /\ r[k] = e)
          /\ \A k, m \in DOMAIN r : k \notin DOMAIN s /\ m \notin DOMAIN s => k = m
      BY <1>7, <2>1, <2>2 DEF LongerBy
    <2>5. /\ e[1] = "teardown" => instance'[e[2]] = "inUse"
          /\ e[1] = "teardown" => \A k \in DOMAIN s : s[k] # e
          /\ e[1] = "teardown" => \A k \in DOMAIN w : w[k] # e
      BY <1>7, <2>1, <2>3 DEF ToSet
    <2>6. /\ \A k, m \in DOMAIN s : s[k] = s[m] /\ s[k][1] = "teardown" => k = m
          /\ \A k \in DOMAIN s : s[k][1] = "teardown" => \A m \in DOMAIN w : w[m] # s[k]
          /\ \A k \in DOMAIN s : s[k][1] = "teardown" => instance'[s[k][2]] = "inUse"
      BY <1>1, <1>3, <2>1, <2>3 DEF TornOnce
    <2>7. \A k, m \in DOMAIN r : r[k] = r[m] /\ r[k][1] = "teardown" => k = m BY ONLY <2>4, <2>5, <2>6
    <2>8. \A k \in DOMAIN r : r[k][1] = "teardown" => \A m \in DOMAIN w : w[m] # r[k] BY ONLY <2>4, <2>5, <2>6
    <2>9. \A k \in DOMAIN r : r[k][1] = "teardown" => instance'[r[k][2]] = "inUse" BY ONLY <2>4, <2>5, <2>6
    <2> QED BY <1>1, <1>4, <1>5, <2>2, <2>3, <2>7, <2>8, <2>9 DEF TornOnce
  <1> QED BY <1>6, <1>7, GrowsHow

\* What is ready remains so, what depends on something too.
LEMMA GrowsKeepsReady ==
  ASSUME IInv, NEW o \in Owners, NEW e, Grows(o, e),
         NEW t \in Tests, NEW f \in Fixtures, Ready(t, f), value'[t][f] = value[t][f]
  PROVE  Ready(t, f)'
  BY DEF Grows, Ready, OwnerOf

LEMMA GrowsKeepsOutlives ==
  ASSUME IInv, NEW o \in Owners, NEW e, Grows(o, e),
         NEW i \in Instances, NEW d \in Fixtures, Outlives(i, d), instance'[i] = instance[i]
  PROVE  Outlives(i, d)'
  <1>0. OwnerOf(i) \in Owners /\ File \in Owners /\ OwnerOf(i)' = OwnerOf(i) BY InstanceFacts, OwnerFacts DEF OwnerOf
  <1>1. CASE d \in FileScoped
    <2>1. PICK j : j = value[File][d] OBVIOUS
    <2>2. j # None /\ (i[2] \in FileScoped /\ instance[i] # "setup" => TornAfter(File, i, j))
      BY <1>1, <2>1 DEF Outlives, OutlivesOfFile
    <2>3. i[2] \in FileScoped /\ instance[i] # "setup" => TornAfter(File, i, j)' BY <1>0, <2>2, GrowsKeepsOrder
    <2>4. j = value'[File][d] BY <2>1, <2>2 DEF Grows
    <2> QED BY <1>1, <2>2, <2>3, <2>4 DEF Outlives, OutlivesOfFile, TornAfter, Td
  <1>2. CASE d \notin FileScoped
    <2>1. PICK j \in Instances :
            /\ j[2] = d /\ OwnerOf(j) = OwnerOf(i)
            /\ IF instance[i] = "setup" THEN Td(j) \in ToSet(cleanups[OwnerOf(i)]) ELSE TornAfter(OwnerOf(i), i, j)
      BY <1>2 DEF Outlives, OutlivesOfTest
    <2>2. PICK p \in Owners : p = OwnerOf(i) BY <1>0
    <2>3. CASE instance[i] = "setup"
      <3>1. Td(j) \in ToSet(cleanups'[p]) BY <2>1, <2>2, <2>3, GrowsKeepsOrder
      <3> QED BY <1>2, <2>1, <2>2, <2>3, <3>1 DEF Outlives, OutlivesOfTest, OwnerOf, Td
    <2>4. CASE instance[i] # "setup"
      <3>1. TornAfter(p, i, j)' BY SMTT(30), <2>1, <2>2, <2>4, GrowsKeepsOrder
      <3>2. TornAfter(OwnerOf(i), i, j)' BY <2>2, <3>1 DEF TornAfter, OwnerOf
      <3> QED BY <1>2, <2>1, <2>4, <3>2 DEF Outlives, OutlivesOfTest, OwnerOf
    <2> QED BY <2>3, <2>4
  <1> QED BY <1>1, <1>2

LEMMA GrowsKeepsFile ==
  ASSUME IInv, RInv, NEW o \in Owners, NEW e, Grows(o, e),
         \A f \in FileScoped : value'[File][f] = value[File][f] \/ instance'[value'[File][f]] = "inUse"
  PROVE  FileStays'
  <1> SUFFICES ASSUME stage[File] = "tests", NEW f \in FileScoped, value'[File][f] # None
               PROVE  instance'[value'[File][f]] = "inUse"
    BY DEF FileStays, Grows
  <1>1. CASE value'[File][f] = value[File][f]
    <2>1. value[File][f] \in Instances \cup {None} BY OwnerFacts, Types DEF IInv, Fixtures
    <2>2. instance[value[File][f]] = "inUse" BY <1>1 DEF RInv, FileStays
    <2> QED BY <1>1, <2>1, <2>2 DEF Grows
  <1> QED BY <1>1

-----------------------------------------------------------------------------
\* A call that goes on runs, or awaits the first fixture to do.
LEMMA GoesOnLeaves ==
  ASSUME IInv, NEW c \in Calls, NEW last \in Nat, GoesOn(c, last)
  PROVE  /\ \A e \in Calls : e # c => at'[e] = at[e]
         /\ \/ at'[c] = "running" /\ Todo(c, last) = {} /\ instance' = instance /\ cached' = cached
            \/ \E f \in Fixtures :
                 /\ at'[c] = f /\ f \in ToSet(Pending(c)) /\ \A m \in Todo(c, last) : Place(c, f) <= m
                 /\ \A i \in Instances : instance'[i] = instance[i] \/ (i = <<c, f>> /\ instance'[i] = "setup")
                 /\ \A u \in Tests : \A g \in cached'[u] : g \in cached[u] \/ (u = c[1] /\ g = f)
  <1>0. c[1] \in Tests /\ \A f \in Fixtures : <<c, f>> \in Instances BY CallFacts
  <1>1. CASE Runs(c, last) BY <1>1, Types DEF IInv, Runs
  <1>2. ASSUME NEW f \in Fixtures, NextIs(c, last, f) PROVE /\ \A e \in Calls : e # c => at'[e] = at[e]
                                                           /\ at'[c] = f
    BY <1>2, Types DEF IInv, NextIs
  <1>3. ASSUME NEW f \in Fixtures, SetsUp(c, last, f) \/ SetsUpForFile(c, last, f) \/ WaitsFor(c, last, f)
        PROVE  /\ NextIs(c, last, f)
               /\ \A i \in Instances : instance'[i] = instance[i] \/ (i = <<c, f>> /\ instance'[i] = "setup")
               /\ \A u \in Tests : \A g \in cached'[u] : g \in cached[u] \/ (u = c[1] /\ g = f)
    <2>1. NextIs(c, last, f) BY <1>3 DEF SetsUp, SetsUpForFile, WaitsFor
    <2>2. instance' = instance \/ instance' = [instance EXCEPT ![<<c, f>>] = "setup"]
      BY <1>3 DEF SetsUp, SetsUpForFile, WaitsFor
    <2>3. cached' = cached \/ cached' = [cached EXCEPT ![c[1]] = @ \cup {f}]
      BY <1>3 DEF SetsUp, SetsUpForFile, WaitsFor
    <2>4. \A i \in Instances : instance'[i] = instance[i] \/ (i = <<c, f>> /\ instance'[i] = "setup")
      BY <1>0, <2>2, Types DEF IInv
    <2>5. \A u \in Tests : \A g \in cached'[u] : g \in cached[u] \/ (u = c[1] /\ g = f)
      BY <1>0, <2>3, Types DEF IInv
    <2> QED BY <2>1, <2>4, <2>5
  <1>4. ASSUME NEW f \in Fixtures, NextIs(c, last, f)
        PROVE  f \in ToSet(Pending(c)) /\ \A m \in Todo(c, last) : Place(c, f) <= m
    BY <1>4 DEF NextIs
  <1> QED BY <1>1, <1>2, <1>3, <1>4, GoesOnHow

\* The value that a call waited for is in the context of its test.
Learns(c, last) ==
  \/ at[c] = "none" /\ last = 0 /\ value' = value
  \/ \E h \in Fixtures :
       /\ at[c] = h /\ last = Place(c, h) /\ Ready(c[1], h)'
       /\ \A t \in Tests : \A f \in Fixtures : t # c[1] \/ f # h => value'[t][f] = value[t][f]
       /\ h \in TestScoped => Un(h) \in ToSet(cleanups'[c[1]])

\* Unless hooks run in parallel, at most one call of a test resolves its fixtures.
LEMMA OneResolves ==
  ASSUME IInv, BeforeInOrder', NEW c \in Calls, NEW last, CallGoes(c, last),
         NEW b \in Calls, b[1] = c[1], at[b] \in Fixtures, at'[b] \in Fixtures, at'[c] # "none", at'[c] # "over"
  PROVE  b = c
  <1>1. ~Idle(b) /\ Current(b) /\ InPlace(b) /\ at[b] # "running" /\ at'[b] # "none" /\ at'[b] # "over"
    <2>1. at[b] # "running" /\ at'[b] # "none" /\ at'[b] # "over" BY OwnerFacts
    <2>2. ~Idle(b) BY StageOfAwaiting
    <2> QED BY <2>1, <2>2, StageOfCall DEF IInv, CallsInPlace
  <1>2. c[2] = b[2] BY <1>1 DEF CallGoes, Current
  <1>3. c[3] \in Before \cup {"around", "fn", "after"} /\ b[3] \in Before \cup {"around", "fn", "after"} BY CallFacts
  <1>4. b[3] = c[3] \/ (b[3] \in Before /\ c[3] \in Before)
    BY <1>1, <1>3 DEF InPlace, CallGoes, Before, Active, Inside
  <1>5. CASE b[3] = c[3] BY <1>2, <1>5, SameCall
  <1>6. ~(b[3] = "before1" /\ c[3] = "before2") BY <1>1, <1>2 DEF BeforeInOrder
  <1>7. ~(c[3] = "before1" /\ b[3] = "before2") BY <1>1, <1>2 DEF BeforeInOrder
  <1> QED BY <1>4, <1>5, <1>6, <1>7 DEF Before

\* What a call passes over when it goes on is ready.
LEMMA PassedOver ==
  ASSUME IInv, RInv, BeforeInOrder', NEW c \in Calls, NEW last, CallGoes(c, last), Learns(c, last),
         NEW g \in ToSet(Pending(c)), Place(c, g) \notin Todo(c, last)
  PROVE  g \in Fixtures /\ (Ready(c[1], g) \/ g = at[c])
  <1>0. /\ c[1] \in Tests /\ last \in Nat /\ GoesOn(c, last) /\ stage[c[1]] \in Active
        /\ Place(c, g) \in DOMAIN Pending(c) /\ Place(c, g) \in Nat /\ Place(c, g) > 0 /\ Pending(c)[Place(c, g)] = g /\ g \in Fixtures
    BY CallFacts, PlaceIs DEF CallGoes
  <1>1. CASE g \in cached[c[1]]
    <2>1. CachedReady(c[1], g) BY <1>0, <1>1 DEF RInv, CachedIsReady
    <2>2. CASE \E b \in Calls : b[1] = c[1] /\ at[b] = g
      <3>1. PICK b \in Calls : b[1] = c[1] /\ at[b] = g BY <2>2
      <3>2. b # c => at'[b] \in Fixtures BY <1>0, <3>1, GoesOnLeaves
      <3>3. at'[c] # "none" /\ at'[c] # "over" BY <1>0, GoesOnLeaves, OwnerFacts
      <3>4. b = c BY <1>0, <3>1, <3>2, <3>3, OneResolves
      <3> QED BY <1>0, <3>1, <3>4
    <2> QED BY <1>0, <2>1, <2>2 DEF CachedReady
  <1>2. CASE Place(c, g) <= last
    <2>1. at[c] \in Fixtures /\ last = Place(c, at[c]) BY <1>0, <1>2 DEF Learns
    <2>2. CASE Place(c, g) = last
      <3>1. at[c] \in ToSet(Pending(c)) BY <2>1 DEF IInv, TypedInv, AwaitsPending
      <3>2. Pending(c)[last] = at[c] BY <2>1, <3>1, PlaceIs
      <3> QED BY <1>0, <2>2, <3>2
    <2>3. CASE Place(c, g) # last
      <3>1. Place(c, g) < Place(c, at[c]) BY <1>0, <1>2, <2>1, <2>3
      <3>2. Ready(c[1], Pending(c)[Place(c, g)]) BY <1>0, <2>1, <3>1 DEF RInv, CallsAreReady, CallIsReady
      <3> QED BY <1>0, <3>2
    <2> QED BY <2>2, <2>3
  <1> QED BY <1>0, <1>1, <1>2, TodoLeaves

LEMMA CallGoesKeepsRInv ==
  ASSUME IInv, IInv', RInv, BeforeInOrder', NEW c \in Calls, NEW last, CallGoes(c, last), Learns(c, last)
  PROVE  RInv'
  <1> DEFINE t == c[1]
  <1>0. /\ t \in Tests /\ t \in Owners /\ t # File /\ File \in Owners /\ last \in Nat /\ GoesOn(c, last)
        /\ UNCHANGED <<stage, checkpoint, cleaning>> /\ value'[File] = value[File]
        /\ stage[t] \in Active /\ Current(c)
        /\ \A f \in Fixtures : <<c, f>> \in Instances /\ instance[<<c, f>>] # "setup"
    BY CallFacts, OwnerFacts DEF CallGoes
  <1>1. cleaning[t] = <<>> /\ ToSet(cleaning[t]) = {} /\ stage[File] = "tests"
    <2>1. cleaning[t] = <<>> /\ stage[t] # "over" BY <1>0 DEF IInv, CleanupsInPlace, Active, Inside
    <2> QED BY <1>0, <2>1 DEF IInv, CleanupsInPlace, ToSet
  <1>2. /\ \A e \in Calls : e # c => at'[e] = at[e]
        /\ \/ at'[c] = "running" /\ Todo(c, last) = {} /\ instance' = instance /\ cached' = cached
           \/ \E f \in Fixtures :
                /\ at'[c] = f /\ f \in ToSet(Pending(c)) /\ \A m \in Todo(c, last) : Place(c, f) <= m
                /\ \A i \in Instances : instance'[i] = instance[i] \/ (i = <<c, f>> /\ instance'[i] = "setup")
                /\ \A u \in Tests : \A g \in cached'[u] : g \in cached[u] \/ (u = t /\ g = f)
    BY <1>0, GoesOnLeaves
  \* What is set up was nothing yet.
  <1>3. \A i \in Instances : instance[i] \in {"inUse", "tearing"} => instance'[i] = instance[i]
    <2> SUFFICES ASSUME NEW i \in Instances, instance[i] \in {"inUse", "tearing"}, instance'[i] # instance[i] PROVE FALSE
      OBVIOUS
    <2>1. PICK f \in Fixtures : Starts(c, f) BY <1>0, GoesOnStarts DEF GoesIdly
    <2>2. i = <<c, f>> BY <1>0, <2>1, Types DEF IInv, Starts
    <2>3. \A j \in Instances : Live(j) => <<j[2], OwnerOf(j)>> # <<f, OwnerOf(<<c, f>>)>> BY <1>0, <2>1, NothingYet DEF Starts
    <2> QED BY <2>2, <2>3 DEF Live
  <1>4. PICK e : Grows(t, e)
    <2>1. CASE cleanups' = cleanups BY <1>0, <1>3, <2>1 DEF Grows
    <2>2. CASE at[c] \in TestScoped /\ cleanups' = [cleanups EXCEPT ![t] = Append(@, Un(at[c]))]
      <3>1. Un(at[c]) \in Entries /\ Un(at[c])[1] # "teardown" BY <2>2 DEF Entries, Un
      <3> QED BY <1>0, <1>3, <2>2, <3>1 DEF Grows
    <2> QED BY <2>1, <2>2 DEF CallGoes
  \* What was ready is, and what the call waited for.
  <1>5. ASSUME NEW u \in Tests, NEW f \in Fixtures, Ready(u, f) PROVE Ready(u, f)'
    <2>1. CASE value'[u][f] = value[u][f] BY <1>0, <1>4, <1>5, <2>1, GrowsKeepsReady
    <2>2. CASE value'[u][f] # value[u][f] BY <1>5, <2>2 DEF Learns
    <2> QED BY <2>1, <2>2
  <1>6. at[c] \in Fixtures => \E h \in Fixtures : h = at[c] /\ Ready(t, h)' /\ (h \in TestScoped => Un(h) \in ToSet(cleanups'[t]))
    BY OwnerFacts DEF Learns
  <1>7. ASSUME NEW g \in ToSet(Pending(c)), Place(c, g) \notin Todo(c, last) PROVE Ready(t, g)'
    <2>1. g \in Fixtures /\ (Ready(t, g) \/ g = at[c]) BY <1>7, PassedOver
    <2>2. CASE g = at[c] BY <1>6, <2>1, <2>2
    <2> QED BY <1>0, <1>5, <2>1, <2>2
  <1> HIDE DEF t
  <1>8. CachedIsReady'
    <2> SUFFICES ASSUME NEW u \in Tests, NEW f \in cached'[u] PROVE CachedReady(u, f)' BY DEF CachedIsReady
    <2>1. CASE f \in cached[u]
      <3>0. f \in TestScoped /\ f \in Fixtures /\ u \in Owners BY <2>1, Types, OwnerFacts DEF IInv, Fixtures
      <3>1. CachedReady(u, f) BY <2>1 DEF RInv, CachedIsReady
      <3>2. CASE \E b \in Calls : b[1] = u /\ at[b] = f
        <4>1. PICK b \in Calls : b[1] = u /\ at[b] = f BY <3>2
        <4>2. CASE b # c BY <1>2, <4>1, <4>2 DEF CachedReady
        <4>3. CASE b = c
          <5>1. Ready(u, f)' /\ Un(f) \in ToSet(cleanups'[u]) BY <1>6, <3>0, <4>1, <4>3 DEF t
          <5> QED BY <5>1 DEF CachedReady, Un
        <4> QED BY <4>2, <4>3
      <3>3. CASE Un(f) \in ToSet(cleanups[u]) \cup ToSet(cleaning[u]) /\ (stage[u] \in Active => Ready(u, f))
        <4>1. Un(f) \in ToSet(cleanups'[u]) \cup ToSet(cleaning[u]) BY <1>0, <1>4, <3>0, <3>3, GrowsKeepsOrder
        <4>2. stage[u] \in Active => Ready(u, f)' BY <1>5, <3>0, <3>3
        <4> QED BY <1>0, <4>1, <4>2 DEF CachedReady, Un
      <3> QED BY <3>1, <3>2, <3>3 DEF CachedReady
    <2>2. CASE f \notin cached[u]
      <3>1. u = t /\ at'[c] = f BY <1>2, <2>2
      <3> QED BY <3>1 DEF CachedReady, t
    <2> QED BY <2>1, <2>2
  <1>9. ASSUME at'[c] \in Fixtures, NEW n \in DOMAIN Pending(c), n < Place(c, at'[c])
        PROVE  \E g \in Fixtures : g = Pending(c)[n] /\ Ready(t, g)'
    <2>0. PICK s \in Seq(Fixtures) : s = Pending(c) BY PendingDepsFirst DEF DepsFirst
    <2>1. PICK f \in Fixtures : /\ at'[c] = f /\ f \in ToSet(Pending(c)) /\ \A m \in Todo(c, last) : Place(c, f) <= m
      BY <1>2, <1>9, OwnerFacts
    <2>2. PICK g \in ToSet(Pending(c)) : g = Pending(c)[n] BY DEF ToSet
    <2>3. Place(c, g) \in Nat /\ Place(c, g) <= n /\ g \in Fixtures BY <2>2, PlaceIs
    <2>4. Place(c, f) \in Nat /\ n \in Nat BY <2>0, <2>1, PlaceIs
    <2>5. n < Place(c, f) BY <1>9, <2>1
    <2>6. Place(c, g) \notin Todo(c, last)
      <3>1. ~(Place(c, f) <= Place(c, g)) BY <2>3, <2>4, <2>5
      <3> QED BY <2>1, <3>1
    <2> QED BY <1>7, <2>2, <2>3, <2>6
  <1>10. CallsAreReady'
    <2> SUFFICES ASSUME NEW b \in Calls PROVE CallIsReady(b)' BY DEF CallsAreReady
    <2>0. b[1] \in Tests /\ CallIsReady(b) /\ Pending(b) \in Seq(Fixtures)
      BY CallFacts, PendingDepsFirst DEF RInv, CallsAreReady, DepsFirst
    <2>1. ASSUME at'[b] \in Fixtures, NEW n \in DOMAIN Pending(b), n < Place(b, at'[b])
          PROVE  \E g \in Fixtures : g = Pending(b)[n] /\ Ready(b[1], g)'
      <3>1. CASE b = c BY <1>9, <2>1, <3>1 DEF t
      <3>2. CASE b # c
        <4>1. at'[b] = at[b] BY <1>2, <3>2
        <4>2. PICK g \in Fixtures : g = Pending(b)[n] BY <2>0, <2>1
        <4>3. Ready(b[1], g) BY <2>0, <2>1, <4>1, <4>2 DEF CallIsReady
        <4> QED BY <1>5, <2>0, <4>2, <4>3
      <3> QED BY <3>1, <3>2
    <2>2. ASSUME at'[b] = "running", NEW f \in ToSet(Pending(b)) PROVE Ready(b[1], f)'
      <3>0. f \in Fixtures BY <2>0 DEF ToSet
      <3>1. CASE b = c
        <4>1. Todo(c, last) = {} BY <1>2, <2>2, <3>1, OwnerFacts
        <4>2. Ready(t, f)' BY <1>7, <3>1, <4>1
        <4> QED BY <3>1, <4>2 DEF t
      <3>2. CASE b # c
        <4>1. Ready(b[1], f) BY <1>2, <2>0, <2>2, <3>2 DEF CallIsReady
        <4> QED BY <1>5, <2>0, <3>0, <4>1
      <3> QED BY <3>1, <3>2
    <2>3. at'[b] \in Fixtures => \A n \in DOMAIN Pending(b) : n < Place(b, at'[b]) => Ready(b[1], Pending(b)[n])'
      <3> SUFFICES ASSUME at'[b] \in Fixtures, NEW n \in DOMAIN Pending(b), n < Place(b, at'[b])
                   PROVE  Ready(b[1], Pending(b)[n])'
        OBVIOUS
      <3>1. PICK g \in Fixtures : g = Pending(b)[n] /\ Ready(b[1], g)' BY <2>1
      <3> QED BY <3>1
    <2> QED BY <2>2, <2>3 DEF CallIsReady
  <1>11. AroundKeeps'
    <2> SUFFICES ASSUME NEW b \in Calls, b[3] = "around", at'[b] = "running", NEW f \in ToSet(Pending(b)), f \in TestScoped
                 PROVE  KeptFor(b[1], f)'
      BY DEF AroundKeeps
    <2>0. b[1] \in Tests /\ b[1] \in Owners /\ f \in Fixtures /\ f \notin FileScoped BY CallFacts, OwnerFacts, Scopes DEF Fixtures
    <2>1. CASE b = c
      <3>1. stage[t] = "around" BY <2>1 DEF CallGoes, t
      <3>2. Ready(t, f)' BY <1>10, <2>1 DEF CallsAreReady, CallIsReady, t
      <3>3. PICK v \in Instances : v = value'[t][f] /\ instance'[v] = "inUse" /\ OwnerOf(v) = t
        BY <2>0, <3>2 DEF Ready, ScopeOf, OwnerOf
      <3>4. Td(v) \in ToSet(cleanups'[OwnerOf(v)]) \cup ToSet(cleaning'[OwnerOf(v)])
        BY <3>3 DEF IInv, InstancesInPlace, InstanceInPlace, OwnerOf, Td
      <3>5. Td(v) \in ToSet(cleanups'[t]) BY <1>0, <1>1, <3>3, <3>4
      <3>6. PICK k \in DOMAIN cleanups'[t] : cleanups'[t][k] = Td(v) BY <3>5 DEF ToSet
      <3>7. stage'[t] \notin Inside BY <1>0, <3>1 DEF Inside
      <3> QED BY <2>1, <3>3, <3>6, <3>7 DEF KeptFor, Td, t
    <2>2. CASE b # c
      <3>1. at[b] = "running" BY <1>2, <2>2
      <3>2. PICK k \in DOMAIN cleanups[b[1]] : /\ cleanups[b[1]][k] = Td(value[b[1]][f])
                                               /\ stage[b[1]] \in Inside => k <= checkpoint[b[1]]
        BY <3>1 DEF RInv, AroundKeeps, KeptFor
      <3>3. Ready(b[1], f) BY <3>1 DEF RInv, CallsAreReady, CallIsReady
      <3>4. value'[b[1]][f] = value[b[1]][f]
        <4> SUFFICES ASSUME value'[b[1]][f] # value[b[1]][f] PROVE FALSE OBVIOUS
        <4>1. b[1] = t /\ f = at[c] BY <2>0 DEF Learns, t
        <4>2. ~Idle(b) BY <3>1 DEF Idle
        <4>3. Current(b) BY <4>2, StageOfCall
        <4>4. c[3] # "around"
          <5>1. b[2] = c[2] BY <1>0, <4>1, <4>3 DEF Current, t
          <5> QED BY <2>2, <4>1, <5>1, SameCall DEF t
        <4>5. stage[t] \in Inside BY <1>0, <4>4 DEF CallGoes, t, Active
        <4>6. About(cleanups[t][k], f) BY <3>2, <3>3, <4>1 DEF About, Td, Ready
        <4>7. k > checkpoint[t] BY <2>0, <3>2, <4>1, <4>5, <4>6, OwnerFacts DEF CallGoes, t
        <4>8. k <= checkpoint[t] BY <3>2, <4>1, <4>5
        <4>9. k \in Nat /\ checkpoint[t] \in Nat
          <5>1. PICK q \in Seq(Entries) : q = cleanups[b[1]] BY <2>0, Types DEF IInv
          <5>2. k \in Nat BY <5>1
          <5> QED BY <1>0, <5>2, Types DEF IInv
        <4> QED BY <4>7, <4>8, <4>9
      <3>5. k \in DOMAIN cleanups'[b[1]] /\ cleanups'[b[1]][k] = cleanups[b[1]][k] BY <1>0, <1>4, <2>0, GrowsKeepsOrder
      <3> QED BY <1>0, <3>2, <3>4, <3>5 DEF KeptFor, Td
    <2> QED BY <2>1, <2>2
  <1>12. AllTornOnce' BY <1>0, <1>4, GrowsKeepsTornOnce
  <1>13. DepsOutlive'
    <2> SUFFICES ASSUME NEW i \in Instances, Live(i)', NEW d \in ToSet(Deps[i[2]]) PROVE Outlives(i, d)'
      BY DEF DepsOutlive
    <2>0. i[2] \in Fixtures /\ d \in Fixtures BY InstanceFacts, DepsFacts
    <2>1. CASE instance'[i] = instance[i]
      <3>1. Outlives(i, d) BY <2>1 DEF RInv, DepsOutlive, Live
      <3> QED BY <1>0, <1>4, <2>0, <2>1, <3>1, GrowsKeepsOutlives
    \* What the fixture depends on comes before it.
    <2>2. CASE instance'[i] # instance[i]
      <3>1. PICK f \in Fixtures : at'[c] = f /\ f \in ToSet(Pending(c)) /\ i = <<c, f>> /\ instance'[i] = "setup"
        BY <1>2, <2>2
      <3>2. i[1] = c /\ i[2] = f BY <3>1
      <3>3. Place(c, f) \in DOMAIN Pending(c) /\ Pending(c)[Place(c, f)] = f BY <3>1, PlaceIs
      <3>4. PICK m \in DOMAIN Pending(c) : m < Place(c, f) /\ Pending(c)[m] = d
        BY <3>2, <3>3, PendingDepsFirst DEF DepsFirst
      <3>5. Ready(t, d)' BY <1>9, <3>1, <3>4
      <3>6. PICK v \in Instances : v = value'[t][d] /\ instance'[v] = "inUse" /\ v[2] = d /\ OwnerOf(v) = ScopeOf(t, d)
        BY <3>5 DEF Ready, OwnerOf
      <3>7. /\ Td(v) \in ToSet(cleanups'[OwnerOf(v)]) \cup ToSet(cleaning'[OwnerOf(v)])
            /\ v[2] \in FileScoped => value'[File][v[2]] = v
        BY <3>6 DEF IInv, InstancesInPlace, InstanceInPlace, OwnerOf, Td
      <3>8. CASE d \in FileScoped
        <4>1. value'[File][d] # None BY <3>6, <3>7, <3>8, OwnerFacts
        <4> QED BY <3>1, <3>8, <4>1 DEF Outlives, OutlivesOfFile
      <3>9. CASE d \notin FileScoped
        <4>1. OwnerOf(v) = t /\ OwnerOf(i) = t BY <2>0, <3>2, <3>6, <3>9, DepsFacts DEF ScopeOf, OwnerOf, t
        <4>2. Td(v) \in ToSet(cleanups'[t]) BY <1>0, <1>1, <3>7, <4>1
        <4> QED BY <3>1, <3>6, <3>9, <4>1, <4>2 DEF Outlives, OutlivesOfTest, OwnerOf, Td
      <3> QED BY <3>8, <3>9
    <2> QED BY <2>1, <2>2
  <1>14. FileStays' BY <1>0, <1>4, GrowsKeepsFile
  <1> QED BY <1>8, <1>10, <1>11, <1>12, <1>13, <1>14 DEF RInv

LEMMA BeginKeepsRInv ==
  ASSUME IInv, IInv', RInv, BeforeInOrder', NEW c \in Calls, Begin(c)
  PROVE  RInv'
  <1>1. CallGoes(c, 0) BY BeginGoes
  <1>2. Learns(c, 0) BY DEF Begin, Learns
  <1> QED BY <1>1, <1>2, CallGoesKeepsRInv

\* What a call awaited is ready when it goes on.
LEMMA AfterFixtureKeepsRInv ==
  ASSUME IInv, IInv', RInv, BeforeInOrder', NEW c \in Calls, AfterFixture(c)
  PROVE  RInv'
  <1>0. /\ c[1] \in Tests /\ c[1] \in Owners /\ File \in Owners /\ c[1] # File
        /\ \A f \in Fixtures : <<c, f>> \in Instances
    BY CallFacts, OwnerFacts
  <1>1. CallGoes(c, Place(c, at[c])) BY AfterFixtureGoes
  <1>2. PICK h \in Fixtures : h = at[c] BY DEF AfterFixture
  <1>3. value[File][h] \in Instances \cup {None} BY <1>0, Types DEF IInv
  <1>4. PICK i : i = IF h \in TestScoped THEN <<c, h>> ELSE value[File][h] OBVIOUS
  <1>5. i \in Instances /\ instance[i] # "setup" /\ value' = [value EXCEPT ![c[1]][h] = i]
    BY <1>0, <1>2, <1>3, <1>4 DEF AfterFixture
  <1>6. value'[c[1]][h] = i /\ \A t \in Tests : \A f \in Fixtures : t # c[1] \/ f # h => value'[t][f] = value[t][f]
    BY <1>0, <1>5, Types DEF IInv
  <1>7. instance[i] = "inUse" /\ i[2] = h /\ OwnerOf(i) = ScopeOf(c[1], h)
    <2>1. CASE h \in TestScoped
      <3>1. Awaits(c) BY DEF IInv, AwaitedInPlace
      <3> QED BY <1>2, <1>4, <1>5, <2>1, <3>1, Scopes DEF Awaits, OwnerOf, ScopeOf
    <2>2. CASE h \notin TestScoped
      <3>1. h \in FileScoped /\ i = value[File][h] /\ i # None BY <1>4, <1>5, <2>2, Scopes, OwnerFacts
      <3>2. i[2] = h BY <3>1 DEF IInv, FileContext
      <3>3. stage[File] = "tests" BY <1>2, StageOfAwaiting, StageOfCall
      <3>4. instance[i] = "inUse" BY <3>1, <3>3 DEF RInv, FileStays
      <3> QED BY <3>1, <3>2, <3>4 DEF OwnerOf, ScopeOf
    <2> QED BY <2>1, <2>2
  <1>8. instance'[i] = "inUse"
    <2>1. GoesOn(c, Place(c, at[c])) /\ Place(c, at[c]) \in Nat BY <1>1 DEF CallGoes
    <2>2. CASE GoesIdly(c) BY <1>7, <2>2 DEF GoesIdly
    <2>3. ASSUME NEW f \in Fixtures, Starts(c, f) PROVE instance'[i] = "inUse"
      <3>1. \A j \in Instances : Live(j) => <<j[2], OwnerOf(j)>> # <<f, OwnerOf(<<c, f>>)>>
        BY <1>1, <2>3, NothingYet DEF Starts, CallGoes
      <3>2. i # <<c, f>> BY <1>5, <1>7, <3>1 DEF Live
      <3> QED BY <1>0, <1>5, <1>7, <2>3, <3>2, Types DEF Starts, IInv
    <2> QED BY <2>1, <2>2, <2>3, GoesOnStarts
  <1>9. Ready(c[1], h)' BY <1>5, <1>6, <1>7, <1>8 DEF Ready, OwnerOf
  <1>10. h \in TestScoped => Un(h) \in ToSet(cleanups'[c[1]])
    <2> SUFFICES ASSUME h \in TestScoped PROVE Un(h) \in ToSet(cleanups'[c[1]]) OBVIOUS
    <2>1. cleanups' = [cleanups EXCEPT ![c[1]] = Append(@, Un(h))] BY <1>1, <1>2 DEF CallGoes
    <2>2. PICK s \in Seq(Entries) : s = cleanups[c[1]] BY <1>0, Types DEF IInv
    <2>3. PICK e \in Entries : e = Un(h) BY DEF Entries, Un
    <2>4. cleanups'[c[1]] = Append(s, e) BY <1>0, <2>1, <2>2, <2>3, Types DEF IInv
    <2> QED BY <2>3, <2>4, AppendSet
  <1>11. Learns(c, Place(c, at[c])) BY <1>2, <1>6, <1>9, <1>10 DEF Learns
  <1> QED BY <1>1, <1>11, CallGoesKeepsRInv

\* A fixture calls use(): it will be torn down before what it depends on.
LEMMA UseKeepsRInv ==
  ASSUME IInv, IInv', RInv, BeforeInOrder', NEW i \in Instances, Use(i)
  PROVE  RInv'
  <1>0. PICK p \in Owners : p = OwnerOf(i) BY InstanceFacts
  <1>1. PICK f \in Fixtures : f = i[2] BY InstanceFacts
  <1>2. /\ i[1] \in Calls /\ i[1][1] \in Tests /\ File \in Owners /\ File \notin Tests
        /\ f \in TestScoped => p = i[1][1] /\ f \notin FileScoped
        /\ f \notin TestScoped => p = File /\ f \in FileScoped
    BY <1>0, <1>1, InstanceFacts, OwnerFacts, Scopes DEF OwnerOf
  <1>3. instance[i] = "setup" /\ at[i[1]] = f /\ (f \in FileScoped => promise[f] = i /\ value[File][f] = None)
    <2>1. InstanceInPlace(i) /\ instance[i] = "setup" BY DEF IInv, InstancesInPlace, Use
    <2> QED BY <1>1, <1>2, <2>1, OwnerFacts DEF InstanceInPlace, IInv, FileContext
  <1>4. stage[i[1][1]] \in Active /\ i[1] \notin detached /\ stage[File] = "tests"
    BY <1>2, <1>3, StageOfAwaiting, StageOfCall
  <1>5. cleaning[p] = <<>> /\ ToSet(cleaning[p]) = {}
    <2>1. cleaning[p] = <<>> BY <1>2, <1>4 DEF IInv, CleanupsInPlace, Active, Inside
    <2> QED BY <2>1 DEF ToSet
  <1>6. /\ UNCHANGED <<stage, checkpoint, at, cached, cleaning>>
        /\ instance' = [instance EXCEPT ![i] = "inUse"]
        /\ cleanups' = [cleanups EXCEPT ![p] = Append(@, Td(i))]
        /\ IF f \in TestScoped THEN value' = value ELSE value' = [value EXCEPT ![File][f] = i]
    BY <1>1, <1>2, <1>4 DEF Use, Pushed, Td, runner
  <1>7. /\ instance'[i] = "inUse" /\ \A j \in Instances : j # i => instance'[j] = instance[j]
        /\ \A u \in Tests : value'[u] = value[u]
        /\ \A g \in Fixtures : value'[File][g] = value[File][g] \/ (g = f /\ f \in FileScoped /\ value'[File][g] = i)
    BY <1>2, <1>6, Types, OwnerFacts DEF IInv
  <1>8. PICK e \in Entries : e = Td(i) BY DEF Entries, Td
  <1>9. e[1] = "teardown" /\ e[2] = i BY <1>8 DEF Td
  \* It is not torn down yet.
  <1>10. e \notin ToSet(cleanups[p]) \cup ToSet(cleaning[p])
    <2>1. TornOnce(p) BY DEF RInv, AllTornOnce
    <2>2. \A k \in DOMAIN cleanups[p] : cleanups[p][k] # e BY <1>3, <1>9, <2>1 DEF TornOnce
    <2> QED BY <1>5, <2>2 DEF ToSet
  <1>11. Grows(p, e)
    <2>1. \A j \in Instances : instance[j] \in {"inUse", "tearing"} => instance'[j] = instance[j] BY <1>3, <1>7
    <2>2. \A g \in Fixtures : value[File][g] # None => value'[File][g] = value[File][g] BY <1>3, <1>7
    <2> QED BY <1>6, <1>7, <1>8, <1>9, <1>10, <2>1, <2>2 DEF Grows
  <1>12. LongerBy(cleanups[p], cleanups'[p], e)
    <2>1. PICK s \in Seq(Entries) : s = cleanups[p] BY Types DEF IInv
    <2>2. LongerBy(s, Append(s, e), e) BY AppendLonger
    <2> QED BY <1>6, <1>8, <2>1, <2>2, Types DEF IInv
  <1>13. ASSUME NEW u \in Tests, NEW g \in Fixtures, Ready(u, g) PROVE Ready(u, g)'
    BY <1>7, <1>11, <1>13, GrowsKeepsReady
  <1>14. CachedIsReady'
    <2> SUFFICES ASSUME NEW u \in Tests, NEW g \in cached[u] PROVE CachedReady(u, g)' BY <1>6 DEF CachedIsReady
    <2>0. g \in Fixtures /\ u \in Owners /\ CachedReady(u, g) BY Types, OwnerFacts DEF IInv, Fixtures, RInv, CachedIsReady
    <2>1. CASE \E b \in Calls : b[1] = u /\ at[b] = g BY <1>6, <2>1 DEF CachedReady
    <2>2. CASE Un(g) \in ToSet(cleanups[u]) \cup ToSet(cleaning[u]) /\ (stage[u] \in Active => Ready(u, g))
      <3>1. Un(g) \in ToSet(cleanups'[u]) \cup ToSet(cleaning[u]) BY <1>11, <2>0, <2>2, GrowsKeepsOrder
      <3>2. stage[u] \in Active => Ready(u, g)' BY <1>13, <2>0, <2>2
      <3> QED BY <1>6, <3>1, <3>2 DEF CachedReady, Un
    <2> QED BY <2>0, <2>1, <2>2 DEF CachedReady
  <1>15. CallsAreReady'
    <2> SUFFICES ASSUME NEW b \in Calls PROVE CallIsReady(b)' BY DEF CallsAreReady
    <2>0. b[1] \in Tests /\ CallIsReady(b) /\ Pending(b) \in Seq(Fixtures)
      BY CallFacts, PendingDepsFirst DEF RInv, CallsAreReady, DepsFirst
    <2>1. ASSUME at[b] \in Fixtures, NEW n \in DOMAIN Pending(b), n < Place(b, at[b]) PROVE Ready(b[1], Pending(b)[n])'
      <3>1. PICK g \in Fixtures : g = Pending(b)[n] BY <2>0, <2>1
      <3>2. Ready(b[1], g) BY <2>0, <2>1, <3>1 DEF CallIsReady
      <3>3. Ready(b[1], g)' BY <1>13, <2>0, <3>2
      <3> QED BY <3>1, <3>3
    <2>2. ASSUME at[b] = "running", NEW g \in ToSet(Pending(b)) PROVE Ready(b[1], g)'
      <3>1. g \in Fixtures /\ Ready(b[1], g) BY <2>0, <2>2 DEF CallIsReady, ToSet
      <3> QED BY <1>13, <2>0, <3>1
    <2> QED BY <1>6, <2>1, <2>2 DEF CallIsReady
  <1>16. AroundKeeps'
    <2> SUFFICES ASSUME NEW b \in Calls, b[3] = "around", at[b] = "running", NEW g \in ToSet(Pending(b)), g \in TestScoped
                 PROVE  KeptFor(b[1], g)'
      BY <1>6 DEF AroundKeeps
    <2>0. b[1] \in Tests /\ b[1] \in Owners BY CallFacts, OwnerFacts
    <2>1. PICK k \in DOMAIN cleanups[b[1]] : /\ cleanups[b[1]][k] = Td(value[b[1]][g])
                                             /\ stage[b[1]] \in Inside => k <= checkpoint[b[1]]
      BY DEF RInv, AroundKeeps, KeptFor
    <2>2. k \in DOMAIN cleanups'[b[1]] /\ cleanups'[b[1]][k] = cleanups[b[1]][k] BY <1>11, <2>0, GrowsKeepsOrder
    <2> QED BY <1>6, <1>7, <2>0, <2>1, <2>2 DEF KeptFor, Td
  <1>17. AllTornOnce' BY <1>11, GrowsKeepsTornOnce
  <1>18. DepsOutlive'
    <2> SUFFICES ASSUME NEW j \in Instances, Live(j)', NEW d \in ToSet(Deps[j[2]]) PROVE Outlives(j, d)'
      BY DEF DepsOutlive
    <2>0. j[2] \in Fixtures /\ d \in Fixtures BY InstanceFacts, DepsFacts
    <2>1. Outlives(j, d) BY <1>3, <1>7 DEF RInv, DepsOutlive, Live
    <2>2. CASE j # i BY <1>7, <1>11, <2>0, <2>1, <2>2, GrowsKeepsOutlives
    <2>3. CASE j = i
      \* The new entry is the last one.
      <3>1. ASSUME NEW v, Td(v) \in ToSet(cleanups[p]) PROVE TornAfter(p, i, v)'
        <4>1. PICK m \in DOMAIN cleanups[p] : cleanups[p][m] = Td(v) BY <3>1 DEF ToSet
        <4>2. PICK k \in DOMAIN cleanups'[p] : cleanups'[p][k] = e /\ m < k BY <1>12, <4>1 DEF LongerBy
        <4>3. m \in DOMAIN cleanups'[p] /\ cleanups'[p][m] = Td(v) BY <1>12, <4>1 DEF LongerBy
        <4> QED BY <1>8, <4>2, <4>3 DEF TornAfter, Td
      <3>2. CASE d \in FileScoped
        <4>1. value[File][d] # None BY <2>1, <3>2 DEF Outlives, OutlivesOfFile
        <4>2. value'[File][d] = value[File][d] BY <1>11, <2>0, <4>1 DEF Grows
        <4>3. ASSUME f \in FileScoped PROVE TornAfter(File, i, value[File][d])'
          <5>1. value[File][d] \in Instances \cup {None} BY <1>2, <2>0, Types DEF IInv
          <5>2. PICK v \in Instances : v = value[File][d] BY <4>1, <5>1
          <5>3. v[2] = d /\ instance[v] = "inUse" BY <1>4, <3>2, <4>1, <5>2 DEF IInv, FileContext, RInv, FileStays
          <5>4. OwnerOf(v) = File /\ p = File BY <1>2, <3>2, <4>3, <5>3 DEF OwnerOf
          <5>5. Td(v) \in ToSet(cleanups[File]) BY <1>5, <5>3, <5>4 DEF IInv, InstancesInPlace, InstanceInPlace
          <5>6. TornAfter(p, i, v)' BY <3>1, <5>4, <5>5
          <5> QED BY <4>2, <5>2, <5>4, <5>6
        <4>4. value'[File][d] # None /\ (i[2] \in FileScoped => TornAfter(File, i, value[File][d])') BY <1>1, <4>1, <4>2, <4>3
        <4> QED BY <2>3, <3>2, <4>2, <4>4 DEF Outlives, OutlivesOfFile
      <3>3. CASE d \notin FileScoped
        <4>1. PICK v \in Instances : v[2] = d /\ OwnerOf(v) = p /\ Td(v) \in ToSet(cleanups[p])
          BY <1>0, <1>3, <2>1, <2>3, <3>3 DEF Outlives, OutlivesOfTest
        <4>2. TornAfter(p, i, v)' BY SMTT(30), <3>1, <4>1
        <4>3. TornAfter(OwnerOf(i), i, v)' BY <1>0, <4>2 DEF TornAfter, OwnerOf
        <4> QED BY <1>0, <1>7, <2>3, <3>3, <4>1, <4>3 DEF Outlives, OutlivesOfTest, OwnerOf
      <3> QED BY <3>2, <3>3
    <2> QED BY <2>2, <2>3
  <1>19. FileStays'
    <2>1. \A g \in FileScoped : value'[File][g] = value[File][g] \/ instance'[value'[File][g]] = "inUse"
      BY <1>7 DEF Fixtures
    <2> QED BY <1>11, <2>1, GrowsKeepsFile
  <1> QED BY <1>14, <1>15, <1>16, <1>17, <1>18, <1>19 DEF RInv

\* A fixture fails before use(): what awaited it is over.
LEMMA ThrowsKeepsRInv ==
  ASSUME IInv, IInv', RInv, BeforeInOrder', NEW i \in Instances, SetupThrows(i)
  PROVE  RInv'
  <1>0. PICK p \in Owners : p = OwnerOf(i) BY InstanceFacts
  <1>1. /\ i[1][1] \in Tests /\ instance[i] = "setup"
        /\ UNCHANGED <<stage, checkpoint, value, cleanups, cleaning>>
        /\ instance'[i] = "over" /\ \A j \in Instances : j # i => instance'[j] = instance[j]
    BY InstanceFacts, Types DEF IInv, SetupThrows, runner
  <1>2. \A b \in Calls : at'[b] = "over" \/ (b \notin WhoAwaits(i) /\ at'[b] = at[b]) BY DEF SetupThrows
  <1>3. \A u \in Tests : \A g \in cached'[u] : g \in cached[u] /\ ~(i[2] \in TestScoped /\ u = i[1][1] /\ g = i[2])
    <2>1. cached' = IF i[2] \in TestScoped THEN [cached EXCEPT ![i[1][1]] = @ \ {i[2]}] ELSE cached
      BY DEF SetupThrows, Uncached
    <2> QED BY <1>1, <2>1, Types DEF IInv
  <1>4. at[i[1]] = i[2] BY <1>1 DEF IInv, InstancesInPlace, InstanceInPlace
  <1>5. PICK e : Grows(p, e) BY <1>1 DEF Grows
  <1>6. ASSUME NEW u \in Tests, NEW g \in Fixtures, Ready(u, g) PROVE Ready(u, g)'
    BY <1>1, <1>5, <1>6, GrowsKeepsReady
  <1>7. CachedIsReady'
    <2> SUFFICES ASSUME NEW u \in Tests, NEW g \in cached'[u] PROVE CachedReady(u, g)' BY DEF CachedIsReady
    <2>0. g \in TestScoped /\ g \in Fixtures /\ CachedReady(u, g) BY <1>3, Types DEF IInv, Fixtures, RInv, CachedIsReady
    <2>1. CASE \E b \in Calls : b[1] = u /\ at[b] = g
      <3>1. PICK b \in Calls : b[1] = u /\ at[b] = g BY <2>1
      <3>2. b \notin WhoAwaits(i) BY <1>3, <1>4, <2>0, <3>1 DEF WhoAwaits
      <3>3. at'[b] = at[b] BY <3>2 DEF SetupThrows
      <3> QED BY <3>1, <3>3 DEF CachedReady
    <2>2. CASE Un(g) \in ToSet(cleanups[u]) \cup ToSet(cleaning[u]) /\ (stage[u] \in Active => Ready(u, g))
      <3>1. stage[u] \in Active => Ready(u, g)' BY <1>6, <2>0, <2>2
      <3> QED BY <1>1, <2>2, <3>1 DEF CachedReady, Un
    <2> QED BY <2>0, <2>1, <2>2 DEF CachedReady
  <1>8. CallsAreReady'
    <2> SUFFICES ASSUME NEW b \in Calls, at'[b] # "over" PROVE CallIsReady(b)' BY OwnerFacts DEF CallsAreReady, CallIsReady
    <2>0. b[1] \in Tests /\ CallIsReady(b) /\ Pending(b) \in Seq(Fixtures) /\ at'[b] = at[b]
      BY <1>2, CallFacts, PendingDepsFirst DEF RInv, CallsAreReady, DepsFirst
    <2>1. ASSUME at[b] \in Fixtures, NEW n \in DOMAIN Pending(b), n < Place(b, at[b]) PROVE Ready(b[1], Pending(b)[n])'
      <3>1. PICK g \in Fixtures : g = Pending(b)[n] BY <2>0, <2>1
      <3>2. Ready(b[1], g) BY <2>0, <2>1, <3>1 DEF CallIsReady
      <3>3. Ready(b[1], g)' BY <1>6, <2>0, <3>2
      <3> QED BY <3>1, <3>3
    <2>2. ASSUME at[b] = "running", NEW g \in ToSet(Pending(b)) PROVE Ready(b[1], g)'
      <3>1. g \in Fixtures /\ Ready(b[1], g) BY <2>0, <2>2 DEF CallIsReady, ToSet
      <3> QED BY <1>6, <2>0, <3>1
    <2> QED BY <2>0, <2>1, <2>2 DEF CallIsReady
  <1>9. AroundKeeps'
    <2>1. \A b \in Calls : at'[b] = "running" => at[b] = "running" BY <1>2
    <2> QED BY <1>1, <2>1 DEF RInv, AroundKeeps, KeptFor, Td
  <1>10. AllTornOnce' BY <1>5, GrowsKeepsTornOnce
  <1>11. DepsOutlive'
    <2> SUFFICES ASSUME NEW j \in Instances, Live(j)', NEW d \in ToSet(Deps[j[2]]) PROVE Outlives(j, d)'
      BY DEF DepsOutlive
    <2>0. j[2] \in Fixtures /\ d \in Fixtures BY InstanceFacts, DepsFacts
    <2>1. instance'[j] = instance[j] /\ Live(j) BY <1>1 DEF Live
    <2>2. Outlives(j, d) BY <2>1 DEF RInv, DepsOutlive
    <2> QED BY <1>5, <2>0, <2>1, <2>2, GrowsKeepsOutlives
  <1>12. FileStays' BY <1>1, <1>5, GrowsKeepsFile
  <1> QED BY <1>7, <1>8, <1>9, <1>10, <1>11, <1>12 DEF RInv

-----------------------------------------------------------------------------
LEMMA NextRInv ==
  ASSUME IInv, RInv, ~Timeouts, ~Parallel, [Next]_vars
  PROVE  RInv'
  <1>0. IInv' /\ BeforeInOrder' BY NextIInv, BeforeInOrderStep DEF RInv
  <1>1. ASSUME NEW o \in Owners, Runner(o) PROVE RInv'
    BY <1>0, <1>1, MovesKeepRInv, InnerKeepsRInv, TakesAllKeepsRInv, FileEndsKeepsRInv, CleaningKeepsRInv DEF Runner
  <1>2. ASSUME NEW c \in Calls, Call(c) PROVE RInv'
    BY <1>0, <1>2, BeginKeepsRInv, AfterFixtureKeepsRInv, EndKeepsRInv DEF Call
  <1>3. ASSUME NEW i \in Instances, Use(i) \/ SetupThrows(i) PROVE RInv'
    BY <1>0, <1>3, UseKeepsRInv, ThrowsKeepsRInv
  <1>4. CASE UNCHANGED vars BY <1>0, <1>4, FileEndsKeepsRInv
  <1> QED BY <1>1, <1>2, <1>3, <1>4 DEF Next

\* Unless calls time out or hooks run in parallel, a hook or test function that runs finds all
\* its fixtures initialized and none torn down, and so does a fixture from its setup to the end
\* of its teardown those it depends on: resolveDeps, the caches of withFixtures and the reversed
\* runFixtureCleanups together, for any tests, fixtures, dependencies and retries.
THEOREM FixturesReady == ASSUME ~Timeouts, ~Parallel PROVE Spec => []FixturesAreReady
  <1>1. Init => IInv /\ RInv BY InitIInv, InitRInv
  <1>2. IInv /\ RInv /\ [Next]_vars => (IInv /\ RInv)' BY NextIInv, NextRInv
  <1>3. IInv /\ RInv => FixturesAreReady BY RInvReady
  <1> QED BY <1>1, <1>2, <1>3, PTL DEF Spec
=============================================================================
