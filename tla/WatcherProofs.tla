---------------------------- MODULE WatcherProofs ----------------------------
(***************************************************************************)
(* Theorems about Watcher, for every module graph and every number of      *)
(* files, changes and reruns: no change is forgotten, and none is ignored  *)
(* in vain, as long as only tests are deleted and created again (for       *)
(* sources WatcherRecreate.cfg shows the contrary).                        *)
(***************************************************************************)
EXTENDS Watcher, TLAPS

\* A test that was created and never loaded is not found through its imports.
UnknownRunsAgain == Undisturbed => \A t \in (Tests \cap present) \ known : RunsAgain(t)

\* A test in changedTests has a timer, or a call that will set one.
ChangedComes == Undisturbed => (changedTests # {} => RerunComes)

\* Only a rerun with a pattern awaits the file system.
GlobbingIsFiltered == \A k \in Calls : pc[k] = "globbing" => filtered

\* Only tests are deleted.
SourcesStay == Sources \subseteq present

\* The inductive invariant.
IInv ==
  /\ TypeOK /\ SourcesStay /\ UnknownRunsAgain /\ ChangedComes /\ GlobbingIsFiltered
  /\ IgnoredRunsAgain /\ NoChangeForgotten

-----------------------------------------------------------------------------
\* The files a file leads to are closed under importers ...
LEMMA UpwardsLeads ==
  ASSUME NEW f \in Files, NEW importers PROVE Leads(Upwards(f, importers), f, importers)
  <1>1. f \in Upwards(f, importers) BY DEF Upwards, Leads
  <1>2. ASSUME NEW e \in Imports, e[2] \in Upwards(f, importers) \ Tests, e[1] \in importers
        PROVE  e[1] \in Upwards(f, importers)
    <2>1. e[1] \in Files BY WatcherAssumption
    <2>2. ASSUME NEW S \in SUBSET Files, Leads(S, f, importers) PROVE e[1] \in S
      BY <1>2, <2>2 DEF Upwards, Leads
    <2> QED BY <2>1, <2>2 DEF Upwards
  <1> QED BY <1>1, <1>2 DEF Leads

\* ... and the least such set ...
LEMMA UpwardsLeast ==
  ASSUME NEW f \in Files, NEW importers, NEW S \in SUBSET Files, Leads(S, f, importers)
  PROVE  Upwards(f, importers) \subseteq S
  BY DEF Upwards

\* ... so that fewer importers lead to fewer files ...
LEMMA UpwardsMonotonic ==
  ASSUME NEW f \in Files, NEW few, NEW many, few \subseteq many
  PROVE  Upwards(f, few) \subseteq Upwards(f, many)
  <1>1. Leads(Upwards(f, many), f, few) BY UpwardsLeads DEF Leads
  <1>2. Upwards(f, many) \in SUBSET Files BY DEF Upwards
  <1> QED BY <1>1, <1>2, UpwardsLeast

\* ... a file that is reached leads nowhere else ...
LEMMA UpwardsTransitive ==
  ASSUME NEW f \in Files, NEW importers, NEW x \in Upwards(f, importers)
  PROVE  Upwards(x, importers) \subseteq Upwards(f, importers)
  <1>1. Upwards(f, importers) \in SUBSET Files /\ x \in Files BY DEF Upwards
  <1>2. Leads(Upwards(f, importers), x, importers) BY UpwardsLeads DEF Leads
  <1> QED BY <1>1, <1>2, UpwardsLeast

\* ... and a test leads to itself only.
LEMMA UpwardsOfTest ==
  ASSUME NEW t \in Tests, NEW importers PROVE Upwards(t, importers) \subseteq {t}
  <1>1. t \in Files /\ {t} \in SUBSET Files BY DEF Files
  <1>2. Leads({t}, t, importers) BY DEF Leads
  <1> QED BY <1>1, <1>2, UpwardsLeast

\* What handleFileChanged does not reach, though it depends on the file, it does not reach
\* because of a file that is ignored, or it was never loaded.
LEMMA ReachedOrIgnored ==
  ASSUME TypeOK, NEW f \in present, ~Ignored(f), NEW t \in Dependents(f)
  PROVE  \/ t \in Reached(f)
         \/ \E g \in present : Ignored(g) /\ t \in Dependents(g)
         \/ t \in (Tests \cap present) \ known
  <1> DEFINE Stops(g) == g \in present /\ (Ignored(g) \/ g \in Tests \ known)
             S == {x \in Files : x \in Reached(f) \/ \E g \in present : Stops(g) /\ x \in Upwards(g, present)}
  <1>0. f \in Files /\ present \subseteq Files BY DEF TypeOK
  <1>1. Leads(Reached(f), f, {x \in known \cup (Sources \cap present) : ~Ignored(x)})
    BY <1>0, UpwardsLeads DEF Reached
  <1>2. Leads(S, f, present)
    <2>1. f \in S BY <1>0, <1>1 DEF Leads
    <2>2. ASSUME NEW e \in Imports, e[2] \in S \ Tests, e[1] \in present PROVE e[1] \in S
      <3>1. CASE \E g \in present : Stops(g) /\ e[2] \in Upwards(g, present)
        <4>1. PICK g \in present : Stops(g) /\ e[2] \in Upwards(g, present) BY <3>1
        <4>2. e[1] \in Upwards(g, present) BY <1>0, <2>2, <4>1, UpwardsLeads DEF Leads
        <4> QED BY <1>0, <2>2, <4>1, <4>2
      <3>2. CASE e[2] \in Reached(f)
        <4>1. CASE Stops(e[1])
          <5>1. e[1] \in Upwards(e[1], present) BY <1>0, <2>2, UpwardsLeads DEF Leads
          <5> QED BY <1>0, <2>2, <4>1, <5>1
        <4>2. CASE ~Stops(e[1])
          <5>1. e[1] \in {x \in known \cup (Sources \cap present) : ~Ignored(x)}
            BY <1>0, <2>2, <4>2 DEF Files
          <5> QED BY <1>0, <1>1, <2>2, <3>2, <5>1 DEF Leads
        <4> QED BY <4>1, <4>2
      <3> QED BY <2>2, <3>1, <3>2
    <2> QED BY <2>1, <2>2 DEF Leads
  <1>3. t \in S
    <2>1. S \in SUBSET Files OBVIOUS
    <2>2. t \in Upwards(f, present) BY DEF Dependents
    <2> QED BY <1>0, <1>2, <2>1, <2>2, UpwardsLeast
  <1>4. CASE \E g \in present : Stops(g) /\ t \in Upwards(g, present)
    <2>1. PICK g \in present : Stops(g) /\ t \in Upwards(g, present) BY <1>4
    <2>2. CASE Ignored(g) BY <2>1, <2>2 DEF Dependents
    <2>3. CASE g \in Tests \ known
      <3>1. t = g BY <2>1, <2>3, UpwardsOfTest
      <3> QED BY <2>1, <2>3, <3>1
    <2> QED BY <2>1, <2>2, <2>3
  <1> QED BY <1>3, <1>4

-----------------------------------------------------------------------------
\* A run that has not begun.
Waiting == {"globbing", "reporting", "awaitsTurn"}

\* A step that lets the runs that have not begun keep their files.
KeepsPlanned == \A j \in Jobs : pc[j] \in Waiting => pc'[j] \in Waiting /\ files[j] \subseteq files'[j]

\* A test that runs again still does after such a step, if the timer is not lost.
LEMMA StillRunsAgain ==
  ASSUME NEW t, RunsAgain(t), KeepsPlanned, changedTests \subseteq changedTests', RerunComes => RerunComes'
  PROVE  RunsAgain(t)'
  BY DEF RunsAgain, KeepsPlanned, Waiting

\* A step that leaves the files and the sets alone.
LEMMA FilesUntouched ==
  ASSUME IInv, TypeOK', GlobbingIsFiltered', KeepsPlanned, UNCHANGED <<sets, disk>>,
         RerunComes => RerunComes', Undisturbed' => Undisturbed
  PROVE  IInv'
  <1>1. \A t : RunsAgain(t) => RunsAgain(t)' BY StillRunsAgain DEF sets
  <1>2. UnknownRunsAgain' BY <1>1 DEF IInv, UnknownRunsAgain, disk
  <1>3. ChangedComes' BY DEF IInv, ChangedComes, sets
  <1>4. \A f : Ignored(f)' = Ignored(f) /\ Dependents(f)' = Dependents(f)
    BY DEF Ignored, Dependents, sets, disk
  <1>5. IgnoredRunsAgain' BY <1>1, <1>4 DEF IInv, IgnoredRunsAgain, disk
  <1>6. NoChangeForgotten' BY <1>1 DEF IInv, NoChangeForgotten, disk
  <1>7. SourcesStay' BY DEF IInv, SourcesStay, disk
  <1> QED BY <1>2, <1>3, <1>5, <1>6, <1>7 DEF IInv

\* After a pattern was applied, or the close, only types are left to be kept.
LEMMA Disturbed ==
  ASSUME IInv, present' = present, TypeOK', GlobbingIsFiltered', ~Undisturbed' PROVE IInv'
  BY DEF IInv, SourcesStay, UnknownRunsAgain, ChangedComes, IgnoredRunsAgain, NoChangeForgotten

\* scheduleRerun: the call will set the timer, and the runs keep their files.
LEMMA ScheduleKeeps ==
  ASSUME TypeOK, NEW k \in Calls, ScheduleRerun(k)
  PROVE  /\ timer' \in Calls \cup {NoJob} /\ pc' \in [Jobs -> Places]
         /\ awaits' \in [Jobs -> Jobs \cup {NoJob}] /\ files' \in [Jobs -> SUBSET Tests]
         /\ (timer # NoJob => pc[timer] = "armed")'
         /\ KeepsPlanned /\ RerunComes'
         /\ \A j \in Jobs : pc'[j] = "globbing" => pc[j] = "globbing"
  <1> USE DEF TypeOK, ScheduleRerun, TimerCleared, Places
  <1>1. k \in Jobs BY WatcherAssumption DEF Calls, Jobs
  <1>2. pc' \in [Jobs -> Places] /\ awaits' \in [Jobs -> Jobs \cup {NoJob}] BY <1>1
  <1>3. ASSUME NEW j \in Jobs, j = timer PROVE pc[j] = "armed"
    BY <1>3, WatcherAssumption DEF Jobs, NoJob
  <1>4. KeepsPlanned BY <1>1, <1>3 DEF KeepsPlanned, Waiting
  <1>5. RerunComes' BY <1>1 DEF RerunComes
  <1>6. \A j \in Jobs : pc'[j] = "globbing" => pc[j] = "globbing" BY <1>1
  <1> QED BY <1>2, <1>4, <1>5, <1>6

\* The timer is set, and another one cleared: one is left.
LEMMA ArmIInv == ASSUME IInv, NEW k \in Calls, Arm(k) PROVE IInv'
  <1> USE DEF Arm, NewTimer, TimerCleared, IInv
  <1>1. k \in Jobs /\ k # NoJob BY WatcherAssumption DEF Calls, Jobs, NoJob
  <1>2. TypeOK' BY <1>1 DEF TypeOK, Places, sets, disk
  <1>3. GlobbingIsFiltered'
    BY <1>1, WatcherAssumption DEF GlobbingIsFiltered, TypeOK, Calls, Jobs
  <1>4. ASSUME NEW j \in Jobs, j = timer PROVE pc[j] = "armed"
    BY <1>4, WatcherAssumption DEF Jobs, NoJob, TypeOK
  <1>5. KeepsPlanned BY <1>1, <1>4 DEF KeepsPlanned, Waiting, TypeOK
  <1>6. RerunComes' /\ (Undisturbed' => Undisturbed) BY <1>1 DEF RerunComes, Undisturbed
  <1> QED BY <1>2, <1>3, <1>5, <1>6, FilesUntouched

\* A rerun of all tests adds one that has not begun.
LEMMA RerunIInv == ASSUME IInv, NEW j \in Manual, NEW reset \in BOOLEAN, Rerun(j, reset) PROVE IInv'
  <1> USE DEF Rerun, Goes, IInv
  <1>1. j \in Jobs /\ j \notin Calls BY DEF Manual
  <1>2. TypeOK' BY <1>1 DEF TypeOK, Places, sets, disk, MatchesPattern
  <1>3. GlobbingIsFiltered'
    BY <1>1, WatcherAssumption DEF GlobbingIsFiltered, TypeOK, Calls, Jobs
  <1>4. KeepsPlanned BY <1>1 DEF KeepsPlanned, Waiting, TypeOK
  <1>5. (RerunComes => RerunComes') /\ (Undisturbed' => Undisturbed)
    BY <1>1, WatcherAssumption DEF RerunComes, Undisturbed, TypeOK, Calls, Jobs
  <1> QED BY <1>2, <1>3, <1>4, <1>5, FilesUntouched

\* The run waits for its turn.
LEMMA ReportIInv == ASSUME IInv, NEW j \in Jobs, Report(j) PROVE IInv'
  <1> USE DEF Report, Goes, IInv
  <1>1. TypeOK' BY DEF TypeOK, Places, sets, disk
  <1>2. GlobbingIsFiltered' BY WatcherAssumption DEF GlobbingIsFiltered, TypeOK, Calls, Jobs
  <1>3. KeepsPlanned BY DEF KeepsPlanned, Waiting, TypeOK
  <1>4. (RerunComes => RerunComes') /\ (Undisturbed' => Undisturbed)
    BY WatcherAssumption DEF RerunComes, Undisturbed, TypeOK, Calls, Jobs
  <1> QED BY <1>1, <1>2, <1>3, <1>4, FilesUntouched

\* The run that ends had begun.
LEMMA EndIInv == ASSUME IInv, NEW j \in Jobs, End(j) PROVE IInv'
  <1> USE DEF End, Goes, IInv
  <1>1. TypeOK' BY DEF TypeOK, Places, sets, disk
  <1>2. GlobbingIsFiltered' BY WatcherAssumption DEF GlobbingIsFiltered, TypeOK, Calls, Jobs
  <1>3. KeepsPlanned BY DEF KeepsPlanned, Waiting, TypeOK
  <1>4. (RerunComes => RerunComes') /\ (Undisturbed' => Undisturbed)
    BY WatcherAssumption DEF RerunComes, Undisturbed, TypeOK, Calls, Jobs
  <1> QED BY <1>1, <1>2, <1>3, <1>4, FilesUntouched

\* A rerun by hand goes on with its files; one of scheduleRerun was filtered.
LEMMA GlobbedIInv == ASSUME IInv, NEW j \in Jobs, Globbed(j) PROVE IInv'
  <1> USE DEF Globbed, Goes, IInv
  <1>1. TypeOK'
    <2>1. changedTests' \subseteq Tests BY DEF TypeOK
    <2>2. pc' \in [Jobs -> Places] BY DEF TypeOK, Places
    <2>3. (timer # NoJob => pc[timer] = "armed")' BY WatcherAssumption DEF TypeOK, Calls, Jobs
    <2> QED BY <2>1, <2>2, <2>3 DEF TypeOK, disk
  <1>2. GlobbingIsFiltered' BY WatcherAssumption DEF GlobbingIsFiltered, TypeOK, Calls, Jobs
  <1>3. CASE j \in Calls
    BY <1>1, <1>2, <1>3, Disturbed DEF GlobbingIsFiltered, Undisturbed, disk
  <1>4. CASE j \in Manual
    <2>1. j \notin Calls BY <1>4 DEF Manual
    <2>2. KeepsPlanned BY <2>1 DEF KeepsPlanned, Waiting, TypeOK
    <2>3. (RerunComes => RerunComes') /\ (Undisturbed' => Undisturbed)
      BY <2>1, WatcherAssumption DEF RerunComes, Undisturbed, TypeOK, Calls, Jobs
    <2>4. UNCHANGED <<sets, disk>> BY <2>1 DEF sets
    <2> QED BY <1>1, <1>2, <2>2, <2>3, <2>4, FilesUntouched
  <1> QED BY <1>3, <1>4 DEF Manual

\* Nothing is promised once Vitest closes.
LEMMA CloseIInv == ASSUME IInv, Close PROVE IInv'
  <1> USE DEF Close, TimerCleared, IInv
  <1>1. TypeOK' BY DEF TypeOK, Places, sets, disk
  <1>2. GlobbingIsFiltered' BY WatcherAssumption DEF GlobbingIsFiltered, TypeOK, Calls, Jobs
  <1>3. ~Undisturbed' BY DEF Undisturbed
  <1> QED BY <1>1, <1>2, <1>3, Disturbed DEF disk

-----------------------------------------------------------------------------
\* What is touched, and the tests that depend on it, run again.
LEMMA TouchedIInv ==
  ASSUME IInv, TypeOK', GlobbingIsFiltered', NEW f \in present, ~Ignored(f),
         changedTests' = changedTests \cup (Reached(f) \cap Tests),
         invalidates' = invalidates \cup NewlyInvalid(f),
         outdated' = outdated \cup Dependents(f),
         present' = present, known' = known, Undisturbed' => Undisturbed,
         KeepsPlanned, RerunComes => RerunComes', Reached(f) \cap Tests # {} => RerunComes'
  PROVE  IInv'
  <1>0. TypeOK /\ f \in Files BY DEF IInv, TypeOK
  <1>1. \A t : RunsAgain(t) => RunsAgain(t)' BY StillRunsAgain
  <1>2. ASSUME Undisturbed', NEW t \in Dependents(f) PROVE RunsAgain(t)'
    <2>1. CASE t \in Reached(f) BY <2>1 DEF Dependents, RunsAgain
    <2>2. CASE \E g \in present : Ignored(g) /\ t \in Dependents(g)
      BY <1>1, <1>2, <2>2 DEF IInv, IgnoredRunsAgain
    <2>3. CASE t \in (Tests \cap present) \ known BY <1>1, <1>2, <2>3 DEF IInv, UnknownRunsAgain
    <2> QED BY <1>0, <2>1, <2>2, <2>3, ReachedOrIgnored
  <1>3. ASSUME NEW x \in Reached(f) PROVE Dependents(x) \subseteq Dependents(f)
    <2>1. x \in Upwards(f, present)
      <3>1. {y \in known \cup (Sources \cap present) : ~Ignored(y)} \subseteq present BY <1>0 DEF TypeOK
      <3> QED BY <1>0, <1>3, <3>1, UpwardsMonotonic DEF Reached
    <2> QED BY <1>0, <2>1, UpwardsTransitive DEF Dependents
  <1>4. UnknownRunsAgain' BY <1>1 DEF IInv, UnknownRunsAgain
  <1>5. ChangedComes' BY DEF IInv, ChangedComes
  <1>6. IgnoredRunsAgain'
    <2> SUFFICES ASSUME Undisturbed', NEW x \in present, Ignored(x)', NEW t \in Dependents(x)'
                 PROVE  RunsAgain(t)'
      BY DEF IgnoredRunsAgain
    <2>1. t \in Dependents(x) BY DEF Dependents
    <2>2. CASE Ignored(x) BY <1>1, <2>1, <2>2 DEF IInv, IgnoredRunsAgain
    <2>3. CASE ~Ignored(x)
      <3>1. x \in Reached(f) BY <2>3 DEF Ignored, NewlyInvalid
      <3> QED BY <1>2, <1>3, <2>1, <3>1
    <2> QED BY <2>2, <2>3
  <1>7. NoChangeForgotten' BY <1>1, <1>2 DEF IInv, NoChangeForgotten
  <1>8. SourcesStay' BY DEF IInv, SourcesStay
  <1> QED BY <1>4, <1>5, <1>6, <1>7, <1>8 DEF IInv

\* A change that is ignored would be of no use, any other is dealt with.
LEMMA ChangeIInv == ASSUME IInv, NEW f \in Files, Change(f) PROVE IInv'
  <1> USE DEF Change, Touch
  <1>0. TypeOK BY DEF IInv
  <1>1. CASE Ignored(f)
    <2>1. TypeOK' BY <1>0, <1>1 DEF TypeOK, sets, jobs, Dependents
    <2>2. GlobbingIsFiltered' BY <1>1 DEF IInv, GlobbingIsFiltered, jobs
    <2>3. KeepsPlanned BY <1>1 DEF KeepsPlanned, jobs
    <2>4. (RerunComes => RerunComes') /\ Undisturbed' = Undisturbed BY <1>1 DEF RerunComes, jobs, Undisturbed
    <2>5. changedTests' = changedTests BY <1>1 DEF sets
    <2>6. \A t : RunsAgain(t) => RunsAgain(t)' BY <2>3, <2>4, <2>5, StillRunsAgain
    <2>7. UnknownRunsAgain' BY <2>4, <2>6 DEF IInv, UnknownRunsAgain
    <2>8. ChangedComes' BY <2>4, <2>5 DEF IInv, ChangedComes
    <2>9. \A x : Ignored(x)' = Ignored(x) /\ Dependents(x)' = Dependents(x)
      BY <1>1 DEF Ignored, Dependents, sets
    <2>10. IgnoredRunsAgain' BY <2>4, <2>6, <2>9 DEF IInv, IgnoredRunsAgain
    <2>11. NoChangeForgotten' BY <1>1, <2>4, <2>6 DEF IInv, NoChangeForgotten, IgnoredRunsAgain
    <2>12. SourcesStay' BY DEF IInv, SourcesStay
    <2> QED BY <2>1, <2>2, <2>7, <2>8, <2>10, <2>11, <2>12 DEF IInv
  <1>2. CASE ~Ignored(f)
    <2>0. /\ Undisturbed' = Undisturbed /\ f \in present
          /\ changedTests' = changedTests \cup (Reached(f) \cap Tests)
          /\ invalidates' = invalidates \cup NewlyInvalid(f)
      BY <1>2 DEF Undisturbed
    <2>1. /\ changedTests' \subseteq Tests /\ invalidates' \subseteq Files
          /\ outdated' \subseteq Tests \cap present
      BY <1>0, <2>0 DEF TypeOK, Dependents, NewlyInvalid, Reached, Upwards
    <2>2. CASE Reached(f) \cap Tests = {}
      <3>1. UNCHANGED <<timer, jobs>> BY <1>2, <2>2
      <3>2. TypeOK' BY <1>0, <2>1, <3>1 DEF TypeOK, jobs
      <3>3. GlobbingIsFiltered' BY <3>1 DEF IInv, GlobbingIsFiltered, jobs
      <3>4. KeepsPlanned BY <3>1 DEF KeepsPlanned, jobs
      <3>5. RerunComes => RerunComes' BY <3>1 DEF RerunComes, jobs
      <3> QED BY <1>2, <2>0, <2>2, <3>2, <3>3, <3>4, <3>5, TouchedIInv
    <2>3. CASE Reached(f) \cap Tests # {}
      <3>1. PICK k \in Calls : ScheduleRerun(k) BY <1>2, <2>3
      <3>2. /\ KeepsPlanned /\ RerunComes'
            /\ \A j \in Jobs : pc'[j] = "globbing" => pc[j] = "globbing"
        BY <1>0, <3>1, ScheduleKeeps
      <3>3. TypeOK' BY <1>0, <2>1, <3>1, ScheduleKeeps DEF TypeOK
      <3>4. GlobbingIsFiltered'
        BY <3>2, WatcherAssumption DEF IInv, GlobbingIsFiltered, Calls, Jobs
      <3> QED BY <1>2, <2>0, <3>2, <3>3, <3>4, TouchedIInv
    <2> QED BY <2>2, <2>3
  <1> QED BY <1>1, <1>2

\* After a file that triggers all tests, all run again.
LEMMA ChangeGlobalIInv == ASSUME IInv, NEW g \in Global, ChangeGlobal(g) PROVE IInv'
  <1> USE DEF ChangeGlobal
  <1>0. TypeOK BY DEF IInv
  <1>1. PICK k \in Calls : ScheduleRerun(k) OBVIOUS
  <1>2. /\ KeepsPlanned /\ RerunComes'
        /\ \A j \in Jobs : pc'[j] = "globbing" => pc[j] = "globbing"
    BY <1>0, <1>1, ScheduleKeeps
  <1>3. TypeOK'
    <2>1. changedTests' \subseteq Tests /\ outdated' \subseteq Tests \cap present BY <1>0 DEF TypeOK
    <2> QED BY <1>0, <1>1, <2>1, ScheduleKeeps DEF TypeOK
  <1>4. GlobbingIsFiltered'
    BY <1>2, WatcherAssumption DEF IInv, GlobbingIsFiltered, Calls, Jobs
  <1>5. ASSUME Undisturbed', NEW t \in Tests \cap present PROVE RunsAgain(t)'
    <2>1. CASE t \in known BY <1>2, <2>1 DEF RunsAgain
    <2>2. CASE t \notin known
      <3>1. RunsAgain(t) BY <1>5, <2>2 DEF IInv, UnknownRunsAgain, Undisturbed
      <3> QED BY <1>2, <3>1, StillRunsAgain
    <2> QED BY <2>1, <2>2
  <1>6. UnknownRunsAgain' BY <1>5 DEF UnknownRunsAgain
  <1>7. ChangedComes' BY <1>2 DEF ChangedComes
  <1>8. IgnoredRunsAgain' BY <1>5 DEF IgnoredRunsAgain, Dependents
  <1>9. NoChangeForgotten' BY <1>3, <1>5 DEF NoChangeForgotten, TypeOK
  <1>10. SourcesStay' BY DEF IInv, SourcesStay
  <1> QED BY <1>3, <1>4, <1>6, <1>7, <1>8, <1>9, <1>10 DEF IInv

\* What the deleted test would have run is gone with it.
LEMMA DeleteIInv ==
  ASSUME Deletable \subseteq Tests, IInv, NEW f \in Files, Delete(f) PROVE IInv'
  <1> USE DEF Delete, WithoutDeleted, KnownWithout
  <1>0. TypeOK BY DEF IInv
  <1>1. f \in Tests /\ f \in present /\ changedTests' \subseteq changedTests OBVIOUS
  <1>2. TypeOK' BY <1>0, <1>1 DEF TypeOK, jobs
  <1>3. GlobbingIsFiltered' BY DEF IInv, GlobbingIsFiltered, jobs
  <1>4. Undisturbed' = Undisturbed /\ RerunComes' = RerunComes BY DEF Undisturbed, RerunComes, jobs
  <1>5. \A t : t # f /\ RunsAgain(t) => RunsAgain(t)' BY <1>4 DEF RunsAgain, jobs
  <1>6. UnknownRunsAgain' BY <1>4, <1>5 DEF IInv, UnknownRunsAgain
  <1>7. ChangedComes' BY <1>1, <1>4 DEF IInv, ChangedComes
  <1>8. IgnoredRunsAgain'
    <2> SUFFICES ASSUME Undisturbed', NEW x \in present', Ignored(x)', NEW t \in Dependents(x)'
                 PROVE  RunsAgain(t)'
      BY DEF IgnoredRunsAgain
    <2>1. x \in present /\ Ignored(x) BY <1>1 DEF Ignored
    <2>2. x \in Files BY <1>0, <2>1 DEF TypeOK
    <2>3. t \in Dependents(x) /\ t # f BY <2>2, UpwardsMonotonic DEF Dependents
    <2> QED BY <1>4, <1>5, <2>1, <2>3 DEF IInv, IgnoredRunsAgain
  <1>9. NoChangeForgotten' BY <1>4, <1>5 DEF IInv, NoChangeForgotten
  <1>10. SourcesStay' BY <1>1, WatcherAssumption DEF IInv, SourcesStay
  <1> QED BY <1>2, <1>3, <1>6, <1>7, <1>8, <1>9, <1>10 DEF IInv

\* A test that is created joins no file's dependents but as itself.
LEMMA UpwardsWithTest ==
  ASSUME NEW f \in Files, NEW t \in Tests, NEW importers
  PROVE  Upwards(f, importers \cup {t}) \subseteq Upwards(f, importers) \cup {t}
  <1> DEFINE S == Upwards(f, importers) \cup {t}
  <1>1. S \in SUBSET Files BY DEF Upwards, Files
  <1>2. Leads(S, f, importers \cup {t}) BY UpwardsLeads DEF Leads
  <1> QED BY <1>1, <1>2, UpwardsLeast

\* It runs, whatever else is taken for changed.
LEMMA CreateIInv == ASSUME IInv, NEW f \in Files, Create(f) PROVE IInv'
  <1> USE DEF Create
  <1>0. TypeOK BY DEF IInv
  <1>1. f \in Tests /\ f \notin present BY DEF IInv, SourcesStay, Files
  <1>2. /\ changedTests' = changedTests \cup {f} /\ outdated' = outdated \cup {f}
        /\ invalidates' = invalidates /\ \E k \in Calls : ScheduleRerun(k)
    BY <1>1, WatcherAssumption
  <1>3. PICK k \in Calls : ScheduleRerun(k) BY <1>2
  <1>4. /\ KeepsPlanned /\ RerunComes'
        /\ \A j \in Jobs : pc'[j] = "globbing" => pc[j] = "globbing"
    BY <1>0, <1>3, ScheduleKeeps
  <1>5. TypeOK'
    <2>1. /\ changedTests' \subseteq Tests /\ invalidates' \subseteq Files
          /\ present' \subseteq Files /\ known' \subseteq Tests \cap present'
          /\ outdated' \subseteq Tests \cap present'
      BY <1>0, <1>1, <1>2 DEF TypeOK
    <2>2. /\ runningPromise' = runningPromise /\ filenamePattern' = filenamePattern
          /\ closing' = closing /\ filtered' = filtered
      OBVIOUS
    <2> QED BY <1>0, <1>3, <2>1, <2>2, ScheduleKeeps DEF TypeOK
  <1>6. GlobbingIsFiltered'
    BY <1>4, WatcherAssumption DEF IInv, GlobbingIsFiltered, Calls, Jobs
  <1>7. Undisturbed' = Undisturbed BY DEF Undisturbed
  <1>8. RunsAgain(f)' BY <1>2, <1>4 DEF RunsAgain
  <1>9. \A t : RunsAgain(t) => RunsAgain(t)' BY <1>2, <1>4, StillRunsAgain
  <1>10. UnknownRunsAgain' BY <1>7, <1>8, <1>9 DEF IInv, UnknownRunsAgain
  <1>11. ChangedComes' BY <1>4 DEF ChangedComes
  <1>12. IgnoredRunsAgain'
    <2> SUFFICES ASSUME Undisturbed', NEW x \in present', Ignored(x)', NEW t \in Dependents(x)', t # f
                 PROVE  RunsAgain(t)'
      BY <1>8 DEF IgnoredRunsAgain
    <2>1. t \in present /\ t \in Tests /\ t \in Upwards(x, present \cup {f}) BY DEF Dependents
    <2>2. x # f BY <1>1, <2>1, UpwardsOfTest
    <2>3. x \in present /\ x \in Files /\ Ignored(x) BY <1>0, <1>2, <2>2 DEF Ignored, TypeOK
    <2>4. t \in Dependents(x) BY <1>1, <2>1, <2>3, UpwardsWithTest DEF Dependents
    <2> QED BY <1>7, <1>9, <2>3, <2>4 DEF IInv, IgnoredRunsAgain
  <1>13. NoChangeForgotten' BY <1>2, <1>7, <1>8, <1>9 DEF IInv, NoChangeForgotten
  <1>14. SourcesStay' BY DEF IInv, SourcesStay
  <1> QED BY <1>5, <1>6, <1>10, <1>11, <1>12, <1>13, <1>14 DEF IInv

\* The timer hands the changed tests to a run, or finds none.
LEMMA FireIInv == ASSUME IInv, NEW k \in Calls, Fire(k) PROVE IInv'
  <1> USE DEF Fire, Goes, MatchesPattern
  <1>0. TypeOK BY DEF IInv
  <1>1. k \in Jobs /\ k # NoJob /\ pc[k] = "armed"
    BY <1>0, WatcherAssumption DEF Calls, Jobs, NoJob, TypeOK
  <1>2. TypeOK'
    <2>1. /\ pc' \in [Jobs -> Places] /\ files' \in [Jobs -> SUBSET Tests]
          /\ changedTests' \subseteq Tests /\ invalidates' \subseteq Files /\ filtered' \in BOOLEAN
      BY <1>0, <1>1 DEF TypeOK, Places
    <2> QED BY <1>0, <2>1 DEF TypeOK, disk
  <1>3. GlobbingIsFiltered' BY <1>0, <1>1, WatcherAssumption DEF IInv, GlobbingIsFiltered, TypeOK, Calls, Jobs
  <1>4. present' = present /\ known' = known /\ outdated' = outdated /\ closing' = closing BY DEF disk
  <1>5. CASE ~Undisturbed' BY <1>2, <1>3, <1>4, <1>5, Disturbed
  <1>6. CASE Undisturbed'
    <2>1. Undisturbed BY <1>4, <1>6 DEF Undisturbed
    <2>2. changedTests' = {} BY <1>6 DEF Undisturbed
    <2>3. invalidates' \subseteq invalidates OBVIOUS
    <2>4. ASSUME NEW t, RunsAgain(t) PROVE RunsAgain(t)'
      <3>1. CASE \E j \in Jobs : t \in files[j] /\ pc[j] \in {"globbing", "reporting", "awaitsTurn"}
        <4>1. PICK j \in Jobs : t \in files[j] /\ pc[j] \in {"globbing", "reporting", "awaitsTurn"} BY <3>1
        <4>2. j # k BY <1>1, <4>1
        <4>3. pc'[j] = pc[j] /\ files'[j] = files[j] BY <1>0, <4>1, <4>2 DEF TypeOK
        <4> QED BY <4>1, <4>3 DEF RunsAgain
      <3>2. CASE t \in changedTests
        <4>1. files'[k] = changedTests /\ pc'[k] = "reporting"
          BY <1>0, <1>1, <1>6, <3>2 DEF TypeOK, Undisturbed
        <4> QED BY <1>1, <3>2, <4>1 DEF RunsAgain
      <3> QED BY <2>4, <3>1, <3>2 DEF RunsAgain
    <2>5. UnknownRunsAgain' BY <1>4, <2>1, <2>4 DEF IInv, UnknownRunsAgain
    <2>6. ChangedComes' BY <2>2 DEF ChangedComes
    <2>7. \A x : (Ignored(x)' => Ignored(x)) /\ Dependents(x)' = Dependents(x)
      BY <1>4, <2>2, <2>3 DEF Ignored, Dependents
    <2>8. IgnoredRunsAgain' BY <1>4, <2>1, <2>4, <2>7 DEF IInv, IgnoredRunsAgain
    <2>9. NoChangeForgotten' BY <1>4, <2>1, <2>4 DEF IInv, NoChangeForgotten
    <2>10. SourcesStay' BY <1>4 DEF IInv, SourcesStay
    <2> QED BY <1>2, <1>3, <2>5, <2>6, <2>8, <2>9, <2>10 DEF IInv
  <1> QED BY <1>5, <1>6

\* The run that begins forgets the invalid modules; what is left in changedTests has a timer.
LEMMA BeginIInv == ASSUME IInv, NEW j \in Jobs, Begin(j) PROVE IInv'
  <1> USE DEF Begin, Goes, InvalidatesLeft
  <1>0. TypeOK BY DEF IInv
  <1>1. TypeOK' BY <1>0 DEF TypeOK, Places
  <1>2. GlobbingIsFiltered' BY <1>0, WatcherAssumption DEF IInv, GlobbingIsFiltered, TypeOK, Calls, Jobs
  <1>3. Undisturbed' = Undisturbed BY DEF Undisturbed
  <1>4. RerunComes => RerunComes' BY <1>0, WatcherAssumption DEF RerunComes, TypeOK, Calls, Jobs
  <1>5. ASSUME NEW t, t \notin files[j], RunsAgain(t) PROVE RunsAgain(t)'
    <2>1. \A i \in Jobs : i # j => pc'[i] = pc[i] BY <1>0 DEF TypeOK
    <2> QED BY <1>4, <1>5, <2>1 DEF RunsAgain
  <1>6. UnknownRunsAgain' BY <1>3, <1>5 DEF IInv, UnknownRunsAgain
  <1>7. ChangedComes' BY <1>3, <1>4 DEF IInv, ChangedComes
  <1>8. IgnoredRunsAgain'
    <2> SUFFICES ASSUME Undisturbed', NEW x \in present, x \in changedTests, NEW t \in Dependents(x)'
                 PROVE  RunsAgain(t)'
      BY DEF IgnoredRunsAgain, Ignored
    <2>1. x \in Tests BY <1>0 DEF TypeOK
    <2>2. t = x BY <2>1, UpwardsOfTest DEF Dependents
    <2> QED BY <1>3, <1>4, <2>2 DEF IInv, ChangedComes, RunsAgain
  <1>9. NoChangeForgotten' BY <1>3, <1>5 DEF IInv, NoChangeForgotten
  <1>10. SourcesStay' BY DEF IInv, SourcesStay
  <1> QED BY <1>1, <1>2, <1>6, <1>7, <1>8, <1>9, <1>10 DEF IInv

-----------------------------------------------------------------------------
\* At first everything is known and nothing has changed.
LEMMA InitIInv == ASSUME Init PROVE IInv
  <1>1. TypeOK BY WatcherAssumption DEF Init, TypeOK, Places, Files
  <1>2. SourcesStay /\ UnknownRunsAgain BY DEF Init, SourcesStay, UnknownRunsAgain, Files
  <1>3. ChangedComes /\ IgnoredRunsAgain /\ NoChangeForgotten
    BY DEF Init, ChangedComes, IgnoredRunsAgain, NoChangeForgotten, Ignored
  <1>4. GlobbingIsFiltered BY WatcherAssumption DEF Init, GlobbingIsFiltered, Calls, Jobs
  <1> QED BY <1>1, <1>2, <1>3, <1>4 DEF IInv

\* Every step keeps the invariant.
LEMMA NextIInv == ASSUME Deletable \subseteq Tests, IInv, [Next]_vars PROVE IInv'
  <1>1. CASE Next
    <2>1. ASSUME NEW k \in Calls, Arm(k) PROVE IInv' BY <2>1, ArmIInv
    <2>2. ASSUME NEW j \in Jobs, Begin(j) PROVE IInv' BY <2>2, BeginIInv
    <2>3. ASSUME NEW f \in Files, Change(f) \/ Delete(f) \/ Create(f) PROVE IInv'
      BY <2>3, ChangeIInv, DeleteIInv, CreateIInv
    <2>4. ASSUME NEW g \in Global, ChangeGlobal(g) PROVE IInv' BY <2>4, ChangeGlobalIInv
    <2>5. ASSUME NEW k \in Calls, Fire(k) PROVE IInv' BY <2>5, FireIInv
    <2>6. ASSUME NEW j \in Jobs, Proceeds(j) PROVE IInv'
      BY <2>6, GlobbedIInv, ReportIInv, EndIInv DEF Proceeds
    <2>7. ASSUME NEW j \in Manual, NEW reset \in BOOLEAN, Rerun(j, reset) PROVE IInv' BY <2>7, RerunIInv
    <2>8. CASE Close BY <2>8, CloseIInv
    <2> QED BY <1>1, <2>1, <2>2, <2>3, <2>4, <2>5, <2>6, <2>7, <2>8 DEF Next, Resumed
  <1>2. CASE UNCHANGED vars
    <2> USE DEF vars, sets, jobs, disk
    <2>1. TypeOK' BY <1>2 DEF IInv, TypeOK
    <2>2. GlobbingIsFiltered' BY <1>2 DEF IInv, GlobbingIsFiltered
    <2>3. KeepsPlanned BY <1>2 DEF KeepsPlanned
    <2>4. (RerunComes => RerunComes') /\ (Undisturbed' => Undisturbed)
      BY <1>2 DEF RerunComes, Undisturbed
    <2> QED BY <1>2, <2>1, <2>2, <2>3, <2>4, FilesUntouched
  <1> QED BY <1>1, <1>2

\* The sets, the timer and the jobs of the watcher keep their types (watcher.ts, core.ts).
THEOREM WatcherTypeOK == ASSUME Deletable \subseteq Tests PROVE Spec => []TypeOK
  <1>1. IInv => TypeOK BY DEF IInv
  <1> QED BY <1>1, InitIInv, NextIInv, PTL DEF Spec

\* Every test with a change that no run has begun after runs again: it is in the files of a
\* run to come, or in changedTests with a timer or a call that will set one.
THEOREM WatcherForgetsNothing == ASSUME Deletable \subseteq Tests PROVE Spec => []NoChangeForgotten
  <1>1. IInv => NoChangeForgotten BY DEF IInv
  <1> QED BY <1>1, InitIInv, NextIInv, PTL DEF Spec

\* The early return for files that are in changedTests or invalidates is sound
\* (watcher.ts, handleFileChanged): all tests that depend on them run again anyway.
THEOREM WatcherIgnoresSafely == ASSUME Deletable \subseteq Tests PROVE Spec => []IgnoredRunsAgain
  <1>1. IInv => IgnoredRunsAgain BY DEF IInv
  <1> QED BY <1>1, InitIInv, NextIInv, PTL DEF Spec
=============================================================================
