-------------------------- MODULE RunStore_proofs ---------------------------
(***************************************************************************)
(* Theorems of RunStore: every variable keeps its type, a page shows only  *)
(* what was persisted whole, no undisturbed run is missing from it, and    *)
(* the row that Run Live shows for a golden fixture is that of its latest  *)
(* run, never of an older one afterwards.                                  *)
(***************************************************************************)
EXTENDS RunStore, Policy_proofs

(***************************************************************************)
(* The inductive invariant.  A list has a due set, the files it owes with  *)
(* the versions they had; a version that is still the current one names a  *)
(* file that nobody touched, so its report is what a reader finds.         *)
(***************************************************************************)

\* A file exists only once its writer has begun, and a whole one is on record.
FilesInv ==
  \A n \in Names :
    /\ phase[n] = "idle" => disk[n] = "absent"
    /\ disk[n] = "whole" => report[n] \in persisted

\* A list owes a file in the version of some moment since the file exists; if
\* that is still the version, then the file is as it was.
Owes(list) ==
  \A d \in list.due :
    /\ d[2] <= version[d[1]] /\ phase[d[1]] # "idle"
    /\ d[2] = version[d[1]] => disk[d[1]] = "whole"

Pays(list) ==
  \A n \in Names : << n, version[n] >> \in list.due => report[n] \in ToSet(list.runs)

OnRecord(list) == ToSet(list.runs) \subseteq persisted

ListInv(list) == Owes(list) /\ Pays(list) /\ OnRecord(list)

\* The list that is being built still has files to read.
LoadInv ==
  /\ Owes([runs |-> runs, due |-> due])
  /\ ToSet(runs) \subseteq persisted
  /\ \A n \in Names : << n, version[n] >> \in due => n \in todo \/ report[n] \in ToSet(runs)

StoreInv ==
  /\ FilesInv
  /\ LoadInv
  /\ ListInv(cache.list)
  /\ \A s \in Sessions : ListInv(view[s])

IInv == TypeOK /\ StoreInv

-----------------------------------------------------------------------------
(***************************************************************************)
(* Lists and runs.                                                         *)
(***************************************************************************)

\* A list that a run is appended to stays a list and gains that run alone
\* (load_all_runs, `runs.append`).
LEMMA AppendRun ==
  ASSUME NEW S, NEW list \in Seq(S), NEW r \in S
  PROVE  /\ Append(list, r) \in Seq(S)
         /\ ToSet(Append(list, r)) = ToSet(list) \cup {r}
PROOF
  <1>1. Append(list, r) \in Seq(S)
    OBVIOUS
  <1>2. /\ Len(Append(list, r)) = Len(list) + 1 /\ Len(list) \in Nat
        /\ \A i \in 1 .. Len(list) : Append(list, r)[i] = list[i]
        /\ Append(list, r)[Len(list) + 1] = r
    OBVIOUS
  <1>3. DOMAIN Append(list, r) = 1 .. Len(list) + 1 /\ DOMAIN list = 1 .. Len(list)
    BY <1>1, <1>2
  <1>4. ToSet(list) = {list[i] : i \in 1 .. Len(list)}
    BY <1>3 DEF ToSet
  <1>5. ToSet(Append(list, r)) = {Append(list, r)[i] : i \in 1 .. Len(list) + 1}
    BY <1>3 DEF ToSet
  <1> QED BY <1>1, <1>2, <1>4, <1>5

\* The empty list shows no run.
LEMMA EmptyList == ToSet(<< >>) = {} /\ << >> \in Seq(Entry)
  BY DEF ToSet

\* An AgentRun has the type of an entry of a list.
LEMMA AgentRunType ==
  ASSUME NEW n \in Live \cup Fixtures, NEW t \in Nat
  PROVE  AgentRun(n, t) \in Entry
  BY StoreAssumption DEF AgentRun, Entry, Outcome, Names, Generated

\* So has the manifest as load_all_runs reads it.
LEMMA ManifestType ==
  ASSUME NEW n \in Manifests
  PROVE  ManifestEntry(n) \in Entry
  BY DEF ManifestEntry, Entry, Names, Generated

-----------------------------------------------------------------------------
(***************************************************************************)
(* Type correctness.                                                       *)
(***************************************************************************)

\* Initially every variable has its type.
LEMMA InitType == Init => TypeOK
PROOF
  <1> SUFFICES ASSUME Init PROVE TypeOK
    OBVIOUS
  <1>1. PICK done \in BOOLEAN, times \in [Fixtures -> FixtureTimes] :
          /\ phase = [n \in Names |-> IF n \in (IF done THEN Generated ELSE {})
                                      THEN "saved" ELSE "idle"]
          /\ report = [n \in Names |->
               IF n \in Manifests THEN ManifestEntry(n)
               ELSE AgentRun(n, IF n \in Fixtures THEN times[n] ELSE 0)]
          /\ disk = [n \in Names |-> IF n \in (IF done THEN Generated ELSE {})
                                     THEN "whole" ELSE "absent"]
          /\ persisted = {report[n] : n \in (IF done THEN Generated ELSE {})}
    BY DEF Init
  <1>2. report \in [Names -> Entry]
    <2> SUFFICES ASSUME NEW n \in Names
                 PROVE  (IF n \in Manifests THEN ManifestEntry(n)
                         ELSE AgentRun(n, IF n \in Fixtures THEN times[n] ELSE 0)) \in Entry
      BY <1>1
    <2>1. CASE n \in Manifests
      BY <2>1, ManifestType
    <2>2. CASE n \notin Manifests
      <3> DEFINE t == IF n \in Fixtures THEN times[n] ELSE 0
      <3>1. n \in Live \cup Fixtures
        BY <2>2 DEF Names, Generated
      <3>2. t \in Nat
        BY StoreAssumption
      <3> HIDE DEF t
      <3>3. AgentRun(n, t) \in Entry
        BY <3>1, <3>2, AgentRunType
      <3> QED BY <2>2, <3>3 DEF t
    <2> QED BY <2>1, <2>2
  <1>3. persisted \subseteq Entry
    BY <1>1, <1>2 DEF Names
  <1>4. phase \in [Names -> Phases] /\ disk \in [Names -> {"absent", "torn", "whole"}]
    BY <1>1 DEF Phases
  <1>5. NoView \in List
    BY EmptyList DEF NoView, List
  <1> QED BY <1>2, <1>3, <1>4, <1>5, EmptyList DEF Init, TypeOK, NoCache, NoView, List

\* Every step keeps the types.
LEMMA NextType == TypeOK /\ [Next]_vars => TypeOK'
PROOF
  <1> SUFFICES ASSUME TypeOK, [Next]_vars PROVE TypeOK'
    OBVIOUS
  <1> USE DEF writerVars, loadVars, historyVars
  <1>1. CASE Reset
    BY <1>1 DEF Reset, to_delete, TypeOK
  <1>2. CASE Expire
    BY <1>2, EmptyList DEF Expire, TypeOK, NoCache, NoView, List
  <1>3. CASE Restart
    BY <1>3, EmptyList DEF Restart, TypeOK, NoCache, NoView, List
  <1>4. ASSUME NEW n \in Names, Start(n) PROVE TypeOK'
    <2>1. AgentRun(n, clock') \in Entry /\ clock' \in Nat
      BY <1>4, AgentRunType DEF Start, TypeOK
    <2> QED BY <1>4, <2>1 DEF Start, TypeOK, Phases
  <1>5. ASSUME NEW n \in Names, SaveRun(n) PROVE TypeOK'
    BY <1>5 DEF SaveRun, Truncate, TypeOK, Phases
  <1>6. ASSUME NEW n \in Names, Generate(n) PROVE TypeOK'
    <2>1. PICK t \in FixtureTimes :
            report' = [report EXCEPT ![n] = IF n \in Fixtures THEN AgentRun(n, t) ELSE @]
      BY <1>6 DEF Generate
    <2>2. n \in Fixtures => AgentRun(n, t) \in Entry
      BY StoreAssumption, AgentRunType
    <2>3. report' \in [Names -> Entry]
      BY <2>1, <2>2 DEF TypeOK
    <2> QED BY <1>6, <2>3 DEF Generate, Truncate, TypeOK, Phases
  <1>7. ASSUME NEW n \in Names, Write(n) PROVE TypeOK'
    BY <1>7 DEF Write, TypeOK, Phases
  <1>8. ASSUME NEW n \in Names, Stop(n) PROVE TypeOK'
    BY <1>8 DEF Stop, TypeOK, Phases
  <1>9. ASSUME NEW n \in Names, Unlink(n) PROVE TypeOK'
    BY <1>9 DEF Unlink, TypeOK
  <1>10. ASSUME NEW n \in Names, ReadNext(n) PROVE TypeOK'
    <2>1. Append(runs, report[n]) \in Seq(Entry)
      BY AppendRun DEF TypeOK, List
    <2> QED BY <1>10, <2>1 DEF ReadNext, Skip, TypeOK, List
  <1>11. ASSUME NEW n \in Names, FailLoad(n) PROVE TypeOK'
    BY <1>11, EmptyList DEF FailLoad, TypeOK, List
  <1>12. ASSUME NEW s \in Sessions, Hit(s) PROVE TypeOK'
    BY <1>12 DEF Hit, TypeOK
  <1>13. ASSUME NEW s \in Sessions, BeginLoad(s) PROVE TypeOK'
    BY <1>13, EmptyList DEF BeginLoad, TypeOK, List
  <1>14. CASE EndLoad
    BY <1>14, EmptyList DEF EndLoad, TypeOK, List
  <1>15. CASE UNCHANGED vars
    BY <1>15 DEF vars, TypeOK
  <1> QED BY <1>1, <1>2, <1>3, <1>4, <1>5, <1>6, <1>7, <1>8, <1>9, <1>10, <1>11, <1>12,
             <1>13, <1>14, <1>15 DEF Next

\* Type correctness of the run store.
THEOREM TypeCorrect == Spec => []TypeOK
  BY InitType, NextType, PTL DEF Spec

-----------------------------------------------------------------------------
(***************************************************************************)
(* The steps of the writers.                                               *)
(***************************************************************************)

\* What they do to a file that exists: any change of it or of its report
\* is one of its version, and none takes back what is on record.
Orderly ==
  /\ persisted \subseteq persisted'
  /\ \A n \in Names :
       /\ version'[n] >= version[n]
       /\ phase[n] # "idle" =>
            /\ phase'[n] # "idle"
            /\ version'[n] = version[n] =>
                 report'[n] = report[n] /\ (disk[n] = "whole" => disk'[n] = "whole")

\* A finished list remains good while files change under it.
LEMMA OrderlyList ==
  ASSUME TypeOK, TypeOK', Orderly, NEW list \in List, ListInv(list)
  PROVE  ListInv(list)'
PROOF
  <1>1. ASSUME NEW d \in list.due
        PROVE  /\ d[2] <= version'[d[1]] /\ phase'[d[1]] # "idle"
               /\ d[2] = version'[d[1]] => d[2] = version[d[1]] /\ disk'[d[1]] = "whole"
    <2>1. d[1] \in Names /\ d[2] \in Nat
      BY DEF List
    <2>2. version[d[1]] \in Nat /\ version'[d[1]] \in Nat
      BY <2>1 DEF TypeOK
    <2> QED BY <2>1, <2>2 DEF Orderly, ListInv, Owes
  <1>2. Owes(list)'
    BY <1>1 DEF Owes
  <1>3. Pays(list)'
    <2> SUFFICES ASSUME NEW n \in Names, << n, version'[n] >> \in list.due
                 PROVE  report'[n] \in ToSet(list.runs)
      BY DEF Pays
    <2>1. version'[n] = version[n]
      BY <1>1
    <2>2. phase[n] # "idle"
      BY <2>1 DEF ListInv, Owes
    <2> QED BY <2>1, <2>2 DEF Orderly, ListInv, Pays
  <1>4. OnRecord(list)'
    BY DEF OnRecord, ListInv, Orderly
  <1> QED BY <1>2, <1>3, <1>4 DEF ListInv

\* So does the list that is being built.
LEMMA OrderlyLoad ==
  ASSUME TypeOK, TypeOK', Orderly, UNCHANGED loadVars, LoadInv
  PROVE  LoadInv'
PROOF
  <1>1. UNCHANGED << loader, todo, runs, due >>
    BY DEF loadVars
  <1>2. ASSUME NEW d \in due
        PROVE  /\ d[2] <= version'[d[1]] /\ phase'[d[1]] # "idle"
               /\ d[2] = version'[d[1]] => d[2] = version[d[1]] /\ disk'[d[1]] = "whole"
    <2>1. d[1] \in Names /\ d[2] \in Nat
      BY DEF TypeOK, List
    <2>2. version[d[1]] \in Nat /\ version'[d[1]] \in Nat
      BY <2>1 DEF TypeOK
    <2> QED BY <2>1, <2>2 DEF Orderly, LoadInv, Owes
  <1>3. Owes([runs |-> runs, due |-> due])'
    BY <1>1, <1>2 DEF Owes
  <1>4. ASSUME NEW n \in Names, << n, version'[n] >> \in due
        PROVE  n \in todo \/ report'[n] \in ToSet(runs)
    <2>1. version'[n] = version[n]
      BY <1>2, <1>4
    <2>2. phase[n] # "idle"
      BY <1>4, <2>1 DEF LoadInv, Owes
    <2> QED BY <1>4, <2>1, <2>2 DEF Orderly, LoadInv
  <1>5. ToSet(runs) \subseteq persisted'
    BY DEF LoadInv, Orderly
  <1> QED BY <1>1, <1>3, <1>4, <1>5 DEF LoadInv

\* An orderly step that leaves the reader alone keeps all lists good.
LEMMA WriterStep ==
  ASSUME TypeOK, TypeOK', StoreInv, Orderly, FilesInv', UNCHANGED << loadVars, cache, view >>
  PROVE  StoreInv'
PROOF
  <1>1. LoadInv'
    BY OrderlyLoad DEF StoreInv
  <1>2. cache.list \in List /\ \A s \in Sessions : view[s] \in List
    BY DEF TypeOK
  <1>3. ListInv(cache.list)'
    <2> DEFINE list == cache.list
    <2>1. list \in List /\ ListInv(list)
      BY <1>2 DEF StoreInv
    <2>2. \A l \in List : ListInv(l) => ListInv(l)'
      BY OrderlyList
    <2> QED BY <2>1, <2>2 DEF ListInv, Owes, Pays, OnRecord
  <1>4. ASSUME NEW s \in Sessions PROVE ListInv(view[s])'
    <2>1. view[s] \in List /\ ListInv(view[s])
      BY <1>2 DEF StoreInv
    <2>2. \A l \in List : ListInv(l) => ListInv(l)'
      BY OrderlyList
    <2> QED BY <2>1, <2>2 DEF ListInv, Owes, Pays, OnRecord
  <1> QED BY <1>1, <1>3, <1>4 DEF StoreInv

\* The step of each writer is orderly and leaves every whole file on record.
LEMMA WritersAreOrderly ==
  ASSUME TypeOK, TypeOK', FilesInv, NEW n \in Names,
         Start(n) \/ SaveRun(n) \/ Generate(n) \/ Write(n) \/ Stop(n) \/ Unlink(n)
  PROVE  Orderly /\ FilesInv' /\ UNCHANGED << loadVars, cache, view >>
PROOF
  <1> USE DEF Orderly, FilesInv, historyVars
  <1>1. CASE Start(n)
    BY <1>1 DEF Start, TypeOK
  <1>2. CASE SaveRun(n)
    BY <1>2 DEF SaveRun, Truncate, TypeOK
  <1>3. CASE Generate(n)
    BY <1>3 DEF Generate, Truncate, TypeOK
  <1>4. CASE Write(n)
    BY <1>4 DEF Write, TypeOK
  <1>5. CASE Stop(n)
    BY <1>5 DEF Stop, TypeOK
  <1>6. CASE Unlink(n)
    BY <1>6 DEF Unlink, TypeOK
  <1> QED BY <1>1, <1>2, <1>3, <1>4, <1>5, <1>6

-----------------------------------------------------------------------------
(***************************************************************************)
(* The steps of the reader, which leave the files alone.                   *)
(***************************************************************************)

\* A list is as good as it was while no file changes.
LEMMA StillFiles ==
  ASSUME UNCHANGED << writerVars, historyVars >>, FilesInv
  PROVE  /\ FilesInv'
         /\ \A list \in List : ListInv(list) => ListInv(list)'
  BY DEF writerVars, historyVars, FilesInv, ListInv, Owes, Pays, OnRecord

\* Nothing owed, nothing missing.
LEMMA NothingOwed ==
  ListInv(NoView) /\ Owes([runs |-> << >>, due |-> {}])
  BY EmptyList DEF ListInv, Owes, Pays, OnRecord, NoView

\* A load begins owing the whole files, all of them still to be read.
LEMMA BeginLoadStep ==
  ASSUME TypeOK, StoreInv, NEW s \in Sessions, BeginLoad(s)
  PROVE  LoadInv'
PROOF
  <1> USE DEF BeginLoad, writerVars, historyVars
  <1>1. ASSUME NEW d \in due'
        PROVE  \E n \in Names : d = << n, version[n] >> /\ disk[n] = "whole"
    OBVIOUS
  <1>2. Owes([runs |-> runs, due |-> due])'
    <2> SUFFICES ASSUME NEW d \in due'
                 PROVE  /\ d[2] <= version[d[1]] /\ phase[d[1]] # "idle"
                        /\ disk[d[1]] = "whole"
      BY DEF Owes
    <2>1. PICK n \in Names : d = << n, version[n] >> /\ disk[n] = "whole"
      BY <1>1
    <2>2. version[n] \in Nat /\ phase[n] # "idle"
      BY <2>1 DEF TypeOK, StoreInv, FilesInv
    <2> QED BY <2>1, <2>2
  <1>3. ASSUME NEW n \in Names, << n, version[n] >> \in due' PROVE n \in todo'
    <2>1. PICK m \in Names : << n, version[n] >> = << m, version[m] >> /\ disk[m] = "whole"
      BY <1>1, <1>3
    <2> QED BY <2>1
  <1> QED BY <1>2, <1>3, EmptyList DEF LoadInv

\* Reading the next file moves it from the files to read to the list; a torn
\* one is none that the list still owes.
LEMMA ReadNextStep ==
  ASSUME TypeOK, StoreInv, NEW n \in Names, ReadNext(n)
  PROVE  LoadInv'
PROOF
  <1> USE DEF ReadNext, writerVars, historyVars
  <1>1. Owes([runs |-> runs, due |-> due])'
    BY DEF StoreInv, LoadInv, Owes
  <1>2. CASE IsJson(n) /\ todo' = todo \ {n} /\ runs' = Append(runs, report[n])
    <2>1. ToSet(runs') = ToSet(runs) \cup {report[n]}
      BY <1>2, AppendRun DEF TypeOK, List
    <2>2. report[n] \in persisted
      BY <1>2 DEF IsJson, StoreInv, FilesInv
    <2> QED BY <1>1, <1>2, <2>1, <2>2 DEF StoreInv, LoadInv
  <1>3. CASE disk[n] = "torn" /\ Skip(n) /\ UNCHANGED runs
    <2>1. << n, version[n] >> \notin due
      BY <1>3 DEF StoreInv, LoadInv, Owes
    <2> QED BY <1>1, <1>3, <2>1 DEF Skip, StoreInv, LoadInv
  <1> QED BY <1>2, <1>3

\* A list that ends with nothing left to read owes nothing.
LEMMA EndLoadStep ==
  ASSUME StoreInv, EndLoad
  PROVE  ListInv([runs |-> runs, due |-> due])
  BY DEF EndLoad, StoreInv, LoadInv, ListInv, Pays, OnRecord

\* Every step keeps the invariant.
LEMMA NextInv == TypeOK /\ TypeOK' /\ StoreInv /\ [Next]_vars => StoreInv'
PROOF
  <1> SUFFICES ASSUME TypeOK, TypeOK', StoreInv, [Next]_vars PROVE StoreInv'
    OBVIOUS
  <1> DEFINE Still == UNCHANGED << writerVars, historyVars >>
  <1>1. ASSUME NEW n \in Names,
               Start(n) \/ SaveRun(n) \/ Generate(n) \/ Write(n) \/ Stop(n) \/ Unlink(n)
        PROVE  StoreInv'
    <2>1. Orderly /\ FilesInv' /\ UNCHANGED << loadVars, cache, view >>
      BY <1>1, WritersAreOrderly DEF StoreInv
    <2> QED BY <2>1, WriterStep
  <1>2. CASE Reset
    <2>1. Orderly /\ FilesInv'
      BY <1>2 DEF Reset, Orderly, StoreInv, FilesInv, historyVars, TypeOK
    <2> QED BY <1>2, <2>1, WriterStep DEF Reset
  <1>3. CASE UNCHANGED vars
    <2>1. Orderly /\ FilesInv'
      BY <1>3 DEF vars, writerVars, historyVars, Orderly, StoreInv, FilesInv, TypeOK
    <2> QED BY <1>3, <2>1, WriterStep DEF vars
  <1>4. /\ cache.list \in List /\ ListInv(cache.list)
        /\ \A s \in Sessions : view[s] \in List /\ ListInv(view[s])
        /\ NoView \in List
    BY EmptyList DEF TypeOK, StoreInv, NoView, List
  <1>5. Still => /\ FilesInv'
                 /\ \A list \in List : ListInv(list) => ListInv(list)'
                 /\ LoadInv /\ UNCHANGED loadVars => LoadInv'
    BY StillFiles DEF StoreInv, LoadInv, loadVars, Owes, writerVars, historyVars
  <1>6. ASSUME NEW s \in Sessions, Hit(s) PROVE StoreInv'
    BY <1>4, <1>5, <1>6 DEF Hit, StoreInv, TypeOK, ListInv, Owes, Pays, OnRecord
  <1>7. CASE Expire
    BY <1>4, <1>5, <1>7, NothingOwed
    DEF Expire, StoreInv, NoCache, ListInv, Owes, Pays, OnRecord
  <1>8. ASSUME NEW s \in Sessions, BeginLoad(s) PROVE StoreInv'
    <2>1. LoadInv'
      BY <1>8, BeginLoadStep
    <2> QED BY <1>4, <1>5, <1>8, <2>1 DEF BeginLoad, StoreInv, ListInv, Owes, Pays, OnRecord
  <1>9. ASSUME NEW n \in Names, ReadNext(n) PROVE StoreInv'
    <2>1. LoadInv'
      BY <1>9, ReadNextStep
    <2> QED BY <1>4, <1>5, <1>9, <2>1 DEF ReadNext, StoreInv, ListInv, Owes, Pays, OnRecord
  <1>10. ASSUME runs' = << >>, due' = {} PROVE LoadInv'
    BY <1>10, EmptyList DEF LoadInv, Owes
  <1>11. ASSUME NEW n \in Names, FailLoad(n) PROVE StoreInv'
    BY <1>4, <1>5, <1>10, <1>11 DEF FailLoad, StoreInv, ListInv, Owes, Pays, OnRecord
  <1>12. CASE EndLoad
    <2>1. PICK list \in List : list = [runs |-> runs, due |-> due] /\ ListInv(list)
      BY <1>12, EndLoadStep DEF TypeOK
    <2>2. /\ cache'.list = list
          /\ \A s \in Sessions : view'[s] \in {list, view[s]}
      BY <1>12, <2>1 DEF EndLoad, TypeOK
    <2>3. Still /\ FilesInv' /\ LoadInv' /\ \A l \in List : ListInv(l) => ListInv(l)'
      BY <1>5, <1>10, <1>12 DEF EndLoad
    <2>4. ListInv(list)'
      BY <2>1, <2>3
    <2>5. ListInv(cache.list)'
      BY <2>2, <2>4 DEF ListInv, Owes, Pays, OnRecord
    <2>6. ASSUME NEW s \in Sessions PROVE ListInv(view[s])'
      <3>1. CASE view'[s] = list
        BY <2>4, <3>1 DEF ListInv, Owes, Pays, OnRecord
      <3>2. CASE view'[s] = view[s]
        <4>1. view[s] \in List /\ ListInv(view[s])
          BY <1>4
        <4> QED BY <2>3, <3>2, <4>1 DEF ListInv, Owes, Pays, OnRecord
      <3> QED BY <2>2, <3>1, <3>2
    <2> QED BY <2>3, <2>5, <2>6 DEF StoreInv
  <1>13. CASE Restart
    BY <1>4, <1>5, <1>10, <1>13, NothingOwed
    DEF Restart, StoreInv, NoCache, ListInv, Owes, Pays, OnRecord
  <1> QED BY <1>1, <1>2, <1>3, <1>6, <1>7, <1>8, <1>9, <1>11, <1>12, <1>13 DEF Next

-----------------------------------------------------------------------------
(***************************************************************************)
(* The theorems.                                                           *)
(***************************************************************************)

\* Initially the fixtures are whole and on record, or absent.
LEMMA InitInv == Init => StoreInv
PROOF
  <1> SUFFICES ASSUME Init PROVE StoreInv
    OBVIOUS
  <1>1. FilesInv
    BY DEF Init, FilesInv
  <1>2. LoadInv
    BY EmptyList DEF Init, LoadInv, Owes
  <1>3. ListInv(cache.list) /\ \A s \in Sessions : ListInv(view[s])
    BY NothingOwed DEF Init, NoCache
  <1> QED BY <1>1, <1>2, <1>3 DEF StoreInv

\* The inductive invariant of the run store.
THEOREM Inductive == Spec => []IInv
PROOF
  <1>1. Init => IInv
    BY InitType, InitInv DEF IInv
  <1>2. IInv /\ [Next]_vars => IInv'
    BY NextType, NextInv DEF IInv
  <1> QED BY <1>1, <1>2, PTL DEF Spec

\* For any number of runs, writers and sessions, a page shows only what was
\* once the whole content of a file (load_all_runs over save_agent_run).
THEOREM OnlyPersisted == Spec => []ViewsShowPersisted
PROOF
  <1>1. IInv => ViewsShowPersisted
    BY DEF IInv, StoreInv, ListInv, OnRecord, ViewsShowPersisted
  <1> QED BY <1>1, Inductive, PTL

\* For any number of them, no undisturbed run is missing from a page.
THEOREM NoneMissing == Spec => []ViewsAreComplete
PROOF
  <1>1. IInv => ViewsAreComplete
    BY DEF IInv, StoreInv, ListInv, Pays, ViewsAreComplete, Undisturbed
  <1> QED BY <1>1, Inductive, PTL

-----------------------------------------------------------------------------
(***************************************************************************)
(* The loops of ui/data_loaders.py.                                        *)
(***************************************************************************)

\* The loop `if rank(x) > rank(best): best = x` ends with best or with one of the
\* values it has seen, and none of them outranks it.
LEMMA StrictestOf ==
  ASSUME NEW S, NEW rank \in [S -> Int], NEW best \in S, NEW list \in Seq(S),
         NEW x, x = Strictest(rank, best, list)
  PROVE  IsGravest(rank, x, ToSet(list), best)
PROOF
  <1> DEFINE n == Len(list)
             step == [k \in 1 .. n |-> [y \in S |-> IF rank[list[k]] > rank[y] THEN list[k] ELSE y]]
             Is(g) == g = [s \in SUBSET (1 .. n) |->
                             IF s = {} THEN best
                             ELSE IF rank[list[Max(s)]] > rank[g[s \ {Max(s)}]]
                                  THEN list[Max(s)] ELSE g[s \ {Max(s)}]]
  <1>1. n \in Nat /\ DOMAIN list = 1 .. n /\ \A k \in 1 .. n : list[k] \in S
    BY LenProperties
  <1>2. step \in [1 .. n -> [S -> S]]
    BY <1>1
  <1>3. \E g : Is(g)
    <2>1. PICK g \in [SUBSET (1 .. n) -> S] : Folds(g, n, best, step)
      BY <1>1, <1>2, FoldExists
    <2>2. ASSUME NEW s \in SUBSET (1 .. n), s # {}
          PROVE  Max(s) \in 1 .. n /\ g[s \ {Max(s)}] \in S
      <3>1. s \in SUBSET (0 .. n)
        OBVIOUS
      <3>2. Max(s) \in s
        BY <1>1, <2>2, <3>1, MaxIsGreatest
      <3>3. s \ {Max(s)} \in SUBSET (1 .. n)
        OBVIOUS
      <3> QED
        BY <3>2, <3>3
    <2>3. ASSUME NEW s \in SUBSET (1 .. n)
          PROVE  g[s] = IF s = {} THEN best
                        ELSE IF rank[list[Max(s)]] > rank[g[s \ {Max(s)}]]
                             THEN list[Max(s)] ELSE g[s \ {Max(s)}]
      BY <2>1, <2>2 DEF Folds
    <2>4. g = [s \in SUBSET (1 .. n) |-> g[s]]
      OBVIOUS
    <2>5. Is(g)
      BY <2>3, <2>4
    <2> QED
      BY <2>5
  <1>4. x = (CHOOSE g : Is(g))[1 .. n]
    BY <1>1 DEF Strictest, FoldLeft, MapThenFoldSet
  <1>5. PICK g : g = CHOOSE h : Is(h)
    OBVIOUS
  <1>6. Is(g)
    BY <1>3, <1>5
  <1> HIDE DEF n, step
  <1>7. g[{}] = best
    BY <1>6
  <1>8. ASSUME NEW k \in 1 .. n
        PROVE  g[1 .. k] = IF rank[list[k]] > rank[g[1 .. k - 1]] THEN list[k] ELSE g[1 .. k - 1]
    <2>1. Max(1 .. k) = k /\ (1 .. k) \ {k} = 1 .. k - 1
      BY MaxOfInterval
    <2>2. PICK s : s = 1 .. k
      OBVIOUS
    <2>3. s \in SUBSET (1 .. n) /\ s # {}
      <3>1. s \subseteq 1 .. n
        BY <1>1, <2>2
      <3>2. k \in s
        BY <1>1, <2>2
      <3> QED
        BY <3>1, <3>2
    <2>4. g[s] = IF rank[list[Max(s)]] > rank[g[s \ {Max(s)}]] THEN list[Max(s)] ELSE g[s \ {Max(s)}]
      BY <1>6, <2>3
    <2> QED
      BY <2>1, <2>2, <2>4
  <1> HIDE DEF Is
  <1> DEFINE J == {k \in 0 .. n : /\ g[1 .. k] \in S
                                  /\ g[1 .. k] = best \/ \E i \in 1 .. k : g[1 .. k] = list[i]
                                  /\ \A i \in 1 .. k : rank[list[i]] <= rank[g[1 .. k]]}
  <1>9. 0 \in J
    <2>1. 1 .. 0 = {}
      OBVIOUS
    <2> QED
      BY <1>1, <1>7, <2>1
  <1>10. ASSUME NEW k \in 1 .. n, k - 1 \in J PROVE k \in J
    <2>1. PICK a, b : a = g[1 .. k - 1] /\ b = g[1 .. k]
      OBVIOUS
    <2>2. /\ a \in S /\ (a = best \/ \E i \in 1 .. k - 1 : a = list[i])
          /\ \A i \in 1 .. k - 1 : rank[list[i]] <= rank[a]
      BY <1>10, <2>1
    <2>3. b = IF rank[list[k]] > rank[a] THEN list[k] ELSE a
      BY <1>8, <2>1
    <2>4. k \in 0 .. n /\ \A i \in 1 .. k : i \in 1 .. k - 1 \/ i = k
      BY <1>1
    <2>5. b \in S /\ \A i \in 1 .. k : list[i] \in S
      BY <1>1, <2>2, <2>3
    <2>6. \A i \in 1 .. k : rank[list[i]] <= rank[b]
      BY <2>2, <2>3, <2>4, <2>5
    <2>7. b = best \/ \E i \in 1 .. k : b = list[i]
      <3>1. \A i \in 1 .. k - 1 : i \in 1 .. k
        OBVIOUS
      <3>2. k \in 1 .. k
        OBVIOUS
      <3> QED
        BY <2>2, <2>3, <3>1, <3>2
    <2> QED
      BY <2>1, <2>4, <2>5, <2>6, <2>7
  <1>11. n \in J
    BY <1>1, <1>9, <1>10, LoopInduction
  <1>12. /\ x = best \/ \E i \in 1 .. n : x = list[i]
         /\ \A i \in 1 .. n : rank[list[i]] <= rank[x]
    BY <1>4, <1>5, <1>11
  <1>13. ToSet(list) = {list[i] : i \in 1 .. n}
    BY <1>1 DEF ToSet
  <1> QED
    BY <1>12, <1>13 DEF IsGravest

\* Of the first m runs of a list, those of by_fund are the latest of their
\* funds; NoRun stands for a fund that has none.
Latest(by_fund, list, m) ==
  \A f \in Funds :
    \/ by_fund[f] = NoRun /\ \A i \in 1 .. m : list[i].fund # f
    \/ \E i \in 1 .. m :
         /\ by_fund[f] = list[i] /\ list[i].fund = f
         /\ \A j \in 1 .. m : list[j].fund = f => list[j].started <= list[i].started

\* A turn of the loop of latest_run_per_fund.
Taken(by_fund, r) ==
  IF r.fund # Missing /\ (by_fund[r.fund] = NoRun \/ r.started > by_fund[r.fund].started)
  THEN [by_fund EXCEPT ![r.fund] = r]
  ELSE by_fund

LEMMA EntryIsNoNoRun == \A r \in Entry : r # NoRun
PROOF
  <1>1. \A r \in Entry : DOMAIN r = {"name", "fund", "started", "converged", "verdicts",
                                     "policy_actions"}
    BY DEF Entry
  <1>2. DOMAIN NoRun = {"name", "started"}
    BY DEF NoRun
  <1>3. "fund" \notin {"name", "started"}
    OBVIOUS
  <1> QED BY <1>1, <1>2, <1>3

LEMMA TakenIsLatest ==
  ASSUME NEW list \in Seq(Entry), NEW k \in 1 .. Len(list),
         NEW b \in [Funds -> Entry \cup {NoRun}], Latest(b, list, k - 1)
  PROVE  /\ Taken(b, list[k]) \in [Funds -> Entry \cup {NoRun}]
         /\ Latest(Taken(b, list[k]), list, k)
PROOF
  <1>1. PICK r : r = list[k]
    OBVIOUS
  <1>2. PICK c : c = Taken(b, r)
    OBVIOUS
  <1>3. Len(list) \in Nat /\ \A i \in 1 .. k : list[i] \in Entry
    BY LenProperties
  <1>4. r \in Entry /\ (r.fund # Missing => r.fund \in Funds)
    BY <1>1, <1>3 DEF Entry
  <1>5. c \in [Funds -> Entry \cup {NoRun}]
    BY <1>2, <1>4 DEF Taken
  <1>6. \A i \in 1 .. k : i \in 1 .. k - 1 \/ i = k
    OBVIOUS
  <1>7. \A i \in 1 .. k : list[i].started \in Int
    BY <1>3 DEF Entry
  <1>8. ASSUME NEW f \in Funds
        PROVE  \/ c[f] = NoRun /\ \A i \in 1 .. k : list[i].fund # f
               \/ \E i \in 1 .. k :
                    /\ c[f] = list[i] /\ list[i].fund = f
                    /\ \A j \in 1 .. k : list[j].fund = f => list[j].started <= list[i].started
    <2>0. f # Missing
      BY StoreAssumption
    <2>1. CASE r.fund = f /\ (b[f] = NoRun \/ r.started > b[f].started)
      <3>1. c[f] = list[k] /\ list[k].fund = f /\ k \in 1 .. k
        BY <1>1, <1>2, <2>0, <2>1 DEF Taken
      <3>2. ASSUME NEW j \in 1 .. k, list[j].fund = f PROVE list[j].started <= list[k].started
        <4>1. CASE j = k
          BY <1>7, <4>1
        <4>2. CASE j \in 1 .. k - 1
          <5>1. PICK i \in 1 .. k - 1 : b[f] = list[i] /\ list[j].started <= list[i].started
            BY <3>2, <4>2 DEF Latest
          <5>2. b[f] \in Entry
            BY <1>3, <5>1
          <5>3. list[i].started < list[k].started
            BY <1>1, <1>7, <2>1, <5>1, <5>2, EntryIsNoNoRun
          <5> QED BY <1>7, <5>1, <5>3
        <4> QED BY <1>6, <4>1, <4>2
      <3> QED BY <3>1, <3>2
    <2>2. CASE r.fund = f /\ ~(b[f] = NoRun \/ r.started > b[f].started)
      <3>1. c[f] = b[f]
        BY <1>2, <2>2 DEF Taken
      <3>2. PICK i \in 1 .. k - 1 :
              /\ b[f] = list[i] /\ list[i].fund = f
              /\ \A j \in 1 .. k - 1 : list[j].fund = f => list[j].started <= list[i].started
        BY <2>2 DEF Latest
      <3>3. i \in 1 .. k /\ list[k].started <= list[i].started
        BY <1>1, <1>7, <2>2, <3>2
      <3> QED BY <1>6, <3>1, <3>2, <3>3
    <2>3. CASE r.fund # f
      <3>1. c[f] = b[f] /\ list[k].fund # f
        BY <1>1, <1>2, <2>3 DEF Taken
      <3>2. \/ b[f] = NoRun /\ \A i \in 1 .. k - 1 : list[i].fund # f
            \/ \E i \in 1 .. k - 1 :
                 /\ b[f] = list[i] /\ list[i].fund = f
                 /\ \A j \in 1 .. k - 1 : list[j].fund = f => list[j].started <= list[i].started
        BY DEF Latest
      <3>3. \A i \in 1 .. k - 1 : i \in 1 .. k
        OBVIOUS
      <3> QED BY <1>6, <3>1, <3>2, <3>3
    <2> QED BY <2>1, <2>2, <2>3
  <1>9. Latest(c, list, k)
    BY <1>8 DEF Latest
  <1> QED BY <1>1, <1>2, <1>5, <1>9

\* latest_run_per_fund gives each fund its latest run.
LEMMA LatestOf ==
  ASSUME NEW list \in Seq(Entry), NEW x, x = latest_run_per_fund(list, Funds)
  PROVE  x \in [Funds -> Entry \cup {NoRun}] /\ Latest(x, list, Len(list))
PROOF
  <1> DEFINE n == Len(list)
             A == [Funds -> Entry \cup {NoRun}]
             base == [f \in Funds |-> NoRun]
             step == [k \in 1 .. n |-> [b \in A |-> Taken(b, list[k])]]
             Is(g) == g = [s \in SUBSET (1 .. n) |->
                             IF s = {} THEN base ELSE Taken(g[s \ {Max(s)}], list[Max(s)])]
  <1>1. n \in Nat /\ DOMAIN list = 1 .. n /\ \A k \in 1 .. n : list[k] \in Entry
    BY LenProperties
  <1>2. base \in A /\ step \in [1 .. n -> [A -> A]]
    <2>1. ASSUME NEW b \in A, NEW k \in 1 .. n PROVE Taken(b, list[k]) \in A
      <3>1. list[k].fund # Missing => list[k].fund \in Funds
        BY <1>1 DEF Entry
      <3> QED BY <1>1, <3>1 DEF Taken
    <2> QED BY <2>1
  <1>3. \E g : Is(g)
    <2> HIDE DEF A, base
    <2>1. PICK g \in [SUBSET (1 .. n) -> A] : Folds(g, n, base, step)
      BY <1>1, <1>2, FoldExists
    <2>2. ASSUME NEW s \in SUBSET (1 .. n), s # {}
          PROVE  Max(s) \in 1 .. n /\ g[s \ {Max(s)}] \in A
      <3>1. s \in SUBSET (0 .. n)
        OBVIOUS
      <3>2. Max(s) \in s
        BY <1>1, <2>2, <3>1, MaxIsGreatest
      <3>3. s \ {Max(s)} \in SUBSET (1 .. n)
        OBVIOUS
      <3> QED BY <3>2, <3>3
    <2>3. ASSUME NEW s \in SUBSET (1 .. n)
          PROVE  g[s] = IF s = {} THEN base ELSE Taken(g[s \ {Max(s)}], list[Max(s)])
      BY <2>1, <2>2 DEF Folds
    <2>4. g = [s \in SUBSET (1 .. n) |-> g[s]]
      OBVIOUS
    <2>5. Is(g)
      BY <2>3, <2>4
    <2> QED BY <2>5
  <1>4. x = (CHOOSE g : Is(g))[1 .. n]
    BY <1>1 DEF latest_run_per_fund, FoldLeft, MapThenFoldSet, Taken
  <1>5. PICK g : g = CHOOSE h : Is(h)
    OBVIOUS
  <1>6. Is(g)
    BY <1>3, <1>5
  <1> HIDE DEF n, step, A, base
  <1>7. g[{}] = base
    BY <1>6
  <1>8. ASSUME NEW k \in 1 .. n PROVE g[1 .. k] = Taken(g[1 .. k - 1], list[k])
    <2>1. Max(1 .. k) = k /\ (1 .. k) \ {k} = 1 .. k - 1
      BY MaxOfInterval
    <2>2. PICK s : s = 1 .. k
      OBVIOUS
    <2>3. s \in SUBSET (1 .. n) /\ s # {}
      <3>1. s \subseteq 1 .. n
        BY <1>1, <2>2
      <3>2. k \in s
        BY <1>1, <2>2
      <3> QED BY <3>1, <3>2
    <2>4. g[s] = Taken(g[s \ {Max(s)}], list[Max(s)])
      BY <1>6, <2>3
    <2> QED BY <2>1, <2>2, <2>4
  <1> HIDE DEF Is
  <1> DEFINE J == {k \in 0 .. n : g[1 .. k] \in A /\ Latest(g[1 .. k], list, k)}
  <1>9. 0 \in J
    <2>1. 1 .. 0 = {}
      OBVIOUS
    <2>2. Latest(base, list, 0)
      BY DEF Latest, base
    <2> QED BY <1>1, <1>2, <1>7, <2>1, <2>2
  <1>10. ASSUME NEW k \in 1 .. n, k - 1 \in J PROVE k \in J
    <2>1. PICK b : b = g[1 .. k - 1]
      OBVIOUS
    <2>2. b \in A /\ Latest(b, list, k - 1)
      BY <1>10, <2>1
    <2>3. Taken(b, list[k]) \in A /\ Latest(Taken(b, list[k]), list, k)
      BY <2>2, TakenIsLatest DEF A, n
    <2>4. k \in 0 .. n
      BY <1>1
    <2> QED BY <1>8, <2>1, <2>3, <2>4
  <1>11. n \in J
    BY <1>1, <1>9, <1>10, LoopInduction
  <1> QED BY <1>1, <1>4, <1>5, <1>11 DEF A, n

-----------------------------------------------------------------------------
(***************************************************************************)
(* The rows of the dashboard.                                              *)
(***************************************************************************)

IsRowOf(row, f, list) ==
  \/ row = Row(NoRun) /\ \A r \in ToSet(list) : r.fund # f
  \/ \E r \in ToSet(list) :
       /\ row = Row(r) /\ r.fund = f
       /\ \A q \in ToSet(list) : q.fund = f => q.started <= r.started

LEMMA RowOf ==
  ASSUME NEW list \in Seq(Entry), NEW f \in Funds
  PROVE  IsRowOf(runs_to_dashboard_table(list, Funds)[f], f, list)
PROOF
  <1>1. PICK x : x = latest_run_per_fund(list, Funds)
    OBVIOUS
  <1>2. Latest(x, list, Len(list))
    BY <1>1, LatestOf
  <1>3. runs_to_dashboard_table(list, Funds)[f] = Row(x[f])
    BY <1>1 DEF runs_to_dashboard_table
  <1>4. /\ \A i \in 1 .. Len(list) : list[i] \in ToSet(list)
        /\ \A r \in ToSet(list) : \E i \in 1 .. Len(list) : r = list[i]
    BY LenProperties DEF ToSet
  <1>5. CASE x[f] = NoRun /\ \A i \in 1 .. Len(list) : list[i].fund # f
    BY <1>3, <1>4, <1>5 DEF IsRowOf
  <1>6. CASE \E i \in 1 .. Len(list) :
               /\ x[f] = list[i] /\ list[i].fund = f
               /\ \A j \in 1 .. Len(list) : list[j].fund = f => list[j].started <= list[i].started
    BY <1>3, <1>4, <1>6 DEF IsRowOf
  <1> QED BY <1>2, <1>5, <1>6 DEF Latest

RowFields(row, r) ==
  /\ row.run_id = r.name /\ row.started = r.started
  /\ row.status = "complete" <=> r.converged
  /\ IsGravest(ActionRank, row.action, ToSet(r.policy_actions), "AUTO_SIGN_OFF")
  /\ IsGravest(SeverityRank, row.severity, Found(r), "NONE")

LEMMA RowShows ==
  ASSUME NEW r \in Entry
  PROVE  RowFields(Row(r), r)
PROOF
  <1>1. r # NoRun
    BY EntryIsNoNoRun
  <1>2. /\ Row(r).run_id = r.name /\ Row(r).started = r.started
        /\ Row(r).severity = primary_severity(r) /\ Row(r).action = primary_action(r)
        /\ Row(r).status = "complete" <=> r.converged
    BY <1>1 DEF Row
  <1>3. IsGravest(ActionRank, Row(r).action, ToSet(r.policy_actions), "AUTO_SIGN_OFF")
    <2>1. r.policy_actions \in Seq(Actions)
      BY DEF Entry
    <2>2. ActionRank \in [Actions -> Int] /\ "AUTO_SIGN_OFF" \in Actions
      BY DEF ActionRank, Actions
    <2>3. IsGravest(ActionRank, primary_action(r), ToSet(r.policy_actions), "AUTO_SIGN_OFF")
      BY <2>1, <2>2, StrictestOf DEF primary_action
    <2> QED BY <1>2, <2>3
  <1>4. IsGravest(SeverityRank, Row(r).severity, Found(r), "NONE")
    <2>1. PICK list : list = [i \in DOMAIN r.verdicts |-> IF RealDefect(r.verdicts[i])
                                                          THEN r.verdicts[i].severity ELSE "NONE"]
      OBVIOUS
    <2>2. /\ r.verdicts \in Seq(Verdict) /\ Len(r.verdicts) \in Nat
          /\ DOMAIN r.verdicts = 1 .. Len(r.verdicts)
          /\ \A i \in DOMAIN r.verdicts : r.verdicts[i] \in Verdict
      BY LenProperties DEF Entry
    <2>3. list \in [1 .. Len(r.verdicts) -> Severities]
      BY <2>1, <2>2 DEF Verdict, Severities
    <2>4. list \in Seq(Severities)
      BY <2>2, <2>3, FunctionIsSeq
    <2>5. SeverityRank \in [Severities -> Int] /\ "NONE" \in Severities
      BY DEF SeverityRank, Severities
    <2>6. primary_severity(r) = Strictest(SeverityRank, "NONE", list)
      BY <2>1 DEF primary_severity
    <2>7. PICK x : x = primary_severity(r)
      OBVIOUS
    <2>8. IsGravest(SeverityRank, x, ToSet(list), "NONE")
      BY <2>4, <2>5, <2>6, <2>7, StrictestOf
    <2>9. ASSUME NEW y \in ToSet(list) PROVE y = "NONE" \/ y \in Found(r)
      <3>1. PICK i \in DOMAIN r.verdicts :
              y = IF RealDefect(r.verdicts[i]) THEN r.verdicts[i].severity ELSE "NONE"
        BY <2>1, <2>9 DEF ToSet
      <3> QED BY <3>1 DEF Found, ToSet
    <2>10. ASSUME NEW y \in Found(r) PROVE y \in ToSet(list)
      <3>1. PICK i \in DOMAIN r.verdicts :
              RealDefect(r.verdicts[i]) /\ y = r.verdicts[i].severity
        BY <2>10 DEF Found, ToSet
      <3>2. i \in DOMAIN list /\ list[i] = y
        BY <2>1, <3>1
      <3> QED BY <3>2 DEF ToSet
    <2> QED BY <1>2, <2>7, <2>8, <2>9, <2>10 DEF IsGravest
  <1> QED BY <1>2, <1>3, <1>4 DEF RowFields

-----------------------------------------------------------------------------
(***************************************************************************)
(* What the rows need besides: a report bears its own name and fund, and a *)
(* list has one entry of a name.                                           *)
(***************************************************************************)

Named ==
  \A n \in Names : /\ report[n].name = n
                   /\ n \notin Manifests => report[n].fund = FundOf[n]

Distinct(list) == \A q, r \in ToSet(list) : q.name = r.name => q = r

OnceInv ==
  /\ Distinct(runs) /\ \A r \in ToSet(runs) : r.name \notin todo
  /\ Distinct(cache.list.runs)
  /\ \A s \in Sessions : Distinct(view[s].runs)

\* A list that a session shows owes no more, of the files as they are, than
\* the one in the cache and the one that is being built.
Forward ==
  /\ loader # Nobody => ~cache.valid
  /\ \A s \in Sessions : \A d \in view[s].due : d[2] = version[d[1]] =>
       /\ cache.valid => d \in cache.list.due
       /\ loader # Nobody => d \in due

LEMMA InitNamed == Init => Named /\ OnceInv /\ Forward
PROOF
  <1> SUFFICES ASSUME Init PROVE Named /\ OnceInv /\ Forward
    OBVIOUS
  <1>1. Named
    BY DEF Init, Named, AgentRun, ManifestEntry
  <1>2. OnceInv
    BY EmptyList DEF Init, OnceInv, Distinct, NoCache, NoView
  <1>3. Forward
    BY DEF Init, Forward, NoView
  <1> QED BY <1>1, <1>2, <1>3

LEMMA NextNamed == TypeOK /\ Named /\ [Next]_vars => Named'
PROOF
  <1> SUFFICES ASSUME TypeOK, Named, [Next]_vars PROVE Named'
    OBVIOUS
  <1>1. ASSUME NEW n \in Names, Start(n) PROVE Named'
    BY <1>1, StoreAssumption DEF Start, Named, AgentRun, TypeOK, Generated
  <1>2. ASSUME NEW n \in Names, Generate(n) PROVE Named'
    BY <1>2, StoreAssumption DEF Generate, Named, AgentRun, TypeOK
  <1>3. CASE UNCHANGED report
    BY <1>3 DEF Named
  <1> QED
    BY <1>1, <1>2, <1>3 DEF Next, Reset, Expire, Restart, SaveRun, Write, Stop, Unlink, ReadNext,
       FailLoad, Hit, BeginLoad, EndLoad, vars, writerVars

LEMMA NextOnce == TypeOK /\ Named /\ OnceInv /\ [Next]_vars => OnceInv'
PROOF
  <1> SUFFICES ASSUME TypeOK, Named, OnceInv, [Next]_vars PROVE OnceInv'
    OBVIOUS
  <1>0. Distinct(<< >>) /\ \A r \in ToSet(<< >>) : r.name \notin todo'
    BY EmptyList DEF Distinct
  <1>1. CASE UNCHANGED << runs, todo, cache, view >>
    BY <1>1 DEF OnceInv
  <1>2. CASE Expire
    BY <1>0, <1>2 DEF Expire, OnceInv, NoCache, NoView, loadVars
  <1>3. CASE Restart
    BY <1>0, <1>3 DEF Restart, OnceInv, NoCache, NoView
  <1>4. ASSUME NEW n \in Names, ReadNext(n) PROVE OnceInv'
    <2>1. CASE IsJson(n) /\ todo' = todo \ {n} /\ runs' = Append(runs, report[n])
      <3>1. ToSet(runs') = ToSet(runs) \cup {report[n]}
        BY <2>1, AppendRun DEF TypeOK, List
      <3>2. report[n].name = n /\ n \in todo
        BY <1>4 DEF Named, ReadNext, NextFile
      <3>3. Distinct(runs') /\ \A r \in ToSet(runs') : r.name \notin todo'
        BY <2>1, <3>1, <3>2 DEF OnceInv, Distinct
      <3> QED BY <1>4, <3>3 DEF ReadNext, OnceInv
    <2>2. CASE Skip(n) /\ UNCHANGED runs
      BY <1>4, <2>2 DEF ReadNext, Skip, OnceInv
    <2> QED BY <1>4, <2>1, <2>2 DEF ReadNext
  <1>5. ASSUME NEW n \in Names, FailLoad(n) PROVE OnceInv'
    BY <1>0, <1>5 DEF FailLoad, OnceInv
  <1>6. ASSUME NEW s \in Sessions, Hit(s) PROVE OnceInv'
    BY <1>6 DEF Hit, OnceInv, TypeOK, loadVars
  <1>7. ASSUME NEW s \in Sessions, BeginLoad(s) PROVE OnceInv'
    BY <1>0, <1>7 DEF BeginLoad, OnceInv
  <1>8. CASE EndLoad
    <2>1. runs' = << >> /\ UNCHANGED todo /\ cache'.list.runs = runs
      BY <1>8 DEF EndLoad
    <2>2. \A s \in Sessions : view'[s].runs \in {runs, view[s].runs}
      BY <1>8 DEF EndLoad, TypeOK
    <2> QED BY <1>0, <2>1, <2>2 DEF OnceInv
  <1> QED
    BY <1>1, <1>2, <1>3, <1>4, <1>5, <1>6, <1>7, <1>8
    DEF Next, Reset, Start, SaveRun, Generate, Truncate, Write, Stop, Unlink, vars, loadVars

\* No step makes a file's version older.
LEMMA VersionsGrow ==
  ASSUME TypeOK, TypeOK', StoreInv, [Next]_vars, NEW n \in Names
  PROVE  version'[n] >= version[n]
PROOF
  <1>1. ASSUME NEW m \in Names,
               Start(m) \/ SaveRun(m) \/ Generate(m) \/ Write(m) \/ Stop(m) \/ Unlink(m)
        PROVE  version'[n] >= version[n]
    BY <1>1, WritersAreOrderly DEF StoreInv, Orderly
  <1>2. CASE UNCHANGED version
    BY <1>2 DEF TypeOK
  <1> QED
    BY <1>1, <1>2 DEF Next, Reset, Expire, Restart, ReadNext, FailLoad, Hit, BeginLoad, EndLoad,
       vars, historyVars

LEMMA NextForward == TypeOK /\ TypeOK' /\ StoreInv /\ Forward /\ [Next]_vars => Forward'
PROOF
  <1> SUFFICES ASSUME TypeOK, TypeOK', StoreInv, Forward, [Next]_vars PROVE Forward'
    OBVIOUS
  <1>0. ASSUME NEW s \in Sessions, NEW d \in view[s].due
        PROVE  /\ d \in Names \X Nat /\ d[1] \in Names /\ d = << d[1], d[2] >>
               /\ d[2] = version'[d[1]] => d[2] = version[d[1]]
               /\ d[2] = version[d[1]] => disk[d[1]] = "whole"
    <2>1. d \in Names \X Nat
      BY DEF TypeOK, List
    <2>2. d[2] <= version[d[1]] /\ (d[2] = version[d[1]] => disk[d[1]] = "whole")
      BY DEF StoreInv, ListInv, Owes
    <2>3. d[1] \in Names /\ d[2] \in Nat /\ d = << d[1], d[2] >>
      BY <2>1
    <2>4. version'[d[1]] >= version[d[1]] /\ version[d[1]] \in Nat /\ version'[d[1]] \in Nat
      BY <2>3, VersionsGrow DEF TypeOK
    <2> QED BY <2>1, <2>2, <2>3, <2>4
  <1>1. CASE UNCHANGED << loader, due, cache, view >>
    BY <1>0, <1>1 DEF Forward
  <1>2. CASE Expire
    BY <1>0, <1>2 DEF Expire, Forward, NoCache, loadVars
  <1>3. CASE Restart
    BY <1>3 DEF Restart, Forward, NoCache
  <1>4. ASSUME NEW n \in Names, FailLoad(n) PROVE Forward'
    BY <1>0, <1>4 DEF FailLoad, Forward
  <1>5. ASSUME NEW s \in Sessions, Hit(s) PROVE Forward'
    <2>1. cache.valid /\ UNCHANGED << cache, loader, due, version >>
      BY <1>5 DEF Hit, loadVars, historyVars
    <2>2. \A t \in Sessions : view'[t] \in {cache.list, view[t]}
      BY <1>5 DEF Hit, TypeOK
    <2> QED BY <2>1, <2>2 DEF Forward
  <1>6. ASSUME NEW s \in Sessions, BeginLoad(s) PROVE Forward'
    <2>1. ~cache.valid /\ UNCHANGED << cache, view, version >>
      BY <1>6 DEF BeginLoad, historyVars
    <2>2. \A n \in Names : disk[n] = "whole" => << n, version[n] >> \in due'
      BY <1>6 DEF BeginLoad
    <2>3. ASSUME NEW t \in Sessions, NEW d \in view[t].due, d[2] = version[d[1]]
          PROVE  d \in due'
      <3>1. d[1] \in Names /\ disk[d[1]] = "whole" /\ d = << d[1], version[d[1]] >>
        BY <1>0, <2>3
      <3> QED BY <2>2, <3>1
    <2> QED BY <2>1, <2>3 DEF Forward
  <1>7. CASE EndLoad
    <2>1. /\ loader # Nobody /\ loader' = Nobody /\ cache'.list.due = due /\ UNCHANGED version
      BY <1>7 DEF EndLoad, historyVars
    <2>2. \A t \in Sessions : view'[t].due \in {due, view[t].due}
      BY <1>7 DEF EndLoad, TypeOK
    <2> QED BY <2>1, <2>2 DEF Forward
  <1> QED
    BY <1>1, <1>2, <1>3, <1>4, <1>5, <1>6, <1>7
    DEF Next, Reset, Start, SaveRun, Generate, Truncate, Write, Stop, Unlink, ReadNext, vars, loadVars

RowsInv == IInv /\ Named /\ OnceInv /\ Forward

LEMMA RowsInvariant == Spec => []RowsInv
PROOF
  <1>1. Init => RowsInv
    BY InitType, InitInv, InitNamed DEF RowsInv, IInv
  <1>2. RowsInv /\ [Next]_vars => RowsInv'
    BY NextType, NextInv, NextNamed, NextOnce, NextForward DEF RowsInv, IInv
  <1> QED BY <1>1, <1>2, PTL DEF Spec

\* A report in the list of a session is in the row of its fund, or an older
\* one than the row's.
LEMMA RowNoOlder ==
  ASSUME NEW list \in Seq(Entry), NEW f \in Funds, NEW r \in ToSet(list), r.fund = f,
         NEW row, row = runs_to_dashboard_table(list, Funds)[f]
  PROVE  row.started \in Nat \cup {-1} /\ row.started >= r.started
PROOF
  <1>1. IsRowOf(row, f, list)
    BY RowOf
  <1>2. PICK q \in ToSet(list) : row = Row(q) /\ r.started <= q.started
    BY <1>1 DEF IsRowOf
  <1>3. q \in Entry /\ r \in Entry
    BY LenProperties DEF ToSet
  <1>4. row.started = q.started
    BY <1>2, <1>3, RowShows DEF RowFields
  <1> QED BY <1>2, <1>3, <1>4 DEF Entry

LEMMA RowStarts ==
  ASSUME NEW list \in Seq(Entry), NEW f \in Funds,
         NEW row, row = runs_to_dashboard_table(list, Funds)[f]
  PROVE  row.started \in Nat \cup {-1}
PROOF
  <1>1. IsRowOf(row, f, list)
    BY RowOf
  <1>2. CASE row = Row(NoRun)
    BY <1>2 DEF Row
  <1>3. CASE \E r \in ToSet(list) : row = Row(r) /\ r.fund = f
    <2>1. PICK r \in ToSet(list) : row = Row(r) /\ r.fund = f
      BY <1>3
    <2>2. r \in Entry
      BY LenProperties DEF ToSet
    <2>3. row.started = r.started
      BY <2>1, <2>2, RowShows DEF RowFields
    <2> QED BY <2>2, <2>3 DEF Entry
  <1> QED BY <1>1, <1>2, <1>3 DEF IsRowOf

\* For any number of runs, writers, funds and sessions, the row of a fund is
\* that of its latest run: no undisturbed run is later, and its severity and
\* action are the gravest of the run it shows, or NONE and AUTO_SIGN_OFF where
\* that run has none (latest_run_per_fund, primary_severity and primary_action
\* of ui/data_loaders.py).
THEOREM RowsAlwaysCurrent == Spec => []RowsAreCurrent
PROOF
  <1>1. RowsInv => RowsAreCurrent
    <2> SUFFICES ASSUME RowsInv, NEW s \in Sessions, NEW f \in Funds,
                        NEW row, row = Table(s)[f]
                 PROVE  /\ \A n \in Undisturbed(s) \ Manifests :
                             FundOf[n] = f => row.started >= report[n].started
                        /\ row.status # "not_run" =>
                             \E r \in ToSet(view[s].runs) :
                               /\ r.name = row.run_id /\ r.fund = f /\ r.started = row.started
                               /\ row.status = "complete" <=> r.converged
                               /\ IsGravest(ActionRank, row.action, ToSet(r.policy_actions),
                                            "AUTO_SIGN_OFF")
                               /\ IsGravest(SeverityRank, row.severity, Found(r), "NONE")
      BY DEF RowsAreCurrent
    <2>1. PICK list : list = view[s].runs
      OBVIOUS
    <2>2. list \in Seq(Entry) /\ row = runs_to_dashboard_table(list, Funds)[f]
      BY <2>1 DEF RowsInv, IInv, TypeOK, List, Table
    <2>3. ASSUME NEW n \in Undisturbed(s) \ Manifests, FundOf[n] = f
          PROVE  row.started >= report[n].started
      <3>1. n \in Names /\ report[n] \in ToSet(list)
        BY <2>1 DEF Undisturbed, RowsInv, IInv, StoreInv, ListInv, Pays
      <3>2. report[n].fund = f
        BY <2>3, <3>1 DEF RowsInv, Named
      <3> QED BY <2>2, <3>1, <3>2, RowNoOlder
    <2>4. ASSUME row.status # "not_run"
          PROVE  \E r \in ToSet(list) : r.fund = f /\ RowFields(row, r)
      <3>1. IsRowOf(row, f, list)
        BY <2>2, RowOf
      <3>2. row # Row(NoRun)
        BY <2>4 DEF Row
      <3>3. PICK r \in ToSet(list) : row = Row(r) /\ r.fund = f
        BY <3>1, <3>2 DEF IsRowOf
      <3>4. r \in Entry
        BY <2>2, LenProperties DEF ToSet
      <3> QED BY <3>3, <3>4, RowShows
    <2> QED BY <2>1, <2>3, <2>4 DEF RowFields
  <1> QED BY <1>1, RowsInvariant, PTL

\* The list a session has after a step shows every undisturbed run that it
\* showed before.
LEMMA ViewsKeepUp ==
  ASSUME RowsInv, [Next]_vars, NEW s \in Sessions, NEW n \in Undisturbed(s)
  PROVE  report[n] \in ToSet(view'[s].runs)
PROOF
  <1>0. TypeOK /\ StoreInv /\ Forward
    BY DEF RowsInv, IInv
  <1>1. n \in Names /\ << n, version[n] >> \in view[s].due
    BY DEF Undisturbed
  <1>2. report[n] \in ToSet(view[s].runs)
    BY <1>0, <1>1 DEF StoreInv, ListInv, Pays
  <1>3. CASE view'[s] = view[s]
    BY <1>2, <1>3
  <1>4. ASSUME NEW t \in Sessions, Hit(t), view'[s] # view[s]
        PROVE  report[n] \in ToSet(view'[s].runs)
    <2>1. cache.valid /\ view'[s] = cache.list
      BY <1>0, <1>4 DEF Hit, TypeOK
    <2>2. << n, version[n] >> \in cache.list.due
      BY <1>0, <1>1, <2>1 DEF Forward
    <2> QED BY <1>0, <1>1, <2>1, <2>2 DEF StoreInv, ListInv, Pays
  <1>5. ASSUME EndLoad, view'[s] # view[s]
        PROVE  report[n] \in ToSet(view'[s].runs)
    <2>1. loader # Nobody /\ todo = {} /\ view'[s].runs = runs
      BY <1>0, <1>5 DEF EndLoad, TypeOK
    <2>2. << n, version[n] >> \in due
      BY <1>0, <1>1, <2>1 DEF Forward
    <2> QED BY <1>0, <1>1, <2>1, <2>2 DEF StoreInv, LoadInv
  <1> QED
    BY <1>3, <1>4, <1>5
    DEF Next, Reset, Expire, Restart, Start, SaveRun, Generate, Truncate, Write, Stop, Unlink,
        ReadNext, FailLoad, BeginLoad, vars

\* A fund's row never goes back to an older run while the run it showed stays
\* as it is: for any number of sessions that share the cache, failed loads and
\* restarts between (load_all_runs under st.cache_data).
THEOREM RowsAlwaysAdvance == Spec => RowsAdvance
PROOF
  <1> DEFINE Onward == \A s \in Sessions, f \in Funds :
                Refreshes(s) /\ Table(s)[f].run_id \in Undisturbed(s)
                  => Table(s)'[f].started >= Table(s)[f].started
  <1>1. RowsInv /\ RowsInv' /\ [Next]_vars => [Onward]_vars
    <2> SUFFICES ASSUME RowsInv, RowsInv', [Next]_vars, NEW s \in Sessions, NEW f \in Funds,
                        NEW n \in Undisturbed(s), n = Table(s)[f].run_id
                 PROVE  Table(s)'[f].started >= Table(s)[f].started
      OBVIOUS
    <2>1. PICK old, new : old = view[s].runs /\ new = view'[s].runs
      OBVIOUS
    <2>2. PICK row, next : row = Table(s)[f] /\ next = Table(s)'[f]
      OBVIOUS
    <2>3. /\ old \in Seq(Entry) /\ new \in Seq(Entry)
          /\ row = runs_to_dashboard_table(old, Funds)[f]
          /\ next = runs_to_dashboard_table(new, Funds)[f]
      BY <2>1, <2>2 DEF RowsInv, IInv, TypeOK, List, Table
    <2>4. IsRowOf(row, f, old) /\ next.started \in Nat \cup {-1}
      BY <2>3, RowOf, RowStarts
    <2>5. CASE row = Row(NoRun)
      <3>1. row.started = -1
        BY <2>5 DEF Row
      <3> QED BY <2>2, <2>4, <3>1
    <2>6. CASE row # Row(NoRun)
      <3>1. PICK r \in ToSet(old) : row = Row(r) /\ r.fund = f
        BY <2>4, <2>6 DEF IsRowOf
      <3>2. r \in Entry
        BY <2>3, <3>1, LenProperties DEF ToSet
      <3>3. r.name = n /\ row.started = r.started
        BY <2>2, <3>1, <3>2, RowShows DEF RowFields
      <3>4. n \in Names /\ report[n] \in ToSet(old) /\ report[n].name = n
        BY <2>1 DEF RowsInv, IInv, StoreInv, ListInv, Pays, Undisturbed, Named
      <3>5. r = report[n]
        BY <2>1, <3>1, <3>3, <3>4 DEF RowsInv, OnceInv, Distinct
      <3>6. r \in ToSet(new)
        BY <2>1, <3>5, ViewsKeepUp
      <3>7. next.started >= r.started
        BY <2>3, <3>1, <3>6, RowNoOlder
      <3> QED BY <2>2, <3>3, <3>7
    <2> QED BY <2>5, <2>6
  <1> QED BY <1>1, RowsInvariant, PTL DEF Spec, RowsAdvance
=============================================================================
