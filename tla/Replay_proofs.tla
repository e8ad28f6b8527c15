---------------------------- MODULE Replay_proofs ---------------------------
(***************************************************************************)
(* For every set of runs, tolerance, threshold and subtraction of floats:  *)
(* the types of Replay, that a replay only adds to audit/agent_runs, and   *)
(* what its verdict on the two runs is worth.                              *)
(***************************************************************************)
EXTENDS Replay, Policy_proofs

LEMMA InitTypes == Init => TypeOK
  BY DEF Init, TypeOK

LEMMA NextTypes == TypeOK /\ [Next]_vars => TypeOK'
<1> SUFFICES ASSUME TypeOK, [Next]_vars PROVE TypeOK'
  OBVIOUS
<1>1. CASE Load
  BY <1>1 DEF Load, TypeOK
<1>2. CASE RunAgent
  BY <1>2 DEF RunAgent, TypeOK
<1>3. CASE RunFails
  BY <1>3 DEF RunFails, TypeOK
<1>4. CASE Compare
  BY <1>4 DEF Compare, TypeOK
<1>5. CASE ReplayAgain
  BY <1>5 DEF ReplayAgain, TypeOK
<1>6. CASE UNCHANGED vars
  BY <1>6 DEF vars, TypeOK
<1> QED
  BY <1>1, <1>2, <1>3, <1>4, <1>5, <1>6 DEF Next

\* A diff is that of two whole runs: nothing torn or missing is compared
\* (replay.py:38-44 and 103-140).
THEOREM TypeCorrect == Spec => []TypeOK
<1>1. Init => TypeOK
  BY InitTypes
<1>2. TypeOK /\ [Next]_vars => TypeOK'
  BY NextTypes
<1> QED
  BY <1>1, <1>2, PTL DEF Spec

\* No file of audit/agent_runs is changed or removed by a replay, however it
\* ends: the fresh id of replay.py:71 is all that it writes to.
THEOREM RecordKept == Spec => RecordOnlyGrows
<1> DEFINE Kept == \A i \in DOMAIN archive : i \in DOMAIN archive' /\ archive'[i] = archive[i]
<1>1. [Next]_vars => [Kept]_vars
  <2> SUFFICES ASSUME Next PROVE Kept
    OBVIOUS
  <2>1. CASE RunAgent
    BY <2>1 DEF RunAgent
  <2>2. CASE RunFails
    BY <2>2 DEF RunFails
  <2>3. CASE Load \/ Compare \/ ReplayAgain
    BY <2>3 DEF Load, Compare, ReplayAgain
  <2> QED
    BY <2>1, <2>2, <2>3 DEF Next
<1> QED
  BY <1>1, PTL DEF Spec, RecordOnlyGrows

(* Of each type that a run reports, ByType is a report.                    *)
LEMMA LastReport ==
  ASSUME NEW run \in Run, NEW t \in TypesOf(run)
  PROVE  /\ ByType(run, t) \in Reports(run)
         /\ ByType(run, t).defect_type = t
         /\ ByType(run, t) \in Verdict
<1> DEFINE n == Len(run.verdicts)
           I == {i \in 1 .. n : run.verdicts[i].defect_type = t}
<1>1. run.verdicts \in Seq(Verdict) /\ n \in Nat /\ DOMAIN run.verdicts = 1 .. n
  BY LenProperties DEF Run
<1>2. I # {} /\ t # "no_defect" /\ I \in SUBSET (0 .. n)
  BY <1>1 DEF TypesOf
<1>3. SelectLastInSeq(run.verdicts, LAMBDA v : v.defect_type = t) = Max(I)
  BY <1>2 DEF SelectLastInSeq
<1>4. Max(I) \in I
  BY <1>1, <1>2, MaxIsGreatest
<1>5. PICK m : m = Max(I)
  OBVIOUS
<1>6. ByType(run, t) = run.verdicts[m]
  BY <1>3, <1>5 DEF ByType
<1>7. m \in DOMAIN run.verdicts /\ run.verdicts[m].defect_type = t
  BY <1>1, <1>4, <1>5
<1>8. run.verdicts[m] \in Reports(run)
  BY <1>2, <1>7 DEF Reports, ToSet
<1>9. run.verdicts[m] \in Verdict
  BY <1>1, <1>7, ElementOfSeq
<1> QED
  BY <1>6, <1>7, <1>8, <1>9

(* The types of a run are those of its reports.                            *)
LEMMA TypesOfReports ==
  ASSUME NEW run
  PROVE  TypesOf(run) = {v.defect_type : v \in Reports(run)}
BY DEF TypesOf, Reports, ToSet

(* The largest difference is within the tolerance when all are.            *)
LEMMA DeltaWithin ==
  ASSUME NEW a \in Run, NEW b \in Run
  PROVE  ConfidenceMaxDelta(a, b) <= Tolerance
           <=> \A t \in TypesOf(a) \cap TypesOf(b) :
                 Minus[<< ByType(a, t).confidence, ByType(b, t).confidence >>] <= Tolerance
<1> DEFINE D == {Minus[<< ByType(a, t).confidence, ByType(b, t).confidence >>] :
                   t \in TypesOf(a) \cap TypesOf(b)}
           S == {0} \cup D
<1>1. Tolerance \in Nat /\ One \in Nat
  BY ReplayAssumption
<1>2. D \subseteq 0 .. One
  <2> SUFFICES ASSUME NEW t \in TypesOf(a) \cap TypesOf(b)
               PROVE  Minus[<< ByType(a, t).confidence, ByType(b, t).confidence >>] \in 0 .. One
    OBVIOUS
  <2>1. ByType(a, t).confidence \in Confidences /\ ByType(b, t).confidence \in Confidences
    BY LastReport DEF Verdict
  <2> QED
    BY <2>1, ReplayAssumption
<1>3. ConfidenceMaxDelta(a, b) = Max(S)
  BY DEF ConfidenceMaxDelta
<1>4. Max(S) \in S /\ \A j \in S : j <= Max(S)
  <2> HIDE DEF D
  <2>1. S \in SUBSET (0 .. One) /\ S # {}
    BY <1>1, <1>2
  <2> HIDE DEF S
  <2> QED
    BY <1>1, <2>1, MaxIsGreatest
<1>5. PICK m : m = Max(S)
  OBVIOUS
<1>6. m <= Tolerance <=> \A j \in D : j <= Tolerance
  <2> HIDE DEF D
  <2>1. (m = 0 \/ m \in D) /\ \A j \in D : j <= m
    BY <1>4, <1>5
  <2>2. m \in Nat /\ \A d \in D : d \in Nat
    <3>1. 0 \in Nat /\ 0 .. One \subseteq Nat
      BY <1>1
    <3> QED
      BY <1>2, <2>1, <3>1, Zenon
  <2>3. ASSUME m <= Tolerance, NEW j \in D PROVE j <= Tolerance
    <3>1. j <= m
      BY <2>1, <2>3
    <3> QED
      BY <1>1, <2>2, <2>3, <3>1
  <2>4. ASSUME \A j \in D : j <= Tolerance PROVE m <= Tolerance
    BY <1>1, <2>1, <2>2, <2>4
  <2> QED
    BY <2>3, <2>4
<1>7. (\A j \in D : j <= Tolerance)
        <=> \A t \in TypesOf(a) \cap TypesOf(b) :
              Minus[<< ByType(a, t).confidence, ByType(b, t).confidence >>] <= Tolerance
  OBVIOUS
<1> QED
  BY <1>3, <1>5, <1>6, <1>7

(* Of two runs with the same types, the last reports of each type decide.  *)
LEMMA MatchByType ==
  ASSUME NEW a \in Run, NEW b \in Run
  PROVE  compare_runs(a, b).matches_original
           <=> /\ Alike(a, b)
               /\ \A t \in TypesOf(a) : Agree(<< ByType(a, t), ByType(b, t) >>)
<1>1. compare_runs(a, b).matches_original
        <=> /\ TypesOf(a) = TypesOf(b) /\ SameSeverities(a, b)
            /\ ConfidenceMaxDelta(a, b) <= Tolerance /\ ToolsOverlap(a, b)
  BY DEF compare_runs
<1>2. Alike(a, b) <=> TypesOf(a) = TypesOf(b) /\ ToolsOverlap(a, b)
  BY TypesOfReports DEF Alike
<1>3. ConfidenceMaxDelta(a, b) <= Tolerance
        <=> \A t \in TypesOf(a) \cap TypesOf(b) :
              Minus[<< ByType(a, t).confidence, ByType(b, t).confidence >>] <= Tolerance
  BY DeltaWithin
<1> QED
  BY <1>1, <1>2, <1>3 DEF SameSeverities, Agree

(* The last reports of a type that both runs hold are one of the pairs.    *)
LEMMA LastPair ==
  ASSUME NEW a \in Run, NEW b \in Run, NEW t \in TypesOf(a) \cap TypesOf(b)
  PROVE  << ByType(a, t), ByType(b, t) >> \in Pairs(a, b)
<1>1. /\ ByType(a, t) \in Reports(a) /\ ByType(a, t).defect_type = t
      /\ ByType(b, t) \in Reports(b) /\ ByType(b, t).defect_type = t
  BY LastReport
<1> QED
  BY <1>1 DEF Pairs

\* A replay that matches names the defects of the original, overlaps in its tools
\* and has, of each defect, a report that agrees with one of the original; a
\* replay whose every report agrees matches.  For runs of any length, with any
\* number of reports of one type, for every tolerance and threshold, and however
\* floats are subtracted (replay.py:96-152).
THEOREM MatchAlwaysWarranted == Spec => []MatchIsWarranted
<1>1. TypeOK => MatchIsWarranted
  <2> SUFFICES ASSUME TypeOK, pc = "done" PROVE MatchIsWarranted
    BY DEF MatchIsWarranted
  <2>1. original \in Run /\ replay \in Run /\ diff = compare_runs(original, replay)
    BY ReplayAssumption DEF TypeOK
  <2>2. TypesOf(original) = {v.defect_type : v \in Reports(original)}
        /\ TypesOf(replay) = {v.defect_type : v \in Reports(replay)}
    BY TypesOfReports
  <2>3. diff.matches_original
          <=> /\ Alike(original, replay)
              /\ \A t \in TypesOf(original) :
                   Agree(<< ByType(original, t), ByType(replay, t) >>)
    BY <2>1, MatchByType
  <2>4. ASSUME diff.matches_original, NEW v \in Reports(original)
        PROVE  \E p \in Pairs(original, replay) :
                  p[1].defect_type = v.defect_type /\ Agree(p)
    <3>1. PICK t : t = v.defect_type
      OBVIOUS
    <3>2. t \in TypesOf(original) \cap TypesOf(replay)
      BY <2>2, <2>3, <2>4, <3>1 DEF Alike
    <3>3. PICK p : p = << ByType(original, t), ByType(replay, t) >>
      OBVIOUS
    <3>4. p \in Pairs(original, replay) /\ Agree(p)
      BY <2>1, <2>3, <2>4, <3>2, <3>3, LastPair
    <3>5. p[1].defect_type = t
      BY <2>1, <3>2, <3>3, LastReport
    <3> QED
      BY <3>1, <3>4, <3>5
  <2>5. ASSUME Alike(original, replay), \A p \in Pairs(original, replay) : Agree(p)
        PROVE  diff.matches_original
    <3>1. TypesOf(original) = TypesOf(replay)
      BY <2>2, <2>5 DEF Alike
    <3> QED
      BY <2>1, <2>3, <2>5, <3>1, LastPair
  <2> QED
    BY <2>3, <2>4, <2>5 DEF MatchIsWarranted
<1> QED
  BY <1>1, TypeCorrect, PTL
=============================================================================
