------------------------------- MODULE Replay -------------------------------
(***************************************************************************)
(* agent/replay.py: a persisted run is read, the investigation is made     *)
(* once more, and the two are compared.  A run is what the comparison      *)
(* reads of it: its verdicts, the names of the tools it called, and        *)
(* whether it converged, which the comparison does not read.               *)
(*                                                                         *)
(* A confidence is the float nearest to a percentage, and the percentage   *)
(* names it.  What one minus another is, as floats are subtracted, is      *)
(* given by Minus: the floats between 0 and 1, the tolerance among them,   *)
(* are numbered in their order, from 0 for 0.0 to One for 1.0.  The        *)
(* quotient of two small numbers is compared with the threshold as the     *)
(* fractions compare.                                                      *)
(***************************************************************************)
EXTENDS Policy, FiniteSets

CONSTANTS
  Ids,         \* the run ids
  ToolNames,   \* the names of the tools
  Results,     \* what run_agent may return
  Torn,        \* what a file holds that was not written whole
  One,         \* the number of 1.0
  Minus,       \* abs(x - y) of two confidences, numbered among the floats
  Tolerance,   \* confidence_tolerance, numbered likewise
  Overlap      \* tool_jaccard_threshold, in percent

Run == [verdicts : Seq(Verdict), tools : SUBSET ToolNames, converged : BOOLEAN]

ASSUME ReplayAssumption ==
  /\ \A r \in Results : r \in Run
  /\ Torn \notin Results
  /\ One \in Nat /\ Minus \in [Confidences \X Confidences -> 0 .. One]
  /\ Tolerance \in 0 .. One /\ Overlap \in 0 .. 100

VARIABLES
  pc,         \* "load", "run", "compare", "done"; "raised"
  archive,    \* audit/agent_runs: the files, by run id
  run_id,     \* the run to be repeated
  original, replay,
  diff        \* the ReplayDiff

vars == << pc, archive, run_id, original, replay, diff >>

None == << >>
-----------------------------------------------------------------------------
(***************************************************************************)
(* compare_runs.                                                           *)
(***************************************************************************)

TypesOf_Dev(run) ==   \* no_defect among them
  {run.verdicts[i].defect_type : i \in DOMAIN run.verdicts}
TypesOf(run) == {run.verdicts[i].defect_type : i \in DOMAIN run.verdicts} \ {"no_defect"}

\* {v.defect_type: v for v in verdicts}: of two verdicts of a type, the later.
ByType(run, t) ==
  run.verdicts[SelectLastInSeq(run.verdicts, LAMBDA v : v.defect_type = t)]

SameSeverities(a, b) ==
  \A t \in TypesOf(a) \cap TypesOf(b) : ByType(a, t).severity = ByType(b, t).severity

ConfidenceMaxDelta(a, b) ==
  Max({0} \cup {Minus[<< ByType(a, t).confidence, ByType(b, t).confidence >>] :
                  t \in TypesOf(a) \cap TypesOf(b)})

\* tool_jaccard >= threshold, where two runs without a call are alike.
ToolsOverlap(a, b) ==
  100 * Cardinality(a.tools \cap b.tools) >= Overlap * Cardinality(a.tools \cup b.tools)

compare_runs(a, b) ==
  LET types == TypesOf(a) = TypesOf(b)
      same == SameSeverities(a, b)
      delta == ConfidenceMaxDelta(a, b)
  IN  [same_defect_types |-> types, same_severities |-> same, confidence_max_delta |-> delta,
       matches_original |-> types /\ same /\ delta <= Tolerance /\ ToolsOverlap(a, b)]
-----------------------------------------------------------------------------
(***************************************************************************)
(* replay_agent.                                                           *)
(***************************************************************************)

Init ==
  /\ pc = "load"
  /\ run_id \in Ids
  /\ archive \in UNION {[ids -> Results \cup {Torn}] : ids \in SUBSET {run_id}}
  /\ original = None /\ replay = None /\ diff = None

\* _load_run_dict: FileNotFoundError, or JSONDecodeError.
Load ==
  /\ pc = "load"
  /\ IF run_id \in DOMAIN archive /\ archive[run_id] # Torn
     THEN pc' = "run" /\ original' = archive[run_id]
     ELSE pc' = "raised" /\ UNCHANGED original
  /\ UNCHANGED << archive, run_id, replay, diff >>

\* run_agent under a fresh id, and its own save.
RunAgent ==
  /\ pc = "run"
  /\ \E r \in Results, id \in Ids \ DOMAIN archive :
       /\ archive' = [i \in DOMAIN archive \cup {id} |-> IF i = id THEN r ELSE archive[i]]
       /\ replay' = r
  /\ pc' = "compare"
  /\ UNCHANGED << run_id, original, diff >>

\* run_agent raises, the file torn if it is the save that fails.
RunFails ==
  /\ pc = "run"
  /\ \/ UNCHANGED archive
     \/ \E id \in Ids \ DOMAIN archive :
          archive' = [i \in DOMAIN archive \cup {id} |-> IF i = id THEN Torn ELSE archive[i]]
  /\ pc' = "raised"
  /\ UNCHANGED << run_id, original, replay, diff >>

Compare ==
  /\ pc = "compare"
  /\ diff' = compare_runs(original, replay)
  /\ pc' = "done"
  /\ UNCHANGED << archive, run_id, original, replay >>

\* The new run may be replayed in its turn.
ReplayAgain ==
  /\ pc = "done"
  /\ run_id' \in DOMAIN archive \ {run_id}
  /\ pc' = "load" /\ original' = None /\ replay' = None /\ diff' = None
  /\ UNCHANGED archive

Next == Load \/ RunAgent \/ RunFails \/ Compare \/ ReplayAgain
Spec == Init /\ [][Next]_vars
-----------------------------------------------------------------------------
(***************************************************************************)
(* Properties.                                                             *)
(***************************************************************************)

\* The shape of the state.
TypeOK ==
  /\ pc \in {"load", "run", "compare", "done", "raised"}
  /\ DOMAIN archive \subseteq Ids /\ run_id \in Ids
  /\ \A i \in DOMAIN archive : archive[i] \in Results \cup {Torn}
  /\ pc \in {"run", "compare", "done"} => original \in Results
  /\ pc \in {"compare", "done"} => replay \in Results
  /\ pc = "done" => diff = compare_runs(original, replay)

\* A replay adds to the record and rewrites none of it, however it ends: the
\* run that was repeated can be repeated again (replay.py:71, run_id=None).
RecordOnlyGrows ==
  [][\A i \in DOMAIN archive : i \in DOMAIN archive' /\ archive'[i] = archive[i]]_vars

\* Two runs match only if they name the same defects, overlap in their tools, and
\* of each defect hold a pair of reports, one of each run, that agree in severity
\* and within the tolerance; and they do match if all such pairs agree.  Of runs
\* that report no type twice this is all that replay.py:8-11 asks for, and no more:
\* the two sides are then one.  Of a type that a run reports twice compare_runs
\* reads only the last report (replay.py:110-113), and the others may disagree.
Reports(run) == {v \in ToSet(run.verdicts) : v.defect_type # "no_defect"}
Pairs(a, b) == {p \in Reports(a) \X Reports(b) : p[1].defect_type = p[2].defect_type}
Agree(p) ==
  p[1].severity = p[2].severity /\ Minus[<< p[1].confidence, p[2].confidence >>] <= Tolerance
Alike(a, b) ==
  /\ {v.defect_type : v \in Reports(a)} = {v.defect_type : v \in Reports(b)}
  /\ ToolsOverlap(a, b)
MatchIsWarranted ==
  pc = "done" =>
    /\ diff.matches_original =>
         /\ Alike(original, replay)
         /\ \A v \in Reports(original) :
              \E p \in Pairs(original, replay) : p[1].defect_type = v.defect_type /\ Agree(p)
    /\ Alike(original, replay) /\ (\A p \in Pairs(original, replay) : Agree(p)) =>
         diff.matches_original
=============================================================================
