---------------------------- MODULE PolicyStore -----------------------------
(***************************************************************************)
(* The life of the policy rules: config/policies.yaml, the two lists that  *)
(* agent/policies.py holds in memory, the sessions of the Configuration    *)
(* page (ui/pages/4_Configuration.py) that rewrite the file, and the       *)
(* threads of the same Streamlit process that resolve verdicts meanwhile   *)
(* (run_agent on the Run Live page).                                       *)
(*                                                                         *)
(* A step is what no other thread can come between: a read of the file, a  *)
(* truncation, a write, the assignment of one global, one look at a global.*)
(***************************************************************************)
EXTENDS Policy

CONSTANTS
  Sessions,       \* browser sessions on the Configuration page
  Runners,        \* threads that call apply_policy
  Funds,
  Blank,          \* the empty string of a text field
  RuleIds,
  PageDefects,    \* DEFECT_TYPES of the page: the real defects
  ShippedOverrides, ShippedDefaults,
  Cases,          \* the verdicts and funds put to apply_policy
  EditedActions, EditedDefects, EditedIds,   \* what a user may choose
  MaxEdits,       \* bound: edits in a behaviour
  MaxFailures     \* bound: restarts and failed writes in a behaviour

StoredRule == Rule(RuleIds \cup {Blank}, Funds \cup {Blank}, Int)
Content    == [overrides : Seq(StoredRule), defaults : Seq(StoredRule)]

ASSUME StoreAssumption ==
  /\ [overrides |-> ShippedOverrides, defaults |-> ShippedDefaults] \in Content
  /\ Missing \notin Funds /\ Blank \notin Funds \cup RuleIds \cup {Missing}
  /\ Cases # {}
  /\ PageDefects \subseteq Defects
  /\ Cases \subseteq [verdict : Verdict, fund : Funds]
  /\ EditedActions \subseteq Actions /\ EditedIds \subseteq RuleIds \cup {Blank}
  /\ EditedDefects \subseteq PageDefects \cup {Missing}
  /\ MaxEdits \in Nat /\ MaxFailures \in Nat

VARIABLES
  file,          \* the content of policies.yaml
  loaded,        \* << >> before the import of agent.policies, else the
                 \* globals _OVERRIDES and _DEFAULTS
  page,          \* where each session is
  form,          \* what its widgets show
  edited,        \* history: the rules its user changed since the last save
  before,        \* history: the file its save replaces
  parsed,        \* what its reload_policies has read
  versions,      \* history: the contents ever written whole
  runner,        \* the bucket each runner looks up next, "idle" or "done"
  question,      \* its verdict and fund
  reads,         \* the lists its look-ups returned
  held,          \* history: the globals there were during its apply_policy
  edits, failures

fileVars   == << file, versions >>
pageVars   == << page, form, edited, before, parsed >>
runnerVars == << runner, question, reads, held >>
boundVars  == << edits, failures >>
vars == << fileVars, loaded, pageVars, runnerVars, boundVars >>

(* An emptied file: opened for writing, and not written yet or not at all. *)
Empty == << >>

Nothing == [overrides |-> << >>, defaults |-> << >>]
Shipped == [overrides |-> ShippedOverrides, defaults |-> ShippedDefaults]

NotLoaded == << >>

-----------------------------------------------------------------------------
(***************************************************************************)
(* Reading the file.                                                       *)
(***************************************************************************)

(* _load_rules on a file that is not empty: an override keeps its fund_id  *)
(* and defect_type, whatever they are; a default has neither.  (On an      *)
(* empty file it raises: None has no get.)                                 *)
WithoutFund(rule) == [rule EXCEPT !.fund_id = Missing, !.defect_type = Missing]

LoadRules(content) ==
  [overrides |-> content.overrides,
   defaults  |-> [i \in DOMAIN content.defaults |-> WithoutFund(content.defaults[i])]]

(* What the page makes of a stored override: an absent fund_id becomes the *)
(* empty text, a defect_type that is not in its list becomes "(any)", and  *)
(* "(any)" is left out of the new rule.  (A definition whose name ends in  *)
(* _Dev deviates from the code: it is the fault that the definition after  *)
(* it is checked not to have.)                                             *)
FormOverride_Dev(rule) ==
  [rule EXCEPT !.fund_id = IF @ = Missing THEN Blank ELSE @,
               !.defect_type = IF @ \in PageDefects THEN @ ELSE "(any)"]

FormOverride(rule) ==
  [rule EXCEPT !.fund_id = IF @ = Missing THEN Blank ELSE @,
               !.defect_type = IF @ \in PageDefects THEN @ ELSE Missing]

FormDefault_Dev(rule) == [WithoutFund(rule) EXCEPT !.min_confidence = 0]
FormDefault(rule) == WithoutFund(rule)

(* _load of the page, which takes an empty file for one without rules.     *)
PageLoad(content) == IF content = Empty THEN Nothing ELSE content

(* The rows of the two tabs after a run of the page script.  There is one  *)
(* row for each stored rule.  The widgets of a row have keys: a row that   *)
(* was there before keeps its values (keeps) or takes the stored ones.     *)
Rows(shown, stored, keeps) ==
  [i \in DOMAIN stored |-> IF keeps /\ i \in DOMAIN shown THEN shown[i] ELSE stored[i]]

FormOverrides(content) ==
  [i \in DOMAIN content.overrides |-> FormOverride(content.overrides[i])]

FormDefaults(content) ==
  [i \in DOMAIN content.defaults |-> FormDefault(content.defaults[i])]

Rendered(shown, content, keeps) ==
  [overrides |-> Rows(shown.overrides, FormOverrides(PageLoad(content)), keeps),
   defaults  |-> Rows(shown.defaults, FormDefaults(PageLoad(content)), keeps)]

(* No validation error: every rule has a rule_id.  The widgets offer no    *)
(* other invalid value.                                                    *)
Valid(content) ==
  \A list \in {"overrides", "defaults"} : \A i \in DOMAIN content[list] :
    content[list][i].rule_id # Blank

-----------------------------------------------------------------------------
Init ==
  /\ file = Shipped /\ versions = {Shipped}
  /\ loaded = NotLoaded
  /\ page = [s \in Sessions |-> "closed"]
  /\ form = [s \in Sessions |-> Nothing]
  /\ edited = [s \in Sessions |-> {}]
  /\ before = [s \in Sessions |-> Shipped]
  /\ parsed = [s \in Sessions |-> Nothing]
  /\ runner = [r \in Runners |-> "idle"]
  /\ question = [r \in Runners |-> CHOOSE c \in Cases : TRUE]
  /\ reads = [r \in Runners |-> << >>]
  /\ held = [r \in Runners |-> {}]
  /\ edits = 0 /\ failures = 0

(* The page is opened: a run of its script with fresh widgets.             *)
OpenPage(s) ==
  /\ page[s] = "closed"
  /\ page' = [page EXCEPT ![s] = "open"]
  /\ form' = [form EXCEPT ![s] = Rendered(Nothing, file, FALSE)]
  /\ edited' = [edited EXCEPT ![s] = {}]
  /\ UNCHANGED << fileVars, loaded, before, parsed, runnerVars, boundVars >>

(* The rules that differ from rule in the one field the user changes.      *)
Retouched(rule, list) ==
  {[rule EXCEPT !.action = a] : a \in EditedActions}
  \cup {[rule EXCEPT !.rule_id = id] : id \in EditedIds}
  \cup IF list = "overrides"
       THEN {[rule EXCEPT !.defect_type = d] : d \in EditedDefects} ELSE {}

(* The user changes one field of row i, and the script runs again.         *)
Edit(s, list, i, keeps) ==
  LET shown == Rendered(form[s], file, keeps)
  IN  /\ page[s] = "open" /\ edits < MaxEdits
      /\ i \in DOMAIN form[s][list] /\ i \in DOMAIN shown[list]
      /\ \E rule \in Retouched(form[s][list][i], list) \ {form[s][list][i]} :
           /\ form' = [form EXCEPT ![s] = [shown EXCEPT ![list][i] = rule]]
           /\ edited' = [edited EXCEPT ![s] = @ \cup {form[s][list][i].rule_id, rule.rule_id}]
      /\ edits' = edits + 1
      /\ UNCHANGED << fileVars, loaded, page, before, parsed, runnerVars, failures >>

(* Any other interaction, "Reload from disk" among them: the script runs   *)
(* again.                                                                  *)
Rerun(s, keeps) ==
  /\ page[s] = "open"
  /\ form' = [form EXCEPT ![s] = Rendered(@, file, keeps)]
  /\ UNCHANGED << fileVars, loaded, page, edited, before, parsed, runnerVars, boundVars >>

(* "Save changes": the script runs again down to the button.               *)
ClickSave(s, keeps) ==
  LET shown == Rendered(form[s], file, keeps)
  IN  /\ page[s] = "open" /\ Valid(form[s]) /\ Valid(shown)
      /\ form' = [form EXCEPT ![s] = shown]
      /\ before' = [before EXCEPT ![s] = PageLoad(file)]
      /\ page' = [page EXCEPT ![s] = "saving"]
      /\ UNCHANGED << fileVars, loaded, edited, parsed, runnerVars, boundVars >>

(* write_text, first half: open the file for writing.                      *)
Truncate(s) ==
  /\ page[s] = "saving"
  /\ page' = [page EXCEPT ![s] = "writing"]
  /\ file' = Empty
  /\ UNCHANGED << versions, loaded, form, edited, before, parsed, runnerVars, boundVars >>

(* write_text, second half.  (Where two sessions have the file open at     *)
(* once, the last write replaces the other: the tail that a longer first   *)
(* text would leave behind a shorter second one is not represented.)       *)
Write(s) ==
  /\ page[s] = "writing"
  /\ page' = [page EXCEPT ![s] = "written"]
  /\ file' = form[s]
  /\ versions' = versions \cup {form[s]}
  /\ edited' = [edited EXCEPT ![s] = {}]
  /\ UNCHANGED << loaded, form, before, parsed, runnerVars, boundVars >>

(* The write fails: "Save failed", and the rules in memory stay.           *)
FailWrite(s) ==
  /\ page[s] = "writing" /\ failures < MaxFailures
  /\ page' = [page EXCEPT ![s] = "open"]
  /\ failures' = failures + 1
  /\ UNCHANGED << fileVars, loaded, form, edited, before, parsed, runnerVars, edits >>

(* reload_policies reads the file; when that raises, the page ignores it.  *)
ReadBack(s) ==
  /\ page[s] = "written"
  /\ \/ /\ file = Empty
        /\ page' = [page EXCEPT ![s] = "open"]
        /\ UNCHANGED parsed
     \/ /\ file # Empty /\ loaded # NotLoaded
        /\ page' = [page EXCEPT ![s] = "read"]
        /\ parsed' = [parsed EXCEPT ![s] = LoadRules(file)]
  /\ UNCHANGED << fileVars, loaded, form, edited, before, runnerVars, boundVars >>

(* What a runner in apply_policy is told of a change of the globals.       *)
Witnessed(globals) ==
  held' = [r \in Runners |-> IF runner[r] \in {"idle", "done"} THEN held[r]
                             ELSE held[r] \cup {globals}]

(* _OVERRIDES, _DEFAULTS = ...: two assignments, one after the other.      *)
Assign(s, list, from, to) ==
  /\ page[s] = from
  /\ page' = [page EXCEPT ![s] = to]
  /\ loaded' = [loaded EXCEPT ![list] = parsed[s][list]]
  /\ Witnessed(loaded')
  /\ UNCHANGED << fileVars, form, edited, before, parsed, runner, question, reads, boundVars >>

AssignOverrides(s) == Assign(s, "overrides", "read", "assigned")
AssignDefaults_Dev(s) == Assign(s, "overrides", "assigned", "open")
AssignDefaults(s) == Assign(s, "defaults", "assigned", "open")

Import_Dev ==
  /\ loaded = NotLoaded
  /\ loaded' = LoadRules(PageLoad(file))
  /\ UNCHANGED << fileVars, pageVars, runnerVars, boundVars >>

(* The first import of agent.policies, which fails on an empty file and is *)
(* then tried again by the next import.                                    *)
Import ==
  /\ loaded = NotLoaded /\ file # Empty
  /\ loaded' = LoadRules(file)
  /\ UNCHANGED << fileVars, pageVars, runnerVars, boundVars >>

(* The Streamlit process is stopped and started again.                     *)
Restart ==
  /\ failures < MaxFailures
  /\ failures' = failures + 1
  /\ loaded' = NotLoaded
  /\ page' = [s \in Sessions |-> "closed"]
  /\ runner' = [r \in Runners |-> "idle"]
  /\ UNCHANGED << fileVars, form, edited, before, parsed, question, reads, held, edits >>

-----------------------------------------------------------------------------
(***************************************************************************)
(* apply_policy, one look at a global after the other.                     *)
(***************************************************************************)

Ask(r) ==
  /\ runner[r] \in {"idle", "done"} /\ loaded # NotLoaded
  /\ \E c \in Cases : question' = [question EXCEPT ![r] = c]
  /\ runner' = [runner EXCEPT ![r] = "fund_defect"]
  /\ reads' = [reads EXCEPT ![r] = << >>]
  /\ held' = [held EXCEPT ![r] = {loaded}]
  /\ UNCHANGED << fileVars, loaded, pageVars, boundVars >>

LookUp(r, from, list, to) ==
  /\ runner[r] = from
  /\ runner' = [runner EXCEPT ![r] = to]
  /\ reads' = [reads EXCEPT ![r] = Append(@, loaded[list])]
  /\ UNCHANGED << fileVars, loaded, pageVars, question, held, boundVars >>

FundDefect(r) == LookUp(r, "fund_defect", "overrides", "fund_only")
FundOnly(r)   == LookUp(r, "fund_only", "overrides", "defect_only")
DefectOnly(r) == LookUp(r, "defect_only", "overrides", "defaults")
Default(r)    == LookUp(r, "defaults", "defaults", "done")

Next ==
  \/ \E s \in Sessions :
       \/ OpenPage(s)
       \/ \E keeps \in BOOLEAN :
            \/ \E list \in {"overrides", "defaults"} :
                 \E i \in 1 .. Len(form[s][list]) : Edit(s, list, i, keeps)
            \/ Rerun(s, keeps) \/ ClickSave(s, keeps)
       \/ Truncate(s) \/ Write(s) \/ FailWrite(s)
       \/ ReadBack(s) \/ AssignOverrides(s) \/ AssignDefaults(s)
  \/ Import \/ Restart
  \/ \E r \in Runners :
       Ask(r) \/ FundDefect(r) \/ FundOnly(r) \/ DefectOnly(r) \/ Default(r)

Spec == Init /\ [][Next]_vars

-----------------------------------------------------------------------------
(***************************************************************************)
(* Properties.                                                             *)
(***************************************************************************)

Decision(content, c) == ApplyPolicy(content.overrides, content.defaults, c.verdict, c.fund)

(* What apply_policy returns to runner r.                                  *)
Result(r) ==
  ApplyPolicyTo(reads[r][1], reads[r][2], reads[r][3], reads[r][4],
                question[r].verdict, question[r].fund)

TypeOK ==
  /\ file \in Content \cup {Empty} /\ versions \subseteq Content
  /\ loaded = NotLoaded \/ loaded \in Content
  /\ page \in [Sessions -> {"closed", "open", "saving", "writing", "written",
                            "read", "assigned"}]
  /\ form \in [Sessions -> Content] /\ parsed \in [Sessions -> Content]
  /\ before \in [Sessions -> Content]
  /\ edited \in [Sessions -> SUBSET (RuleIds \cup {Blank})]
  /\ runner \in [Runners -> {"idle", "fund_defect", "fund_only", "defect_only",
                             "defaults", "done"}]
  /\ question \in [Runners -> Cases]
  /\ reads \in [Runners -> Seq(Seq(StoredRule))] /\ held \in [Runners -> SUBSET Content]
  /\ edits \in 0 .. MaxEdits /\ failures \in 0 .. MaxFailures

(* The rules in memory are never those of a file that was being rewritten: *)
(* each list is one that was written whole.                                *)
LoadedWhole ==
  loaded # NotLoaded =>
    \E v, w \in versions : loaded = [overrides |-> LoadRules(v).overrides,
                                     defaults  |-> LoadRules(w).defaults]

(* "Reload in the policies module so the change takes effect": when no     *)
(* save is under way, the rules in memory are those of the file.           *)
ChangeTakesEffect ==
  /\ loaded # NotLoaded /\ file # Empty
  /\ \A s \in Sessions : page[s] \in {"closed", "open"}
  => loaded = LoadRules(file)

(* A verdict resolved while the rules did not change gets the action of    *)
(* the most specific rule that matches it.                                 *)
UndisturbedDecisions ==
  \A r \in Runners : \A h \in held[r] :
    runner[r] = "done" /\ held[r] = {h} =>
      FollowsPrecedence(h.overrides, h.defaults, question[r].verdict, question[r].fund, Result(r))

(* The rules of the form of s decide otherwise than those its save         *)
(* replaces only where a rule the user edited does or did.                 *)
OnlyEditedDecide(s) ==
  \A c \in Cases :
    LET old == Decision(LoadRules(before[s]), c)
        new == Decision(LoadRules(form[s]), c)
    IN  old # new => {old.rule_matched, new.rule_matched} \cap edited[s] # {}

(* Saving changes only the decisions that a rule the user edited made      *)
(* before or makes now.                                                    *)
EditsAreLocal == [][\A s \in Sessions : Write(s) => OnlyEditedDecide(s)]_vars

(* policies.py: overrides take precedence over defaults, whatever version  *)
(* of the rules a verdict is resolved against.                             *)
OverridesTakePrecedence ==
  \A r \in Runners : runner[r] = "done" =>
    \E h \in held[r] : Result(r) = Decision(h, question[r])
=============================================================================
