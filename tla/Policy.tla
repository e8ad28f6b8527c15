------------------------------- MODULE Policy -------------------------------
(***************************************************************************)
(* The verdicts the agent emits (agent/schemas.py, the parser at the end   *)
(* of agent/core.py) and the policy layer that turns a verdict into a      *)
(* downstream action (agent/policies.py).                                  *)
(*                                                                         *)
(* Everything here is a pure operator: the modules that own state apply    *)
(* them to the rule lists they hold.  Confidences are in percent.  The     *)
(* escalation target and the notification channel of a rule travel with    *)
(* its rule_id and are not represented apart from it.                      *)
(***************************************************************************)
EXTENDS Integers, Sequences, SequencesExt

CONSTANT
  Defects,        \* the categories of DEFECT_TYPES that name a real defect
  Missing         \* an absent fund_id or defect_type (None in Python)

ASSUME PolicyAssumption ==
  /\ {"no_defect", "agent_did_not_converge", Missing} \cap Defects = {}
  /\ Missing \notin {"no_defect", "agent_did_not_converge"}

Severities  == {"LOW", "MEDIUM", "HIGH", "CRITICAL", "NONE"}
Actions     == {"AUTO_SIGN_OFF", "LOG_ONLY", "REVIEW_QUEUE", "URGENT_REVIEW",
                "BLOCK_NAV"}
DefectTypes == Defects \cup {"no_defect", "agent_did_not_converge"}
Confidences == 0 .. 100

Verdict == [defect_type : DefectTypes, severity : Severities,
            confidence : Confidences, recommended_action : Actions]

-----------------------------------------------------------------------------
(***************************************************************************)
(* Rules and their resolution.                                             *)
(***************************************************************************)

Rule(Ids, Funds, Thresholds) ==
  [rule_id : Ids, fund_id : Funds \cup {Missing}, defect_type : DefectTypes \cup {Missing},
   severity_in : SUBSET Severities, min_confidence : Thresholds, action : Actions]

PolicyAction(Ids) ==
  [defect_type : DefectTypes, severity : Severities, confidence : Confidences,
   action : Actions, rule_matched : Ids \cup {"no_rule_matched_fallback"}]

Matches(rule, v, fund) ==
  /\ rule.fund_id \in {Missing, fund}
  /\ rule.defect_type \in {Missing, v.defect_type}
  /\ rule.severity_in = {} \/ v.severity \in rule.severity_in
  /\ v.confidence >= rule.min_confidence

(* The three override buckets.  A rule with neither a fund nor a defect    *)
(* type is in none of them, although Matches would accept it.  (A          *)
(* definition whose name ends in _Dev deviates from the code: it is the    *)
(* fault that the definition after it is checked not to have.)             *)
IsFundDefect_Dev(rule, v, fund) == rule.fund_id = fund
IsFundDefect(rule, v, fund) == rule.fund_id = fund /\ rule.defect_type # Missing
IsFundOnly(rule, v, fund)   == rule.fund_id = fund /\ rule.defect_type = Missing
IsDefectOnly(rule, v, fund) == rule.fund_id = Missing  /\ rule.defect_type = v.defect_type

(* The position of the first rule of the bucket InBucket that matches, or  *)
(* 0.                                                                      *)
FirstHit(rules, InBucket(_, _, _), v, fund) ==
  SelectInSeq(rules, LAMBDA r : InBucket(r, v, fund) /\ Matches(r, v, fund))

IsDefault(rule, v, fund) == TRUE

Resolve(action, rule_id, v) ==
  [defect_type |-> v.defect_type, severity |-> v.severity,
   confidence |-> v.confidence, action |-> action, rule_matched |-> rule_id]

Fallback(v) == Resolve("LOG_ONLY", "no_rule_matched_fallback", v)

(* apply_policy looks the override list up once for each bucket and the    *)
(* default list last: fd, fo, do and df are what those four reads return.  *)
ApplyPolicyTo(fd, fo, do, df, v, fund) ==
  LET hits == << FirstHit(fd, IsFundDefect, v, fund),
                 FirstHit(fo, IsFundOnly, v, fund),
                 FirstHit(do, IsDefectOnly, v, fund),
                 FirstHit(df, IsDefault, v, fund) >>
      tier == SelectInSeq(hits, LAMBDA h : h # 0)
      rule == << fd, fo, do, df >>[tier][hits[tier]]
  IN  IF tier = 0 THEN Fallback(v) ELSE Resolve(rule.action, rule.rule_id, v)

ApplyPolicy(overrides, defaults, v, fund) ==
  ApplyPolicyTo(overrides, overrides, overrides, defaults, v, fund)

-----------------------------------------------------------------------------
(***************************************************************************)
(* What the resolution promises, written without the buckets: the most     *)
(* specific matching override, the earliest of those, decides; a default   *)
(* decides only when no override does.                                     *)
(***************************************************************************)

Specificity(rule) ==
  (IF rule.fund_id # Missing THEN 2 ELSE 0) + (IF rule.defect_type # Missing THEN 1 ELSE 0)

(* The positions of the overrides that have a say on v.                    *)
Contenders(overrides, v, fund) ==
  {i \in DOMAIN overrides : Specificity(overrides[i]) > 0 /\ Matches(overrides[i], v, fund)}

Prevails(overrides, i, v, fund) ==
  \A j \in Contenders(overrides, v, fund) :
    \/ Specificity(overrides[i]) > Specificity(overrides[j])
    \/ Specificity(overrides[i]) = Specificity(overrides[j]) /\ i <= j

FirstMatch(rules, v, fund) == SelectInSeq(rules, LAMBDA r : Matches(r, v, fund))

FollowsPrecedence(overrides, defaults, v, fund, a) ==
  \/ \E i \in Contenders(overrides, v, fund) :
        /\ Prevails(overrides, i, v, fund)
        /\ a = Resolve(overrides[i].action, overrides[i].rule_id, v)
  \/ /\ Contenders(overrides, v, fund) = {}
     /\ LET d == FirstMatch(defaults, v, fund)
        IN  a = IF d = 0 THEN Fallback(v)
                         ELSE Resolve(defaults[d].action, defaults[d].rule_id, v)

-----------------------------------------------------------------------------
(***************************************************************************)
(* The verdicts block of a final answer.                                   *)
(*                                                                         *)
(* A text is what _parse_verdicts finds in it: no complete                 *)
(* <verdicts>[...]</verdicts> block ("absent"), one whose content is not   *)
(* JSON ("malformed"), or a list of items.  An item is a raw JSON value:   *)
(*   kind    - "object", or "other" for a value that is not a JSON object; *)
(*   fault   - what converting its fields does: "none"; "skip" for a       *)
(*             ValueError, TypeError or KeyError (a confidence or evidence *)
(*             that cannot be converted); "overflow" for the OverflowError *)
(*             of an integer confidence too large for a float, which the   *)
(*             parser does not catch;                                      *)
(*   the other fields - the values the model wrote, Missing standing for a *)
(*             missing or unknown one.  Letter case of severity and action *)
(*             does not matter to the parser and is not represented; a NaN *)
(*             confidence, which min and max turn into 1.0, is one above   *)
(*             100.                                                        *)
(***************************************************************************)

RawItem ==
  [kind : {"object", "other"}, fault : {"none", "skip", "overflow"},
   defect_type : DefectTypes \cup {Missing}, severity : Severities \cup {Missing},
   confidence : Int, recommended_action : Actions \cup {Missing}]

Text == [block : {"absent", "malformed", "list"}, items : Seq(RawItem)]

NoText == [block |-> "absent", items |-> << >>]

KnownOr(x, known, default) == IF x \in known THEN x ELSE default

CoerceVerdict_Dev(d) ==
  [defect_type        |-> KnownOr(d.defect_type, DefectTypes, "no_defect"),
   severity           |-> KnownOr(d.severity, Severities, "NONE"),
   confidence         |-> d.confidence,
   recommended_action |-> KnownOr(d.recommended_action, Actions, "LOG_ONLY")]

CoerceVerdict(d) ==
  [defect_type        |-> KnownOr(d.defect_type, DefectTypes, "no_defect"),
   severity           |-> KnownOr(d.severity, Severities, "NONE"),
   confidence         |-> KnownOr(d.confidence, Confidences,
                                  IF d.confidence > 100 THEN 100 ELSE 0),
   recommended_action |-> KnownOr(d.recommended_action, Actions, "LOG_ONLY")]

(* The items _parse_verdicts looks at.                                     *)
Objects(text) ==
  IF text.block = "list"
  THEN {i \in DOMAIN text.items : text.items[i].kind = "object"} ELSE {}

ParseRaises(text) == \E i \in Objects(text) : text.items[i].fault = "overflow"

(* The parsed verdicts, each at the position of its item in the block:     *)
(* Python keeps the same verdicts, in the same order, in a list.           *)
ParseVerdicts(text) ==
  [i \in {j \in Objects(text) : text.items[j].fault = "none"} |->
     CoerceVerdict(text.items[i])]

(* The verdict run_agent puts in place of the missing ones.                *)
DidNotConverge ==
  [defect_type |-> "agent_did_not_converge", severity |-> "MEDIUM",
   confidence |-> 0, recommended_action |-> "URGENT_REVIEW"]
=============================================================================
