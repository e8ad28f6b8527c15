--------------------------- MODULE MCPolicyStore ----------------------------
(***************************************************************************)
(* Small rule files for PolicyStore: one fund, two defects, an override or *)
(* two, and two defaults that cover the severities of the cases.           *)
(***************************************************************************)
EXTENDS PolicyStore

StoredOverride(id, fund, defect, action) ==
  [rule_id |-> id, fund_id |-> fund, defect_type |-> defect,
   severity_in |-> {"MEDIUM", "HIGH"}, min_confidence |-> 0, action |-> action]

StoredDefault(id, severities, threshold, action) ==
  [rule_id |-> id, fund_id |-> Missing, defect_type |-> Missing,
   severity_in |-> severities, min_confidence |-> threshold, action |-> action]

MCDefaults ==
  << StoredDefault("sure", {"MEDIUM", "HIGH"}, 85, "BLOCK_NAV"),
     StoredDefault("rest", {}, 0, "REVIEW_QUEUE") >>

\* A rule for a fund and, more specific though listed later, one for a defect
\* of it; a rule for a fund alone.
MCOverrides  == << StoredOverride("broad", "ATLAS", Missing, "REVIEW_QUEUE"),
                   StoredOverride("strict", "ATLAS", "wrong_wht", "URGENT_REVIEW") >>
MCFund       == << StoredOverride("broad", "ATLAS", Missing, "REVIEW_QUEUE") >>

MCRuleIds == {"broad", "strict", "sure", "rest"}

MCCase(defect, severity, confidence, fund) ==
  [verdict |-> [defect_type |-> defect, severity |-> severity, confidence |-> confidence,
                recommended_action |-> "LOG_ONLY"],
   fund    |-> fund]

MCCases ==
  {MCCase("wrong_wht", "HIGH", 95, "ATLAS"), MCCase("stale_price", "HIGH", 50, "HELIO")}
=============================================================================
