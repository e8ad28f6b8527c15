\* An override for a fund is narrowed to one of its defects while a thread
\* resolves a verdict on that defect.
SPECIFICATION Spec
CONSTANTS
  Defects = {"wrong_wht", "stale_price"}
  Missing = Missing
  Blank = Blank
  Sessions = {s1}
  Runners = {r1}
  Funds = {"ATLAS", "HELIO"}
  RuleIds <- MCRuleIds
  PageDefects = {"wrong_wht", "stale_price"}
  ShippedOverrides <- MCFund
  ShippedDefaults <- MCDefaults
  Cases <- MCCases
  EditedActions = {}
  EditedDefects = {"wrong_wht"}
  EditedIds = {}
  MaxEdits = 1
  MaxFailures = 0
INVARIANT
  OverridesTakePrecedence
CHECK_DEADLOCK FALSE
