\* One session edits the shipped kind of rules while one thread resolves
\* verdicts; the process may be restarted, or a write fail, once.
SPECIFICATION Spec
CONSTANTS
  Defects = {"wrong_wht", "stale_price"}
  Missing = Missing
  Blank = Blank
  Sessions = {s1}
  Runners = {r1}
  Funds = {"ATLAS", "HELIO"}
  RuleIds <- MCRuleIds
  PageDefects = {"wrong_wht", "stale_price"}
  ShippedOverrides <- MCOverrides
  ShippedDefaults <- MCDefaults
  Cases <- MCCases
  EditedActions = {"BLOCK_NAV"}
  EditedDefects = {"stale_price"}
  EditedIds = {Blank}
  MaxEdits = 2
  MaxFailures = 1
INVARIANTS
  TypeOK
  LoadedWhole
  ChangeTakesEffect
  UndisturbedDecisions
PROPERTY
  EditsAreLocal
CHECK_DEADLOCK FALSE
