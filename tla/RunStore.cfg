\* A live run, recorded for the demo, and an older fixture of the same fund;
\* two browser sessions, which are interchangeable.
SPECIFICATION Spec
CONSTANTS
  Defects = {"wrong_wht", "stale_price"}
  Missing = Missing
  Live = {"live1"}
  Demo = {"live1"}
  Fixtures = {"fixture"}
  Manifests = {}
  Rank <- MCRank
  Funds = {"ATLAS", "HELIO"}
  FundOf <- MCFundOf
  OutcomeOf <- MCOutcomeOf
  FixtureTimes = {0, 2}
  Sessions = {s1, s2}
INVARIANTS
  TypeOK
  ViewsShowPersisted
  ViewsAreComplete
  RowsAreCurrent
PROPERTY
  RowsAdvance
SYMMETRY MCSymmetry
CHECK_DEADLOCK FALSE
