\* Two turns, a budget that one expensive response passes, two attempts per
\* call; responses come as plain dicts or as SDK objects.
SPECIFICATION FairSpec
CONSTANTS
  Defects = {"missed_corp_action"}
  Missing = Missing
  Funds = {"HELIO", "ATLAS"}
  Fund = "HELIO"
  Overrides <- MCOverrides
  Defaults <- MCDefaults
  RuleIds <- MCRuleIds
  ToolNames <- MCToolNames
  Registry <- MCRegistry
  Replies <- MCReplies
  Forms = {"dict", "sdk"}
  Costs = {1, 3}
  MaxIterations = 2
  MaxTokensPerRun = 2
  MaxCallTokens = 3
  MaxRetries = 2
INVARIANTS
  TypeOK
  HistoryWellFormed
  LogMatchesHistory
  SpendingBounded
  HaltedReasonMeaning
  UnconvergedIsRaised
  VerdictsAreTheLastAnswers
PROPERTY
  Terminates
  KeepsPromise
CHECK_DEADLOCK FALSE
