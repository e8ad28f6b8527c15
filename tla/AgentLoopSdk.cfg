\* The responses of the real client, whose blocks are objects, end with a
\* well-formed verdicts block.
SPECIFICATION Spec
CONSTANTS
  Defects = {"missed_corp_action"}
  Missing = Missing
  Funds = {"HELIO", "ATLAS"}
  Fund = "HELIO"
  Overrides <- MCOverrides
  Defaults <- MCDefaults
  RuleIds <- MCRuleIds
  ToolNames <- MCToolNames
  Registry <- MCRegistry
  Replies <- MCGoodReplies
  Forms = {"sdk"}
  Costs = {1}
  MaxIterations = 2
  MaxTokensPerRun = 2
  MaxCallTokens = 3
  MaxRetries = 2
INVARIANT
  ConvergedRunsProduceVerdicts
CHECK_DEADLOCK FALSE
