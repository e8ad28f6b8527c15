\* Any call of any tool, twice, over two warehouses.
SPECIFICATION Spec
CONSTANTS
  Null = Null
  Bad = Bad
  Warehouses <- MCWarehouses
  Calls <- MCCalls
  MaxRows = 2
  MaxCalls = 2
  MaxDifferent = 1
INVARIANTS
  AnswersAreTheAsked
  SchemaIsHonoured
  Reproducible
  GroundTruthHidden
  RecordsAgree
  FlatRunsAreMaximal
  FeeStopsAtTheHurdle
CHECK_DEADLOCK FALSE
