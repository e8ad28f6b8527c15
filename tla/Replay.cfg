\* A run replayed, and the replay replayed.
SPECIFICATION Spec
CONSTANTS
  Defects <- MCDefects
  Missing = Missing
  Ids = {r1, r2, r3}
  ToolNames = {1, 2, 3}
  Results <- MCResults
  Torn = Torn
  One <- MCOne
  Minus <- MCMinus
  Tolerance <- MCTolerance
  Overlap = 50
INVARIANT
  MatchIsWarranted
CHECK_DEADLOCK FALSE
