\* Two builds, whose processes may draw differently.
SPECIFICATION Spec
CONSTANTS
  t1 = t1
  t2 = t2
  q1 = q1
  q2 = q2
  None = None
  Threads <- MCThreads
  Queries <- MCOneQuery
  Phases <- MCPhases
  Draws = {1, 2}
  MaxBuilds = 2
  MaxCalls = 2
INVARIANT
  RebuildIsDeterministic
CHECK_DEADLOCK FALSE
