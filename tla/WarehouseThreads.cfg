\* Two threads on one handle.
SPECIFICATION Spec
CONSTANTS
  t1 = t1
  t2 = t2
  q1 = q1
  q2 = q2
  None = None
  Threads <- MCThreads
  Queries <- MCQueries
  Phases <- MCPhases
  Draws = {1}
  MaxBuilds = 1
  MaxCalls = 2
INVARIANT
  RowsAreTheAsked
CHECK_DEADLOCK FALSE
