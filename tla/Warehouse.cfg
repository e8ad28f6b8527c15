\* Two threads of a reading process, two builds, kills and restarts anywhere.
SPECIFICATION Spec
CONSTANTS
  t1 = t1
  t2 = t2
  q1 = q1
  q2 = q2
  None = None
  Threads <- MCThreads
  Queries <- MCOneQuery
  Phases <- MCPhases
  Draws = {1}
  MaxBuilds = 2
  MaxCalls = 2
INVARIANTS
  OneHandle
  OneBuildPerProcess
  WalIsOfTheFile
PROPERTIES
  HandlesAreSnapshots
  CallsReturn
CHECK_DEADLOCK FALSE
