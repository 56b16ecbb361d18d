SPECIFICATION InputSpec
CONSTANTS
  a_h = 5
  max_v = 2
  w_fold = 1
  CACHE_LINE_COUNT = 1
  MaxDegree = 2
  MaxUnits = 3
  Graphs <- AllGraphs
INVARIANTS QueuesAsStated Divided
CHECK_DEADLOCK FALSE
