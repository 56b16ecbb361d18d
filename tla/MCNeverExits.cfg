SPECIFICATION FairSpec
CONSTANTS
  a_h = 4
  max_v = 2
  w_fold = 2
  CACHE_LINE_COUNT = 2
  MAX_QUEUE_SIZE = 100
  MaxDegree = 1
  XRepeatGarbage = {0}
  StaleCounts = {0}
  unified_queue = FALSE
  Graphs <- WellFormedGraphs
PROPERTY Termination
