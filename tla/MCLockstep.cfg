SPECIFICATION FairSpec
CONSTANTS
  a_h = 5
  max_v = 3
  w_fold = 3
  CACHE_LINE_COUNT = 3
  MAX_QUEUE_SIZE = 100
  MaxDegree = 2
  XRepeatGarbage = {0}
  StaleCounts = {0}
  unified_queue = TRUE
  Graphs <- LineGraphs
INVARIANT ColLinesAccounted
INVARIANT EdgeCacheInBounds
INVARIANT EdgeInRow
INVARIANT InStep
INVARIANT WriteBudget
INVARIANT DoneMeansAllBlocks
PROPERTY ImplementsSchedule
PROPERTY WritesAcknowledged
PROPERTY Termination
