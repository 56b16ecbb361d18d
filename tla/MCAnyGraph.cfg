SPECIFICATION Spec
CONSTANTS
  a_h = 4
  max_v = 2
  w_fold = 2
  CACHE_LINE_COUNT = 2
  MAX_QUEUE_SIZE = 4
  MaxDegree = 2
  XRepeatGarbage <- NotAbove
  StaleCounts = {0, 3}
  unified_queue = TRUE
  Graphs <- AllGraphs
INVARIANT TypeOK
INVARIANT FeatureHandshake
INVARIANT RowLinesAccounted
INVARIANT NoUnderflow
INVARIANT VertexCacheInBounds
