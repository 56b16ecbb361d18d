SPECIFICATION Spec
CONSTANTS
  setN = 1
  wayN = 2
  a_h = 1
  BLOOM_FILTER_NUM = 1
  BF_OVERLAP = 0
  BF_LEN = 2
  MOV_MED_BLOCK_NUM = 1
  Signature <- HalfColumn
  Algos = {"LRU"}
  Cols = {0, 1, 2}
  Folds = {0}
  LIMIT_WQ_SIZE = 2
  a_col_size = 4
  w_fold = 1
  XWR_QUEUE_SIZE = 4
  accLimit = 1
PROPERTIES ReleasedLoaded
