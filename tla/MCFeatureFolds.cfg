SPECIFICATION Spec
CONSTANTS
  setN = 2
  wayN = 2
  a_h = 2
  BLOOM_FILTER_NUM = 2
  BF_OVERLAP = 50
  BF_LEN = 2
  MOV_MED_BLOCK_NUM = 2
  Signature <- HalfColumn
  Algos = {"FIFO", "LRU", "BF", "RRIP", "SHiP", "MOVING_MED"}
  Cols = {0, 1, 2}
  Folds = {0, 1}
  LIMIT_WQ_SIZE = 2
  a_col_size = 4
  w_fold = 2
  XWR_QUEUE_SIZE = 6
  accLimit = 1
INVARIANTS LinesUnique ShctSound
