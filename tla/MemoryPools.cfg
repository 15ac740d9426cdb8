CONSTANTS
  HEAP_BASE = 1
  HEAP_SIZE = 42
  HDR = 1
  MIN_SPLIT = 1
  WORDS = 1000
  POOL_T = 1
  SMALL = 1
  MEDIUM = 2
  LARGE = 3
  PoolCounts <- MCPoolCounts
  Shapes <- MCShapes
  Sizes = {0, 1, 2, 3, 4}
  MaxPools = 2
SPECIFICATION Spec
INVARIANTS PoolConserved LoansApart NoHeapLeak LoansFit
