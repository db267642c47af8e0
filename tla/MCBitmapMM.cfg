\* Four managed pages, runs of up to five.
SPECIFICATION ScanSpec
CONSTANTS
  PAGE_SIZE = 4
  HEADER = 2
  WORD = 32
  total_pages = 7
  MANAGED_START = 2
  Sizes <- FittingSizes
  MaxPages = 5
INVARIANTS Accounting BlockHoldsRequest FindsFirstFit
PROPERTY ImplementsAllocator
