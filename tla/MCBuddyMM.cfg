\* Two blocks of the largest order, which must not merge, and a single page.
SPECIFICATION Spec
CONSTANTS
  PAGE_SIZE = 4
  HEADER = 2
  WORD = 32
  MAX_ORDER = 2
  PAGES = 9
  Sizes <- FittingSizes
INVARIANTS Partition FailsOnlyIfNoFit BlockHoldsRequest
PROPERTY ImplementsAllocator
