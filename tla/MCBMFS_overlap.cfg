\* Files are deleted and created again.
CONSTANTS
  Names = {f, g, h}
  MAX_ENTRIES = 3
  Word = 256
  KILO = 2
  CreatesWhenFull = FALSE
  SizeArguments <- SomeSizes
  MaxSizes = {2, 3}
  Lengths = {16}
  MAX_IMAGE = 40
  LAST_BLOCK = 5
SPECIFICATION BMFSSpec
INVARIANT NoOverlap
SYMMETRY Renamings
