\* Three entries and names; files of one and two blocks.
CONSTANTS
  Names = {f, g, h}
  MAX_ENTRIES = 3
  Word = 256
  KILO = 2
  CreatesWhenFull = FALSE
  SizeArguments <- SomeSizes
  MaxSizes = {2, 3}
  Lengths = {16}
  MAX_IMAGE = 40
  LAST_BLOCK = 5
SPECIFICATION BMFSSpec
INVARIANT RoomIsFound
PROPERTIES CreatePlacesWell ImplementsFiles
SYMMETRY Renamings
