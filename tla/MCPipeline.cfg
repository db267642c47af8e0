\* Idle, the shell and two commands; a ring of two bytes.
CONSTANTS
  MAX_PROCESSES = 4
  MIN_PRIORITY = 1
  MAX_PRIORITY = 1
  KillTargets <- Commands
  BlockTargets = {4}
  BlocksZombies = FALSE
  MAX_PIPES = 2
  PIPE_BUFFER_SIZE = 2
  Pages = {1}
  Chars = {0, 1}
  WaitsIn = {3}
  Nices = {1}
  UnblocksSleepers = FALSE
  Modes = {"fg"}
  Counts = {1, 3}
  KillsIn <- Commands
  SharesIds = FALSE
SPECIFICATION FairLineSpec
INVARIANTS RingConserved QueuesAreSleepers NoDanglingPipe
PROPERTIES ClosedTransfersEnd ImplementsChannel
