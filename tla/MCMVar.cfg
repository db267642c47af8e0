\* Idle, the shell, the command, two writers and a reader.
CONSTANTS
  MAX_PROCESSES = 6
  MIN_PRIORITY = 1
  MAX_PRIORITY = 1
  KillTargets <- NotShell
  BlockTargets = {}
  BlocksZombies = FALSE
  Sems <- MVarSemIds
  InitialValues = {0, 1}
  MAX_BLOCKED_PIDS = 6
  MAX_STATUS = 2
  UnblocksSleepers = FALSE
  WaitsOnClosed = TRUE
  Writers = 2
  Readers = 1
  ConcurrentLaunches = FALSE
SPECIFICATION FairMVarSpec
INVARIANTS OneToken FreshStart
PROPERTIES LostOnlyByKill ImplementsCell WaitersGetIn
