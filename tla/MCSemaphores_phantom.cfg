\* unblock may be aimed at a process that sleeps in sem_wait.
CONSTANTS
  MAX_PROCESSES = 4
  MIN_PRIORITY = 1
  MAX_PRIORITY = 1
  KillTargets <- NotIdle
  BlockTargets <- NotIdle
  BlocksZombies = TRUE
  Sems = {1, 2}
  InitialValues = {0, 1}
  MAX_BLOCKED_PIDS = 4
  MAX_STATUS = 2
  UnblocksSleepers = TRUE
  WaitsOnClosed = FALSE
SPECIFICATION SemSpec
INVARIANT NoDeadInQueues
