\* Idle and three programs share two semaphores; unblock is only used on
\* processes that block put to sleep.
CONSTANTS
  MAX_PROCESSES = 4
  MIN_PRIORITY = 1
  MAX_PRIORITY = 1
  KillTargets <- NotIdle
  BlockTargets <- NotIdle
  BlocksZombies = TRUE
  Sems = {1, 2}
  InitialValues = {0, 1}
  MAX_BLOCKED_PIDS = 4
  MAX_STATUS = 2
  UnblocksSleepers = FALSE
  WaitsOnClosed = FALSE
SPECIFICATION SemSpec
INVARIANTS QueueMatchesStatus NoPhantoms WaitHasRoom
PROPERTY ImplementsSemaphores
