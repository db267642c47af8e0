\* block may be aimed at a process that was killed and is not reaped yet.
CONSTANTS
  MAX_PROCESSES = 4
  MIN_PRIORITY = 1
  MAX_PRIORITY = 2
  KillTargets <- NotIdle
  BlockTargets <- AllPids
  BlocksZombies = TRUE
SPECIFICATION Spec
PROPERTY KilledIsFinal
