\* Idle and three programs, turns of one or two ticks; one program and idle are
\* blocked, two programs are killed.
CONSTANTS
  MAX_PROCESSES = 4
  MIN_PRIORITY = 1
  MAX_PRIORITY = 2
  KillTargets = {3, 4}
  BlockTargets = {1, 4}
  BlocksZombies = FALSE
SPECIFICATION TurnSpec
INVARIANTS TypeOK OnlyCurrentRuns WaitTargetAlive NeverNoProcess IdleOnlyWhenNoneReady BoundedWait TurnMatchesPriority
PROPERTY ReleasedWaitersRun
