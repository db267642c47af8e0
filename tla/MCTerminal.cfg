\* Idle, the shell and two programs; a ring of two characters, lines of one.
CONSTANTS
  MAX_PROCESSES = 4
  MIN_PRIORITY = 1
  MAX_PRIORITY = 1
  KillTargets <- Commands
  BlockTargets = {}
  BlocksZombies = FALSE
  KEYBOARD_BUFFER_SIZE = 2
  BUFFER = 1
  Keys = {"ctrl", "caps", "c", "d", "enter", "backspace"}
  Letters = {"c", "d"}
  Victims <- Commands
  BgReads = FALSE
  BgCreates = FALSE
SPECIFICATION FairTermSpec
INVARIANT SleepingReaderIsHeard
PROPERTIES CtrlCKillsTheJob PromptReturns ZombiesReaped
