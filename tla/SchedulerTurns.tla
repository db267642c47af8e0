--------------------------- MODULE SchedulerTurns ---------------------------
(***************************************************************************)
(* Scheduler with history variables that measure what the scheduler        *)
(* promises: how long a READY process waits and how long a turn lasts.     *)
(* They observe the system and restrict none of its steps.                 *)
(***************************************************************************)
EXTENDS Scheduler

VARIABLES
  waited,    \* schedule_tick calls each process has been READY through
  granted,   \* the priority the current process had when its turn started
  used       \* ticks of the current turn that are over

turnVars == <<vars, waited, granted, used>>

\* Handlers that call schedule_tick.
Schedules ==
  \/ TimerTick
  \/ SysYield
  \/ SysExit
  \/ current_process \in KillTargets /\ SysKill(current_process)
  \/ current_process \in BlockTargets /\ SysBlock(current_process)
  \/ \E p \in Pids : SysWaitpid(p)

\* Handlers that return to their caller.
Returns ==
  \/ SysCreate
  \/ \E p \in KillTargets \ {current_process} : SysKill(p)
  \/ \E p \in BlockTargets \ {current_process} : SysBlock(p)
  \/ \E p \in BlockTargets : SysUnblock(p)
  \/ \E p \in Pids, new_priority \in Priorities : SysNice(p, new_priority)

\* A process other than idle that is READY before and after the step.
StaysReady(p) == state[p] = "READY" /\ state'[p] = "READY" /\ p # idle_pcb

\* The turn of the current process goes on: nobody took the CPU from it.
TurnGoesOn ==
  /\ current_process' = current_process
  /\ last_run_index' = last_run_index
  /\ ticks_remaining'[current_process] < ticks_remaining[current_process]

CountTick ==
  /\ waited' = [p \in Pids |-> IF StaysReady(p) THEN waited[p] + 1 ELSE 0]
  /\ \/ TurnGoesOn /\ used' = used + 1 /\ UNCHANGED granted
     \/ /\ ~TurnGoesOn
        /\ used' = 0
        /\ granted' = IF current_process' \in {0, idle_pcb'}
                        THEN 1 ELSE priority[current_process']

CountNothing ==
  /\ waited' = [p \in Pids |-> IF StaysReady(p) THEN waited[p] ELSE 0]
  /\ UNCHANGED <<used, granted>>

TurnInit ==
  /\ Init
  /\ waited = [p \in Pids |-> 0]
  /\ granted = MIN_PRIORITY
  /\ used = 0

TurnNext ==
  \/ Schedules /\ CountTick
  \/ Returns /\ CountNothing

TurnSpec == TurnInit /\ [][TurnNext]_turnVars

-----------------------------------------------------------------------------
(* Properties *)

\* Idle is on the CPU only when no other process is READY.
IdleOnlyWhenNoneReady ==
  current_process # 0 /\ current_process = idle_pcb =>
    \A p \in Pids : p # idle_pcb => state[p] # "READY"

\* Response time: a READY process is dispatched before every other slot has
\* had a full turn of the highest priority, whatever the others do (yield,
\* block, die, be created in reused slots, change priorities).
BoundedWait ==
  \A p \in Pids : waited[p] < (MAX_PROCESSES - 1) * MAX_PRIORITY

\* The ticks of a turn are those of the priority the process had when it was
\* dispatched; nice takes effect on the next turn (set_priority's comment).
TurnMatchesPriority ==
  current_process # 0 => used + ticks_remaining[current_process] = granted

=============================================================================
