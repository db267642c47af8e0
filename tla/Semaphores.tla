----------------------------- MODULE Semaphores -----------------------------
(***************************************************************************)
(* The semaphores of the kernel (Kernel/sem.c) on top of its scheduler.    *)
(*                                                                         *)
(* sem_wait_on runs with interrupts disabled up to the force_schedule()    *)
(* that ends it, and when its caller is scheduled again it just returns:   *)
(* a call is one action.  The field lock is 0 outside these actions, so it *)
(* is not a variable.                                                      *)
(***************************************************************************)
EXTENDS Scheduler, Sequences, SequencesExt

CONSTANTS
  Sems,              \* the semaphore ids in use, of 1..MAX_SEM
  InitialValues,     \* the values programs pass to create_sem
  MAX_BLOCKED_PIDS,  \* capacity of blocked_pids (16 in the code)
  MAX_STATUS,        \* bound of the model: no post beyond this status
  UnblocksSleepers,  \* may unblock hit a process asleep in sem_wait/waitpid?
  WaitsOnClosed      \* may sem_wait be given an id that is not created?

ASSUME SemAssumption ==
  /\ InitialValues \subseteq Int
  /\ MAX_BLOCKED_PIDS \in Nat /\ MAX_BLOCKED_PIDS >= MAX_PROCESSES
  /\ MAX_STATUS \in Nat
  /\ UnblocksSleepers \in BOOLEAN /\ WaitsOnClosed \in BOOLEAN

VARIABLES
  created,       \* sem_arr[s-1].id # 0
  status,        \* sem_arr[s-1].status
  blocked_pids   \* the first blocked_pids_counter entries of blocked_pids

semVars == <<created, status, blocked_pids>>
allVars == <<vars, semVars>>

Queued(p) == \E s \in Sems : Contains(blocked_pids[s], p)

\* Asleep in the kernel, as opposed to put to sleep by the block system call.
SleepsInCall(p) == state[p] = "BLOCKED" /\ (Queued(p) \/ waiting_for_pid[p] # 0)

-----------------------------------------------------------------------------
SemInit ==
  /\ Init
  /\ created = [s \in Sems |-> FALSE]
  /\ status = [s \in Sems |-> 0]
  /\ blocked_pids = [s \in Sems |-> <<>>]

MayWait(s) == ProgramRuns /\ (created[s] \/ WaitsOnClosed)

\* sem_wait with a token left.
SemWaitTakes(s) ==
  /\ MayWait(s)
  /\ status[s] > 0
  /\ status' = [status EXCEPT ![s] = @ - 1]
  /\ ReturnToCaller(state, waiting_for_pid)
  /\ UNCHANGED <<created, blocked_pids>>

\* sem_wait without tokens: the caller joins the queue and sleeps.  With a full
\* queue the code returns at once and changes nothing; WaitHasRoom says that
\* this never happens.
SemWaitBlocks(s) ==
  /\ MayWait(s)
  /\ status[s] <= 0
  /\ Len(blocked_pids[s]) < MAX_BLOCKED_PIDS
  /\ status' = [status EXCEPT ![s] = @ - 1]
  /\ blocked_pids' = [blocked_pids EXCEPT ![s] = Append(@, current_process)]
  /\ schedule_tick(block_process(state, current_process), waiting_for_pid)
  /\ UNCHANGED created

\* sem_post when nobody sleeps.
SemPostAdds(s) ==
  /\ ProgramRuns
  /\ 0 <= status[s] /\ status[s] < MAX_STATUS
  /\ status' = [status EXCEPT ![s] = @ + 1]
  /\ ReturnToCaller(state, waiting_for_pid)
  /\ UNCHANGED <<created, blocked_pids>>

\* Mutant: the last one to arrive is woken first.
SemPostWakesLast(s) ==
  /\ ProgramRuns
  /\ status[s] < 0 /\ blocked_pids[s] # <<>>
  /\ status' = [status EXCEPT ![s] = @ + 1]
  /\ blocked_pids' = [blocked_pids EXCEPT ![s] = Front(@)]
  /\ ReturnToCaller(unblock_process(state, {Last(blocked_pids[s])}),
                    waiting_for_pid)
  /\ UNCHANGED created

\* sem_post when the status says that somebody sleeps: wake the head.  Where
\* nobody does (QueueMatchesStatus broken) the code writes before blocked_pids,
\* and the model goes no further.
SemPostWakes(s) ==
  /\ ProgramRuns
  /\ status[s] < 0 /\ blocked_pids[s] # <<>>
  /\ status' = [status EXCEPT ![s] = @ + 1]
  /\ blocked_pids' = [blocked_pids EXCEPT ![s] = Tail(@)]
  /\ ReturnToCaller(unblock_process(state, {Head(blocked_pids[s])}),
                    waiting_for_pid)
  /\ UNCHANGED created

\* create_sem on a free id.  It overwrites the whole sem_t, its queue included.
CreateSem(s, v) ==
  /\ ProgramRuns
  /\ ~created[s]
  /\ created' = [created EXCEPT ![s] = TRUE]
  /\ status' = [status EXCEPT ![s] = v]
  /\ blocked_pids' = [blocked_pids EXCEPT ![s] = <<>>]
  /\ ReturnToCaller(state, waiting_for_pid)

\* delete_sem does not ask whether the id is in use.
DeleteSem(s) ==
  /\ ProgramRuns
  /\ created' = [created EXCEPT ![s] = FALSE]
  /\ status' = [status EXCEPT ![s] = 0]
  /\ blocked_pids' = [blocked_pids EXCEPT ![s] = <<>>]
  /\ ReturnToCaller(unblock_process(state, ToSet(blocked_pids[s])),
                    waiting_for_pid)

\* Mutant: the decrement of the dead process is not given back.
RemoveWithoutStatus(p) ==
  /\ blocked_pids' = [s \in Sems |-> RemoveFirst(blocked_pids[s], p)]
  /\ UNCHANGED <<created, status>>

\* Mutant: the dead process stays in the queues.
RemoveNothing(p) == UNCHANGED semVars

\* What exit_process does here: in each queue, drop the first entry of p and
\* give back the decrement p made when it went to sleep.
sem_remove_pid(p) ==
  /\ blocked_pids' = [s \in Sems |-> RemoveFirst(blocked_pids[s], p)]
  /\ status' = [s \in Sems |-> IF Contains(blocked_pids[s], p)
                                THEN status[s] + 1 ELSE status[s]]
  /\ UNCHANGED created

SemExit == SysExit /\ sem_remove_pid(current_process)

SemKill(p) == SysKill(p) /\ sem_remove_pid(p)

SemUnblock(p) ==
  /\ SysUnblock(p)
  /\ SleepsInCall(p) => UnblocksSleepers
  /\ UNCHANGED semVars

OtherHandler ==
  /\ \/ TimerTick
     \/ SysYield
     \/ SysCreate
     \/ \E p \in BlockTargets : SysBlock(p)
     \/ \E p \in Pids : SysWaitpid(p)
     \/ \E p \in Pids, new_priority \in Priorities : SysNice(p, new_priority)
  /\ UNCHANGED semVars

SemNext ==
  \/ \E s \in Sems : SemWaitTakes(s) \/ SemWaitBlocks(s)
  \/ \E s \in Sems : SemPostAdds(s) \/ SemPostWakes(s)
  \/ \E s \in Sems, v \in InitialValues : CreateSem(s, v)
  \/ \E s \in Sems : DeleteSem(s)
  \/ SemExit
  \/ \E p \in KillTargets : SemKill(p)
  \/ \E p \in BlockTargets : SemUnblock(p)
  \/ OtherHandler

SemSpec == SemInit /\ [][SemNext]_allVars

-----------------------------------------------------------------------------
(* Properties *)

SemTypeOK ==
  /\ created \in [Sems -> BOOLEAN]
  /\ status \in [Sems -> Int]
  /\ blocked_pids \in [Sems -> Seq(Pids)]

\* The counter agrees with the queue through every wait, post, kill and
\* deletion: a post that finds status < 0 has a process to wake and never
\* reads an empty blocked_pids.  It needs create_sem to be given values >= 0: one
\* that starts at -1 owes a process that is not in the queue.
QueueMatchesStatus ==
  \A s \in Sems :
    Len(blocked_pids[s]) = IF status[s] < 0 THEN 0 - status[s] ELSE 0

\* Every pid in a queue is a process that is asleep: no phantom of a dead or
\* awake process (or of the next owner of its pid) can swallow a post.
NoPhantoms ==
  \A p \in Pids : Queued(p) => state[p] = "BLOCKED"

\* Of the dead alone (the comments on sem_remove_pid): killing a process takes
\* it out of all the queues.
NoDeadInQueues ==
  \A p \in Pids : Queued(p) => state[p] \notin {"KILLED", "NONE"}

\* A process is in one queue at most, and once (comment in sem_remove_pid).
InOneQueue ==
  \A s, t \in Sems :
    \A i \in 1..Len(blocked_pids[s]), j \in 1..Len(blocked_pids[t]) :
      blocked_pids[s][i] = blocked_pids[t][j] => s = t /\ i = j

\* A sem_wait that must sleep finds room in the queue, so none returns to its
\* caller without a token.
WaitHasRoom ==
  ProgramRuns => \A s \in Sems : Len(blocked_pids[s]) < MAX_BLOCKED_PIDS

\* Nobody is forgotten: the step that takes a process out of a queue wakes it
\* or kills it.
LeavesQueueAwake ==
  [][\A s \in Sems, p \in Pids :
       Contains(blocked_pids[s], p) /\ ~Contains(blocked_pids'[s], p)
         => state'[p] # "BLOCKED"]_allVars

\* The tokens a semaphore holds, and the processes that are not dead.
Tokens == [s \in Sems |-> IF status[s] > 0 THEN status[s] ELSE 0]
Alive(st) == {p \in Pids : st[p] \notin {"NONE", "KILLED"}}

\* The kernel's semaphores are counting semaphores with a FIFO queue.
Abstract == INSTANCE AbstractSemaphores WITH
  Procs <- Pids,
  FirstProcs <- {1, 2},
  exists <- created,
  value <- Tokens,
  waiters <- blocked_pids,
  alive <- Alive(state)

\* Every execution, seen through those, is one of theirs: tokens are neither
\* lost nor made up, sleepers are served in order, and a process that waits
\* does not wait again.
ImplementsSemaphores == Abstract!Spec

=============================================================================
