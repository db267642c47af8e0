------------------------------ MODULE Scheduler ------------------------------
(***************************************************************************)
(* The process table and the round-robin scheduler of the kernel           *)
(* (Kernel/process.c), with the system calls that act on processes         *)
(* (Kernel/syscalls.c) and the boot sequence (Kernel/kernel.c).            *)
(*                                                                         *)
(* System calls and IRQs enter through interrupt gates, so a handler runs  *)
(* with interrupts disabled: one call is one action, up to and including   *)
(* the force_schedule() (int 20h) that ends it.                            *)
(*                                                                         *)
(* A pid is the slot of process_table plus one.  A slot that holds no PCB  *)
(* is in state "NONE" and its fields have fixed values, since the code     *)
(* cannot read them.                                                       *)
(***************************************************************************)
EXTENDS Integers

CONSTANTS
  MAX_PROCESSES,   \* slots of process_table (16 in the code)
  MIN_PRIORITY,    \* 1 in the code
  MAX_PRIORITY,    \* 5 in the code
  KillTargets,     \* the pids programs pass to kill
  BlockTargets,    \* the pids programs pass to block and unblock
  BlocksZombies    \* may block(p) hit a p that is KILLED and not yet reaped?

Pids == 1..MAX_PROCESSES

ASSUME TableAssumption == MAX_PROCESSES \in Nat /\ MAX_PROCESSES >= 2
ASSUME PriorityAssumption ==
  /\ MIN_PRIORITY \in Nat /\ MAX_PRIORITY \in Nat
  /\ 1 <= MIN_PRIORITY /\ MIN_PRIORITY <= MAX_PRIORITY
ASSUME TargetsAssumption ==
  /\ KillTargets \subseteq Pids
  /\ BlockTargets \subseteq Pids
  /\ BlocksZombies \in BOOLEAN

Priorities == MIN_PRIORITY..MAX_PRIORITY

VARIABLES
  state,            \* process_table[p-1]->state, "NONE" for a NULL slot
  priority,         \* pcb->priority
  ticks_remaining,  \* pcb->ticks_remaining
  waiting_for_pid,  \* pcb->waiting_for_pid, 0 when it waits for nobody
  current_process,  \* pid of *current_process, 0 for NULL
  idle_pcb,         \* pid of *idle_pcb, 0 for NULL
  last_run_index    \* where the next round-robin scan starts

vars == <<state, priority, ticks_remaining, waiting_for_pid,
          current_process, idle_pcb, last_run_index>>

-----------------------------------------------------------------------------
(* Pure parts of the handlers.  They take the state function they work on, *)
(* because a handler chains several of them before it calls the scheduler. *)

block_process(st, p) ==
  IF st[p] = "NONE" THEN st ELSE [st EXCEPT ![p] = "BLOCKED"]

\* unblock_process on every pid of S: only a BLOCKED process changes.
unblock_process(st, S) ==
  [p \in Pids |-> IF p \in S /\ st[p] = "BLOCKED" THEN "READY" ELSE st[p]]

Waiters(p) == {q \in Pids : state[q] # "NONE" /\ waiting_for_pid[q] = p}

\* Mutant: stops at the first waiter.
ExitWakesOne(st, p) ==
  unblock_process([st EXCEPT ![p] = "KILLED"],
                  {q \in Waiters(p) : \A r \in Waiters(p) : q <= r})

\* exit_process on the table: mark p, then wake whoever waits for it.
exit_process(st, p) == unblock_process([st EXCEPT ![p] = "KILLED"], Waiters(p))

\* Mutant: forgets to clear the waits on p.
KeepWaiting(p) == waiting_for_pid

\* The other effect of exit_process: its waiters stop waiting.
StopWaiting(p) ==
  [q \in Pids |-> IF q \in Waiters(p) THEN 0 ELSE waiting_for_pid[q]]

\* Mutant: the loop stops one slot early.
ReapedButLast(st) ==
  [p \in Pids |-> IF st[p] = "KILLED" /\ p # MAX_PROCESSES THEN "NONE" ELSE st[p]]

\* The cleaning loop that opens scheduler() and create_process().
Reaped(st) == [p \in Pids |-> IF st[p] = "KILLED" THEN "NONE" ELSE st[p]]

ReapedField(f, st, default) ==
  [p \in Pids |-> IF st[p] \in {"NONE", "KILLED"} THEN default ELSE f[p]]

\* Mutant: idle is forgotten whenever it cannot run.
ReapedSleepingIdle(st) ==
  IF idle_pcb # 0 /\ st[idle_pcb] \notin {"READY", "RUNNING"} THEN 0 ELSE idle_pcb

ReapedIdle(st) ==
  IF idle_pcb # 0 /\ st[idle_pcb] = "KILLED" THEN 0 ELSE idle_pcb

\* Slots scanned before p's when the scan starts at last_run_index.
Distance(p) ==
  IF p - 1 >= last_run_index THEN p - 1 - last_run_index
                             ELSE p - 1 - last_run_index + MAX_PROCESSES

\* Mutant: the index does not wrap around.
IndexAfter(p) == p

NextIndex(p) == IF p = MAX_PROCESSES THEN 0 ELSE p

-----------------------------------------------------------------------------
\* Mutant: the preempted process is left RUNNING.
NotPreempted(st) == st

Preempted(st) ==
  IF current_process # 0 /\ st[current_process] = "RUNNING"
    THEN [st EXCEPT ![current_process] = "READY"] ELSE st

\* Mutant: idle takes part in the round robin.
AllReady(st) == {p \in Pids : st[p] = "READY"}

Candidates(st) == {p \in Pids : st[p] = "READY" /\ p # ReapedIdle(st)}

Dispatch(p, st, quantum) ==
  /\ current_process' = p
  /\ state' = [Reaped(Preempted(st)) EXCEPT ![p] = "RUNNING"]
  /\ ticks_remaining' =
       [ReapedField(ticks_remaining, st, MIN_PRIORITY) EXCEPT ![p] = quantum]

\* Mutant: the next scan starts at the process that just ran.
RunNextAgain(st) ==
  \E p \in Candidates(Preempted(st)) :
    /\ \A q \in Candidates(Preempted(st)) : Distance(p) <= Distance(q)
    /\ Dispatch(p, st, priority[p])
    /\ last_run_index' = p - 1

\* The loop finds the READY process other than idle that comes first.
RunNext(st) ==
  \E p \in Candidates(Preempted(st)) :
    /\ \A q \in Candidates(Preempted(st)) : Distance(p) <= Distance(q)
    /\ Dispatch(p, st, priority[p])
    /\ last_run_index' = NextIndex(p)

RunIdle(st) ==
  /\ Candidates(Preempted(st)) = {}
  /\ ReapedIdle(st) # 0
  /\ Dispatch(ReapedIdle(st), st, 1)
  /\ UNCHANGED last_run_index

\* Idle was killed: current_process stays NULL and schedule_tick then reads
\* through it.  The model stops there.
RunNobody(st) ==
  /\ Candidates(Preempted(st)) = {}
  /\ ReapedIdle(st) = 0
  /\ current_process' = 0
  /\ state' = Reaped(Preempted(st))
  /\ ticks_remaining' = ReapedField(ticks_remaining, st, MIN_PRIORITY)
  /\ UNCHANGED last_run_index

\* scheduler() after a handler left the table at st and the waits at wf.
scheduler(st, wf) ==
  /\ RunNext(st) \/ RunIdle(st) \/ RunNobody(st)
  /\ idle_pcb' = ReapedIdle(st)
  /\ priority' = ReapedField(priority, st, MIN_PRIORITY)
  /\ waiting_for_pid' = ReapedField(wf, st, 0)

QuantumLeft(st) ==
  /\ st[current_process] = "RUNNING"
  /\ current_process # idle_pcb
  /\ ticks_remaining[current_process] > 1

KeepRunning(st, wf) ==
  /\ QuantumLeft(st)
  /\ ticks_remaining' = [ticks_remaining EXCEPT ![current_process] = @ - 1]
  /\ state' = st
  /\ waiting_for_pid' = wf
  /\ UNCHANGED <<priority, current_process, idle_pcb, last_run_index>>

\* schedule_tick(), entered by IRQ0 and by every force_schedule().
schedule_tick(st, wf) ==
  \/ KeepRunning(st, wf)
  \/ ~QuantumLeft(st) /\ scheduler(st, wf)

\* A handler that returns to its caller without calling the scheduler.
ReturnToCaller(st, wf) ==
  /\ state' = st
  /\ waiting_for_pid' = wf
  /\ UNCHANGED <<priority, ticks_remaining, current_process, idle_pcb,
                 last_run_index>>

-----------------------------------------------------------------------------
\* main() up to start_first_process: idle is pid 1, init is pid 2.
Init ==
  /\ state = [p \in Pids |-> IF p = 1 THEN "READY"
                             ELSE IF p = 2 THEN "RUNNING" ELSE "NONE"]
  /\ priority = [p \in Pids |-> MIN_PRIORITY]
  /\ ticks_remaining = [p \in Pids |-> MIN_PRIORITY]
  /\ waiting_for_pid = [p \in Pids |-> 0]
  /\ current_process = 2
  /\ idle_pcb = 1
  /\ last_run_index = NextIndex(2)

\* A program makes system calls; idle only executes hlt.
ProgramRuns == current_process # 0 /\ current_process # idle_pcb

\* IRQ0.
TimerTick == current_process # 0 /\ schedule_tick(state, waiting_for_pid)

\* 0x24
SysYield == ProgramRuns /\ schedule_tick(state, waiting_for_pid)

\* 0x23, also reached when a program returns (process_start).
SysExit ==
  /\ ProgramRuns
  /\ schedule_tick(exit_process(state, current_process),
                   StopWaiting(current_process))

\* 0x25
SysKill(p) ==
  /\ ProgramRuns
  /\ state[p] # "NONE"
  /\ \/ /\ p = current_process
        /\ schedule_tick(exit_process(state, p), StopWaiting(p))
     \/ /\ p # current_process
        /\ ReturnToCaller(exit_process(state, p), StopWaiting(p))

\* 0x26
SysBlock(p) ==
  /\ ProgramRuns
  /\ state[p] # "NONE"
  /\ state[p] = "KILLED" => BlocksZombies
  /\ \/ /\ p = current_process
        /\ schedule_tick(block_process(state, p), waiting_for_pid)
     \/ /\ p # current_process
        /\ ReturnToCaller(block_process(state, p), waiting_for_pid)

\* 0x27
SysUnblock(p) ==
  /\ ProgramRuns
  /\ state[p] # "NONE"
  /\ ReturnToCaller(unblock_process(state, {p}), waiting_for_pid)

\* Mutant: the new priority also resets the turn that is under way.
NiceNow(p, new_priority) ==
  /\ ProgramRuns
  /\ state[p] # "NONE"
  /\ priority' = [priority EXCEPT ![p] = new_priority]
  /\ ticks_remaining' = [ticks_remaining EXCEPT ![p] = new_priority]
  /\ UNCHANGED <<state, waiting_for_pid, current_process, idle_pcb, last_run_index>>

\* 0x30
SysNice(p, new_priority) ==
  /\ ProgramRuns
  /\ state[p] # "NONE"
  /\ priority' = [priority EXCEPT ![p] = new_priority]
  /\ UNCHANGED <<state, ticks_remaining, waiting_for_pid, current_process,
                 idle_pcb, last_run_index>>

\* 0x43: the two early returns are guards; self-waiting is allowed by the code.
SysWaitpid(p) ==
  /\ ProgramRuns
  /\ state[p] \notin {"NONE", "KILLED"}
  /\ schedule_tick(block_process(state, current_process),
                   [waiting_for_pid EXCEPT ![current_process] = p])

\* create_process() when it fails: no page or no slot.  It reaps all the same.
CreateFails ==
  /\ state' = Reaped(state)
  /\ priority' = ReapedField(priority, state, MIN_PRIORITY)
  /\ ticks_remaining' = ReapedField(ticks_remaining, state, MIN_PRIORITY)
  /\ waiting_for_pid' = ReapedField(waiting_for_pid, state, 0)

\* The new PCB takes the first free slot.
CreateIn(p) ==
  /\ Reaped(state)[p] = "NONE"
  /\ \A q \in Pids : Reaped(state)[q] = "NONE" => p <= q
  /\ state' = [Reaped(state) EXCEPT ![p] = "READY"]
  /\ priority' = ReapedField(priority, state, MIN_PRIORITY)
  /\ ticks_remaining' = ReapedField(ticks_remaining, state, MIN_PRIORITY)
  /\ waiting_for_pid' = ReapedField(waiting_for_pid, state, 0)

\* 0x31: whether allocate_page() finds a page is left open.
SysCreate ==
  /\ ProgramRuns
  /\ CreateFails \/ \E p \in Pids : CreateIn(p)
  /\ idle_pcb' = ReapedIdle(state)
  /\ UNCHANGED <<current_process, last_run_index>>

Next ==
  \/ TimerTick
  \/ SysYield
  \/ SysExit
  \/ SysCreate
  \/ \E p \in KillTargets : SysKill(p)
  \/ \E p \in BlockTargets : SysBlock(p)
  \/ \E p \in BlockTargets : SysUnblock(p)
  \/ \E p \in Pids : SysWaitpid(p)
  \/ \E p \in Pids, new_priority \in Priorities : SysNice(p, new_priority)

Spec == Init /\ [][Next]_vars

-----------------------------------------------------------------------------
(* Properties *)

States == {"NONE", "READY", "RUNNING", "BLOCKED", "KILLED"}

\* Every variable keeps its type; a turn has between 1 and MAX_PRIORITY ticks.
TypeOK ==
  /\ state \in [Pids -> States]
  /\ priority \in [Pids -> Priorities]
  /\ ticks_remaining \in [Pids -> 1..MAX_PRIORITY]
  /\ waiting_for_pid \in [Pids -> 0..MAX_PROCESSES]
  /\ current_process \in 0..MAX_PROCESSES
  /\ idle_pcb \in 0..MAX_PROCESSES
  /\ last_run_index \in 0..(MAX_PROCESSES - 1)

\* Whatever mix of kill, block and exit: the process on the CPU is marked
\* RUNNING and no other one is, so the scheduler can neither run a process
\* twice nor leave on the CPU one that was killed or blocked.
OnlyCurrentRuns ==
  \A p \in Pids : state[p] = "RUNNING" <=> p = current_process

\* A process never waits (waitpid) for a dead process or for a free slot:
\* its target can still exit and wake it.  exit_process clears every wait on
\* the victim, so a pid reused by create_process starts without waiters.
WaitTargetAlive ==
  \A p \in Pids : waiting_for_pid[p] # 0 =>
    /\ state[p] # "NONE"
    /\ state[waiting_for_pid[p]] \notin {"NONE", "KILLED"}

\* Nobody but a kill of idle can leave the kernel without a process to run
\* (the comment at the end of scheduler()): idle may be blocked, waited for or
\* have its priority changed and still is the fallback.
NeverNoProcess == current_process # 0

\* A process whose waitpid is over is not left asleep: the step that clears
\* waiting_for_pid leaves it READY, or it was not sleeping at all.
ReleasedWaitersRun ==
  [][\A p \in Pids :
       waiting_for_pid[p] # 0 /\ waiting_for_pid'[p] = 0
         => state'[p] # "BLOCKED"]_vars

\* Once KILLED, a process never comes back: its slot stays KILLED until it is
\* reaped (exit_process: "solo marco KILLED.  El scheduler la libera"), and only
\* create_process, which reaps first, puts another one in it at once.
KilledIsFinal ==
  [][\A p \in Pids : state[p] = "KILLED" =>
       state'[p] \in {"KILLED", "NONE"} \/ SysCreate]_vars

\* The slot of a dead process is recovered.
ZombiesReaped ==
  \A p \in Pids : state[p] = "KILLED" ~> state[p] # "KILLED"

=============================================================================
