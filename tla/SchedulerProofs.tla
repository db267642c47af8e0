-------------------------- MODULE SchedulerProofs --------------------------
(***************************************************************************)
(* Safety of the scheduler for every size of the process table, every      *)
(* range of priorities and every choice of kill and block targets.         *)
(***************************************************************************)
EXTENDS SchedulerTurns, TLAPS

\* The inductive invariant of the process table.
TableInv == TypeOK /\ OnlyCurrentRuns /\ WaitTargetAlive

\* What a handler hands over to the scheduler: a typed table where at most the
\* current process is RUNNING and every wait has a live target.
HandlerTable(st, wf) ==
  /\ st \in [Pids -> States]
  /\ wf \in [Pids -> 0..MAX_PROCESSES]
  /\ \A p \in Pids : st[p] = "RUNNING" => p = current_process
  /\ \A p \in Pids : wf[p] # 0 =>
        st[p] # "NONE" /\ st[wf[p]] \notin {"NONE", "KILLED"}

-----------------------------------------------------------------------------
LEMMA InitTable == Init => TableInv
  BY TableAssumption, PriorityAssumption
     DEF Init, TableInv, TypeOK, OnlyCurrentRuns, WaitTargetAlive, Pids,
         States, Priorities, NextIndex

\* Reaping and preempting keep the handler's table well typed, leave nobody
\* RUNNING and keep the live targets alive.
LEMMA ReapedTable ==
  ASSUME TypeOK, NEW st, NEW wf, HandlerTable(st, wf)
  PROVE  /\ Reaped(Preempted(st)) \in [Pids -> States]
         /\ \A p \in Pids : Reaped(Preempted(st))[p] \notin {"RUNNING", "KILLED"}
         /\ \A p \in Pids : Reaped(Preempted(st))[p] = "NONE"
                              <=> st[p] \in {"NONE", "KILLED"}
         /\ ReapedField(wf, st, 0) \in [Pids -> 0..MAX_PROCESSES]
         /\ ReapedField(priority, st, MIN_PRIORITY) \in [Pids -> Priorities]
         /\ ReapedField(ticks_remaining, st, MIN_PRIORITY)
              \in [Pids -> 1..MAX_PRIORITY]
         /\ ReapedIdle(st) \in 0..MAX_PROCESSES
<1>1. /\ Preempted(st) \in [Pids -> States]
      /\ \A p \in Pids : Preempted(st)[p] # "RUNNING"
      /\ \A p \in Pids : Preempted(st)[p] \in {"NONE", "KILLED"}
                           <=> st[p] \in {"NONE", "KILLED"}
  <2>1. CASE current_process # 0 /\ st[current_process] = "RUNNING"
    BY <2>1 DEF HandlerTable, Preempted, States
  <2>2. CASE ~(current_process # 0 /\ st[current_process] = "RUNNING")
    BY <2>2 DEF HandlerTable, Preempted, TypeOK, Pids
  <2> QED
    BY <2>1, <2>2
<1>2. Reaped(Preempted(st)) =
        [p \in Pids |-> IF Preempted(st)[p] = "KILLED"
                          THEN "NONE" ELSE Preempted(st)[p]]
  BY DEF Reaped
<1>3. Reaped(Preempted(st)) \in [Pids -> States]
  BY <1>1, <1>2 DEF States
<1>4. \A p \in Pids : Reaped(Preempted(st))[p] \notin {"RUNNING", "KILLED"}
  BY <1>1, <1>2
<1>5. \A p \in Pids : Reaped(Preempted(st))[p] = "NONE"
                          <=> st[p] \in {"NONE", "KILLED"}
  BY <1>1, <1>2
<1>6. /\ ReapedField(wf, st, 0) \in [Pids -> 0..MAX_PROCESSES]
      /\ ReapedIdle(st) \in 0..MAX_PROCESSES
  BY TableAssumption DEF HandlerTable, TypeOK, ReapedField, ReapedIdle
<1>7. /\ ReapedField(priority, st, MIN_PRIORITY) \in [Pids -> Priorities]
      /\ ReapedField(ticks_remaining, st, MIN_PRIORITY)
           \in [Pids -> 1..MAX_PRIORITY]
  BY PriorityAssumption DEF TypeOK, ReapedField, Priorities
<1> QED
  BY <1>3, <1>4, <1>5, <1>6, <1>7

\* Dispatching p on such a table re-establishes the invariant.
LEMMA DispatchTable ==
  ASSUME TypeOK, NEW st, NEW wf, HandlerTable(st, wf),
         NEW p \in Pids, NEW quantum \in 1..MAX_PRIORITY,
         Dispatch(p, st, quantum),
         last_run_index' \in 0..(MAX_PROCESSES - 1),
         idle_pcb' = ReapedIdle(st),
         priority' = ReapedField(priority, st, MIN_PRIORITY),
         waiting_for_pid' = ReapedField(wf, st, 0)
  PROVE  TableInv'
<1>1. TypeOK'
  <2>1. state' \in [Pids -> States]
    BY ReapedTable DEF Dispatch, States
  <2>2. ticks_remaining' \in [Pids -> 1..MAX_PRIORITY]
    BY ReapedTable DEF Dispatch
  <2>3. /\ priority' \in [Pids -> Priorities]
        /\ waiting_for_pid' \in [Pids -> 0..MAX_PROCESSES]
        /\ idle_pcb' \in 0..MAX_PROCESSES
    BY ReapedTable
  <2>4. current_process' \in 0..MAX_PROCESSES
    BY TableAssumption DEF Dispatch, Pids
  <2> QED
    BY <2>1, <2>2, <2>3, <2>4 DEF TypeOK
<1>2. OnlyCurrentRuns'
  BY ReapedTable DEF Dispatch, OnlyCurrentRuns
<1>3. WaitTargetAlive'
  <2> SUFFICES ASSUME NEW q \in Pids, waiting_for_pid'[q] # 0
               PROVE  /\ state'[q] # "NONE"
                      /\ state'[waiting_for_pid'[q]] \notin {"NONE", "KILLED"}
    BY DEF WaitTargetAlive
  <2>1. st[q] \notin {"NONE", "KILLED"} /\ waiting_for_pid'[q] = wf[q]
    BY DEF ReapedField
  <2>2. wf[q] \in Pids /\ st[wf[q]] \notin {"NONE", "KILLED"}
    BY <2>1 DEF HandlerTable, Pids
  <2> QED
    BY <2>1, <2>2, ReapedTable DEF Dispatch
<1> QED
  BY <1>1, <1>2, <1>3 DEF TableInv

\* Nobody is left to run: current_process is NULL and nothing is RUNNING.
LEMMA RunNobodyTable ==
  ASSUME TypeOK, NEW st, NEW wf, HandlerTable(st, wf),
         RunNobody(st),
         idle_pcb' = ReapedIdle(st),
         priority' = ReapedField(priority, st, MIN_PRIORITY),
         waiting_for_pid' = ReapedField(wf, st, 0)
  PROVE  TableInv'
<1>1. TypeOK'
  BY ReapedTable, TableAssumption DEF RunNobody, TypeOK, Pids, States
<1>2. OnlyCurrentRuns'
  BY ReapedTable DEF RunNobody, OnlyCurrentRuns, Pids
<1>3. WaitTargetAlive'
  <2> SUFFICES ASSUME NEW q \in Pids, waiting_for_pid'[q] # 0
               PROVE  /\ state'[q] # "NONE"
                      /\ state'[waiting_for_pid'[q]] \notin {"NONE", "KILLED"}
    BY DEF WaitTargetAlive
  <2>1. st[q] \notin {"NONE", "KILLED"} /\ waiting_for_pid'[q] = wf[q]
    BY DEF ReapedField
  <2>2. wf[q] \in Pids /\ st[wf[q]] \notin {"NONE", "KILLED"}
    BY <2>1 DEF HandlerTable, Pids
  <2> QED
    BY <2>1, <2>2, ReapedTable DEF RunNobody
<1> QED
  BY <1>1, <1>2, <1>3 DEF TableInv

LEMMA ScheduleTickTable ==
  ASSUME TypeOK, current_process # 0,
         NEW st, NEW wf, HandlerTable(st, wf), schedule_tick(st, wf)
  PROVE  TableInv'
<1>1. CASE KeepRunning(st, wf)
  <2>1. TypeOK'
    BY <1>1, PriorityAssumption, TableAssumption
       DEF KeepRunning, QuantumLeft, HandlerTable, TypeOK, Pids
  <2>2. OnlyCurrentRuns'
    BY <1>1 DEF KeepRunning, QuantumLeft, HandlerTable, TypeOK, OnlyCurrentRuns
  <2>3. WaitTargetAlive'
    BY <1>1 DEF KeepRunning, HandlerTable, WaitTargetAlive
  <2> QED
    BY <2>1, <2>2, <2>3 DEF TableInv
<1>2. CASE scheduler(st, wf)
  <2>1. CASE RunNext(st)
    <3>1. PICK p \in Candidates(Preempted(st)) :
            /\ Dispatch(p, st, priority[p])
            /\ last_run_index' = NextIndex(p)
      BY <2>1 DEF RunNext
    <3>2. p \in Pids /\ priority[p] \in 1..MAX_PRIORITY
      BY <3>1, PriorityAssumption DEF Candidates, TypeOK, Priorities
    <3>3. last_run_index' \in 0..(MAX_PROCESSES - 1)
      BY <3>1, <3>2, TableAssumption DEF NextIndex, Pids
    <3> QED
      BY <1>2, <3>1, <3>2, <3>3, DispatchTable DEF scheduler
  <2>2. CASE RunIdle(st)
    <3>1. ReapedIdle(st) \in Pids /\ 1 \in 1..MAX_PRIORITY
      BY <2>2, ReapedTable, PriorityAssumption DEF RunIdle, Pids
    <3>2. last_run_index' \in 0..(MAX_PROCESSES - 1)
      BY <2>2 DEF RunIdle, TypeOK
    <3> QED
      BY <1>2, <2>2, <3>1, <3>2, DispatchTable DEF scheduler, RunIdle
  <2>3. CASE RunNobody(st)
    BY <1>2, <2>3, RunNobodyTable DEF scheduler
  <2> QED
    BY <1>2, <2>1, <2>2, <2>3 DEF scheduler
<1> QED
  BY <1>1, <1>2 DEF schedule_tick

\* A handler that returns to its caller must leave the caller RUNNING.
LEMMA ReturnTable ==
  ASSUME TypeOK, NEW st, NEW wf, HandlerTable(st, wf),
         current_process # 0 => st[current_process] = "RUNNING",
         ReturnToCaller(st, wf)
  PROVE  TableInv'
  BY DEF HandlerTable, ReturnToCaller, TableInv, TypeOK, OnlyCurrentRuns,
         WaitTargetAlive, Pids

-----------------------------------------------------------------------------
(* The tables the handlers hand over. *)

LEMMA UnchangedTable ==
  ASSUME TableInv
  PROVE  HandlerTable(state, waiting_for_pid)
  BY DEF TableInv, TypeOK, OnlyCurrentRuns, WaitTargetAlive, HandlerTable

\* Killing p leaves no wait on p, whatever state p was in.
LEMMA ExitTable ==
  ASSUME TableInv, NEW p \in Pids, state[p] # "NONE"
  PROVE  HandlerTable(exit_process(state, p), StopWaiting(p))
<1> DEFINE st == exit_process(state, p)
           wf == StopWaiting(p)
<1>1. /\ st \in [Pids -> States]
      /\ wf \in [Pids -> 0..MAX_PROCESSES]
  BY TableAssumption
     DEF TableInv, TypeOK, exit_process, unblock_process, StopWaiting, States
<1>2. \A q \in Pids : st[q] = "RUNNING" => q = current_process
  BY DEF TableInv, TypeOK, OnlyCurrentRuns, exit_process, unblock_process
<1>3. \A q \in Pids : q # p =>
         /\ st[q] = "NONE" <=> state[q] = "NONE"
         /\ st[q] = "KILLED" <=> state[q] = "KILLED"
  BY DEF TableInv, TypeOK, exit_process, unblock_process
<1>4. st[p] = "KILLED"
  BY DEF TableInv, TypeOK, exit_process, unblock_process
<1>5. ASSUME NEW q \in Pids, wf[q] # 0
      PROVE  st[q] # "NONE" /\ st[wf[q]] \notin {"NONE", "KILLED"}
  <2>1. wf[q] = waiting_for_pid[q] /\ q \notin Waiters(p)
    BY <1>5 DEF StopWaiting
  <2>2. /\ state[q] # "NONE"
        /\ wf[q] \in Pids
        /\ state[wf[q]] \notin {"NONE", "KILLED"}
    BY <1>5, <2>1 DEF TableInv, TypeOK, WaitTargetAlive, Pids
  <2>3. wf[q] # p
    BY <2>1, <2>2 DEF Waiters
  <2> QED
    BY <1>3, <1>4, <2>2, <2>3
<1> HIDE DEF st, wf
<1>6. HandlerTable(st, wf)
  BY <1>1, <1>2, <1>5 DEF HandlerTable
<1> QED
  BY <1>6 DEF st, wf

\* Blocking p, and recording that it waits for the live process q.
LEMMA BlockTable ==
  ASSUME TableInv, NEW p \in Pids, state[p] # "NONE"
  PROVE  HandlerTable(block_process(state, p), waiting_for_pid)
  BY DEF TableInv, TypeOK, OnlyCurrentRuns, WaitTargetAlive, HandlerTable,
         block_process, States, Pids

LEMMA WaitpidTable ==
  ASSUME TableInv, NEW p \in Pids, state[p] \notin {"NONE", "KILLED"},
         current_process # 0
  PROVE  HandlerTable(block_process(state, current_process),
                      [waiting_for_pid EXCEPT ![current_process] = p])
<1>1. current_process \in Pids /\ state[current_process] = "RUNNING"
  BY DEF TableInv, TypeOK, OnlyCurrentRuns, Pids
<1>2. HandlerTable(block_process(state, current_process), waiting_for_pid)
  BY <1>1, BlockTable
<1>3. /\ block_process(state, current_process)[current_process] = "BLOCKED"
      /\ block_process(state, current_process)[p] \notin {"NONE", "KILLED"}
  BY <1>1 DEF block_process, TableInv, TypeOK
<1> QED
  BY <1>1, <1>2, <1>3 DEF HandlerTable, Pids

LEMMA UnblockTable ==
  ASSUME TableInv, NEW S
  PROVE  HandlerTable(unblock_process(state, S), waiting_for_pid)
<1> DEFINE st == unblock_process(state, S)
<1>1. st \in [Pids -> States]
  BY DEF TableInv, TypeOK, unblock_process, States
<1>2. \A q \in Pids : st[q] = state[q] \/ (state[q] = "BLOCKED" /\ st[q] = "READY")
  BY DEF unblock_process
<1> HIDE DEF st
<1>3. \A q \in Pids : waiting_for_pid[q] # 0 => waiting_for_pid[q] \in Pids
  BY DEF TableInv, TypeOK, Pids
<1>4. HandlerTable(st, waiting_for_pid)
  BY <1>1, <1>2, <1>3
     DEF TableInv, TypeOK, OnlyCurrentRuns, WaitTargetAlive, HandlerTable
<1> QED
  BY <1>4 DEF st

-----------------------------------------------------------------------------
(* One lemma per handler. *)

LEMMA SysCreateTable == ASSUME TableInv, SysCreate PROVE TableInv'
<1> USE DEF TableInv
<1>1. Reaped(state) \in [Pids -> States]
  BY DEF TypeOK, Reaped, States
<1>2. /\ ReapedField(priority, state, MIN_PRIORITY) \in [Pids -> Priorities]
      /\ ReapedField(ticks_remaining, state, MIN_PRIORITY)
           \in [Pids -> 1..MAX_PRIORITY]
      /\ ReapedField(waiting_for_pid, state, 0) \in [Pids -> 0..MAX_PROCESSES]
      /\ ReapedIdle(state) \in 0..MAX_PROCESSES
  BY PriorityAssumption, TableAssumption
     DEF TypeOK, ReapedField, ReapedIdle, Priorities
<1>3. /\ priority' = ReapedField(priority, state, MIN_PRIORITY)
      /\ ticks_remaining' = ReapedField(ticks_remaining, state, MIN_PRIORITY)
      /\ waiting_for_pid' = ReapedField(waiting_for_pid, state, 0)
      /\ idle_pcb' = ReapedIdle(state)
      /\ UNCHANGED <<current_process, last_run_index>>
  BY DEF SysCreate, CreateFails, CreateIn
<1>4. /\ state' \in [Pids -> States]
      /\ \A q \in Pids :
           state'[q] # Reaped(state)[q]
             => Reaped(state)[q] = "NONE" /\ state'[q] = "READY"
  <2>1. CASE CreateFails
    BY <1>1, <2>1 DEF CreateFails
  <2>2. ASSUME NEW p \in Pids, CreateIn(p)
        PROVE  /\ state' = [Reaped(state) EXCEPT ![p] = "READY"]
               /\ Reaped(state)[p] = "NONE"
    BY <2>2 DEF CreateIn
  <2>3. CASE \E p \in Pids : CreateIn(p)
    BY <1>1, <2>2, <2>3 DEF States
  <2> QED
    BY <2>1, <2>3 DEF SysCreate
<1>5. TypeOK'
  BY <1>2, <1>3, <1>4 DEF TypeOK
<1>6. OnlyCurrentRuns'
  <2> SUFFICES ASSUME NEW q \in Pids
               PROVE  state'[q] = "RUNNING" <=> state[q] = "RUNNING"
    BY <1>3 DEF OnlyCurrentRuns
  <2> QED
    BY <1>4 DEF Reaped
<1>7. WaitTargetAlive'
  <2> SUFFICES ASSUME NEW q \in Pids, waiting_for_pid'[q] # 0
               PROVE  /\ state'[q] # "NONE"
                      /\ state'[waiting_for_pid'[q]] \notin {"NONE", "KILLED"}
    BY DEF WaitTargetAlive
  <2>1. /\ state[q] \notin {"NONE", "KILLED"}
        /\ waiting_for_pid'[q] = waiting_for_pid[q]
    BY <1>3 DEF ReapedField
  <2>2. /\ waiting_for_pid[q] \in Pids
        /\ state[waiting_for_pid[q]] \notin {"NONE", "KILLED"}
    BY <2>1 DEF WaitTargetAlive, TypeOK, Pids
  <2> QED
    BY <1>4, <2>1, <2>2 DEF Reaped
<1> QED
  BY <1>5, <1>6, <1>7

LEMMA NextTable == TableInv /\ [Next]_vars => TableInv'
<1> SUFFICES ASSUME TableInv, [Next]_vars
             PROVE  TableInv'
  OBVIOUS
<1>1. TypeOK /\ (current_process # 0 =>
                   current_process \in Pids /\ state[current_process] = "RUNNING")
  BY DEF TableInv, TypeOK, OnlyCurrentRuns, Pids
<1>2. CASE TimerTick
  BY <1>1, <1>2, UnchangedTable, ScheduleTickTable DEF TimerTick
<1>3. CASE SysYield
  BY <1>1, <1>3, UnchangedTable, ScheduleTickTable DEF SysYield, ProgramRuns
<1>4. CASE SysExit
  <2>1. /\ current_process # 0
        /\ schedule_tick(exit_process(state, current_process),
                         StopWaiting(current_process))
    BY <1>4 DEF SysExit, ProgramRuns
  <2>2. HandlerTable(exit_process(state, current_process),
                     StopWaiting(current_process))
    BY <1>1, <2>1, ExitTable
  <2> QED
    BY <1>1, <2>1, <2>2, ScheduleTickTable
<1>5. CASE SysCreate
  BY <1>5, SysCreateTable
<1>6. ASSUME NEW p \in KillTargets, SysKill(p)
      PROVE  TableInv'
  <2>1. p \in Pids /\ state[p] # "NONE" /\ current_process # 0
    BY <1>6, TargetsAssumption DEF SysKill, ProgramRuns
  <2>2. HandlerTable(exit_process(state, p), StopWaiting(p))
    BY <2>1, ExitTable
  <2>3. CASE p = current_process
    BY <1>1, <1>6, <2>1, <2>2, <2>3, ScheduleTickTable DEF SysKill
  <2>4. CASE p # current_process
    <3>1. exit_process(state, p)[current_process] = "RUNNING"
      BY <1>1, <2>1, <2>4 DEF exit_process, unblock_process, TypeOK
    <3> QED
      BY <1>1, <1>6, <2>2, <2>4, <3>1, ReturnTable DEF SysKill
  <2> QED
    BY <2>3, <2>4
<1>7. ASSUME NEW p \in BlockTargets, SysBlock(p)
      PROVE  TableInv'
  <2>1. p \in Pids /\ state[p] # "NONE" /\ current_process # 0
    BY <1>7, TargetsAssumption DEF SysBlock, ProgramRuns
  <2>2. HandlerTable(block_process(state, p), waiting_for_pid)
    BY <2>1, BlockTable
  <2>3. CASE p = current_process
    BY <1>1, <1>7, <2>1, <2>2, <2>3, ScheduleTickTable DEF SysBlock
  <2>4. CASE p # current_process
    <3>1. block_process(state, p)[current_process] = "RUNNING"
      BY <1>1, <2>1, <2>4 DEF block_process, TypeOK
    <3> QED
      BY <1>1, <1>7, <2>2, <2>4, <3>1, ReturnTable DEF SysBlock
  <2> QED
    BY <2>3, <2>4
<1>8. ASSUME NEW p \in BlockTargets, SysUnblock(p)
      PROVE  TableInv'
  <2>1. p \in Pids /\ current_process # 0
    BY <1>8, TargetsAssumption DEF SysUnblock, ProgramRuns
  <2>2. unblock_process(state, {p})[current_process] = "RUNNING"
    BY <1>1, <2>1 DEF unblock_process
  <2> QED
    BY <1>1, <1>8, <2>1, <2>2, UnblockTable, ReturnTable DEF SysUnblock
<1>9. ASSUME NEW p \in Pids, SysWaitpid(p)
      PROVE  TableInv'
  <2>1. /\ state[p] \notin {"NONE", "KILLED"}
        /\ current_process # 0
        /\ schedule_tick(block_process(state, current_process),
                         [waiting_for_pid EXCEPT ![current_process] = p])
    BY <1>9 DEF SysWaitpid, ProgramRuns
  <2>2. HandlerTable(block_process(state, current_process),
                     [waiting_for_pid EXCEPT ![current_process] = p])
    BY <2>1, WaitpidTable
  <2> QED
    BY <1>1, <2>1, <2>2, ScheduleTickTable
<1>10. ASSUME NEW p \in Pids, NEW new_priority \in Priorities,
              SysNice(p, new_priority)
       PROVE  TableInv'
  BY <1>10 DEF SysNice, TableInv, TypeOK, OnlyCurrentRuns, WaitTargetAlive
<1>11. CASE UNCHANGED vars
  BY <1>11 DEF vars, TableInv, TypeOK, OnlyCurrentRuns, WaitTargetAlive
<1> QED
  BY <1>2, <1>3, <1>4, <1>5, <1>6, <1>7, <1>8, <1>9, <1>10, <1>11 DEF Next

-----------------------------------------------------------------------------
\* The types, for every table size and every mix of system calls.
THEOREM TypeCorrect == Spec => []TypeOK
<1>1. TableInv => TypeOK
  BY DEF TableInv
<1> QED
  BY <1>1, InitTable, NextTable, PTL DEF Spec

\* The process on the CPU is RUNNING and it is the only one: exit_process,
\* block_process and waitpid on the caller always reach the scheduler.
THEOREM CurrentRuns == Spec => []OnlyCurrentRuns
<1>1. TableInv => OnlyCurrentRuns
  BY DEF TableInv
<1> QED
  BY <1>1, InitTable, NextTable, PTL DEF Spec

\* No waitpid outlives its target, so no pid is reused while it is waited for.
THEOREM WaitsAreAlive == Spec => []WaitTargetAlive
<1>1. TableInv => WaitTargetAlive
  BY DEF TableInv
<1> QED
  BY <1>1, InitTable, NextTable, PTL DEF Spec

-----------------------------------------------------------------------------
(* Waits that end. *)

\* The handler's table after which every wait that ended is awake.
Released(st, wf) ==
  \A p \in Pids : waiting_for_pid[p] # 0 /\ wf[p] = 0 => st[p] # "BLOCKED"

\* The scheduler blocks nobody and ends a wait only by reaping the waiter.
LEMMA ScheduleTickReleases ==
  ASSUME TypeOK, NEW st, NEW wf, HandlerTable(st, wf), Released(st, wf),
         schedule_tick(st, wf),
         NEW p \in Pids, waiting_for_pid[p] # 0, waiting_for_pid'[p] = 0
  PROVE  state'[p] # "BLOCKED"
<1>1. CASE KeepRunning(st, wf)
  BY <1>1 DEF KeepRunning, Released
<1>2. CASE scheduler(st, wf)
  <2>1. state' = Reaped(Preempted(st))
          \/ \E q \in Pids : state' = [Reaped(Preempted(st)) EXCEPT ![q] = "RUNNING"]
    <3>1. CASE RunNext(st)
      BY <3>1 DEF RunNext, Dispatch, Candidates
    <3>2. CASE RunIdle(st)
      <4>1. ReapedIdle(st) \in Pids
        BY <3>2, ReapedTable DEF RunIdle, Pids
      <4> QED
        BY <3>2, <4>1 DEF RunIdle, Dispatch
    <3>3. CASE RunNobody(st)
      BY <3>3 DEF RunNobody
    <3> QED
      BY <1>2, <3>1, <3>2, <3>3 DEF scheduler
  <2>2. st[p] \in {"NONE", "KILLED"} \/ wf[p] = 0
    BY <1>2 DEF scheduler, ReapedField
  <2>3. CASE st[p] \in {"NONE", "KILLED"}
    BY <2>1, <2>3, ReapedTable
  <2>4. CASE wf[p] = 0
    <3>1. st[p] # "BLOCKED" /\ st \in [Pids -> States]
      BY <2>4 DEF Released, HandlerTable
    <3>2. Preempted(st)[p] # "BLOCKED"
      BY <3>1 DEF Preempted
    <3>3. Reaped(Preempted(st))[p] # "BLOCKED"
      BY <3>2 DEF Reaped
    <3> QED
      BY <2>1, <3>3, ReapedTable
  <2> QED
    BY <2>2, <2>3, <2>4
<1> QED
  BY <1>1, <1>2 DEF schedule_tick

\* exit_process clears a wait only where it also wakes the waiter.
LEMMA ExitReleases ==
  ASSUME TableInv, NEW p \in Pids
  PROVE  Released(exit_process(state, p), StopWaiting(p))
<1> SUFFICES ASSUME NEW q \in Pids, waiting_for_pid[q] # 0,
                    StopWaiting(p)[q] = 0
             PROVE  exit_process(state, p)[q] # "BLOCKED"
  BY DEF Released
<1>1. q \in Waiters(p)
  BY DEF StopWaiting
<1> QED
  BY <1>1 DEF exit_process, unblock_process

\* The step that ends a wait leaves the waiter awake.
LEMMA StepReleases ==
  ASSUME TableInv, Next,
         NEW p \in Pids, waiting_for_pid[p] # 0, waiting_for_pid'[p] = 0
  PROVE  state'[p] # "BLOCKED"
<1> TypeOK
  BY DEF TableInv
<1>1. current_process # 0 => current_process \in Pids
                             /\ state[current_process] = "RUNNING"
  BY DEF TableInv, TypeOK, OnlyCurrentRuns, Pids
<1>2. \A st : Released(st, waiting_for_pid)
  BY DEF Released
<1>3. CASE TimerTick \/ SysYield
  BY <1>2, <1>3, UnchangedTable, ScheduleTickReleases DEF TimerTick, SysYield
<1>4. CASE SysExit
  <2>1. /\ current_process # 0
        /\ schedule_tick(exit_process(state, current_process),
                         StopWaiting(current_process))
    BY <1>4 DEF SysExit, ProgramRuns
  <2>2. HandlerTable(exit_process(state, current_process),
                     StopWaiting(current_process))
    BY <1>1, <2>1, ExitTable
  <2>3. Released(exit_process(state, current_process),
                 StopWaiting(current_process))
    BY <1>1, <2>1, ExitReleases
  <2> QED
    BY <2>1, <2>2, <2>3, ScheduleTickReleases
<1>5. CASE SysCreate
  <2>1. /\ waiting_for_pid' = ReapedField(waiting_for_pid, state, 0)
        /\ CreateFails \/ \E q \in Pids : CreateIn(q)
    BY <1>5 DEF SysCreate, CreateFails, CreateIn
  <2>2. Reaped(state)[p] = "NONE"
    BY <2>1 DEF ReapedField, Reaped
  <2>3. Reaped(state) \in [Pids -> States]
    BY DEF TypeOK, Reaped, States
  <2>4. CASE CreateFails
    BY <2>2, <2>4 DEF CreateFails
  <2>5. CASE \E q \in Pids : CreateIn(q)
    <3>1. PICK q \in Pids : state' = [Reaped(state) EXCEPT ![q] = "READY"]
      BY <2>5 DEF CreateIn
    <3> QED
      BY <2>2, <2>3, <3>1
  <2> QED
    BY <2>1, <2>4, <2>5
<1>6. ASSUME NEW q \in KillTargets, SysKill(q)
      PROVE  state'[p] # "BLOCKED"
  <2>1. q \in Pids /\ state[q] # "NONE"
    BY <1>6, TargetsAssumption DEF SysKill
  <2>2. /\ HandlerTable(exit_process(state, q), StopWaiting(q))
        /\ Released(exit_process(state, q), StopWaiting(q))
    BY <2>1, ExitTable, ExitReleases
  <2>3. CASE q = current_process
    BY <1>6, <2>2, <2>3, ScheduleTickReleases DEF SysKill
  <2>4. CASE q # current_process
    BY <1>6, <2>2, <2>4 DEF SysKill, ReturnToCaller, Released
  <2> QED
    BY <2>3, <2>4
<1>7. ASSUME NEW q \in BlockTargets, SysBlock(q)
      PROVE  state'[p] # "BLOCKED"
  <2>1. q \in Pids /\ state[q] # "NONE"
    BY <1>7, TargetsAssumption DEF SysBlock
  <2>2. HandlerTable(block_process(state, q), waiting_for_pid)
    BY <2>1, BlockTable
  <2>3. CASE q = current_process
    BY <1>2, <1>7, <2>2, <2>3, ScheduleTickReleases DEF SysBlock
  <2>4. CASE q # current_process
    BY <1>7, <2>4 DEF SysBlock, ReturnToCaller
  <2> QED
    BY <2>3, <2>4
<1>8. ASSUME NEW q \in BlockTargets, SysUnblock(q)
      PROVE  state'[p] # "BLOCKED"
  BY <1>8 DEF SysUnblock, ReturnToCaller
<1>9. ASSUME NEW q \in Pids, SysWaitpid(q)
      PROVE  state'[p] # "BLOCKED"
  <2> DEFINE st == block_process(state, current_process)
             wf == [waiting_for_pid EXCEPT ![current_process] = q]
  <2>1. /\ current_process \in Pids
        /\ state[q] \notin {"NONE", "KILLED"}
        /\ schedule_tick(st, wf)
    BY <1>1, <1>9 DEF SysWaitpid, ProgramRuns
  <2>2. HandlerTable(st, wf)
    BY <1>1, <2>1, WaitpidTable DEF Pids
  <2>3. \A r \in Pids : waiting_for_pid[r] # 0 => wf[r] # 0
    BY <2>1 DEF TypeOK, Pids
  <2> HIDE DEF st, wf
  <2>4. Released(st, wf)
    BY <2>3 DEF Released
  <2> QED
    BY <2>1, <2>2, <2>4, ScheduleTickReleases
<1>10. ASSUME NEW q \in Pids, NEW new_priority \in Priorities,
              SysNice(q, new_priority)
       PROVE  state'[p] # "BLOCKED"
  BY <1>10 DEF SysNice
<1> QED
  BY <1>3, <1>4, <1>5, <1>6, <1>7, <1>8, <1>9, <1>10 DEF Next

\* A process whose waitpid ends is not left asleep, in any execution.
THEOREM WaitersAreReleased == Spec => ReleasedWaitersRun
<1>1. TableInv /\ [Next]_vars =>
        [\A p \in Pids :
           waiting_for_pid[p] # 0 /\ waiting_for_pid'[p] = 0
             => state'[p] # "BLOCKED"]_vars
  BY StepReleases
<1> QED
  BY <1>1, InitTable, NextTable, PTL DEF Spec, ReleasedWaitersRun

-----------------------------------------------------------------------------
(* The kernel always has a process to run, as long as nobody kills idle. *)

IdleInv ==
  /\ current_process # 0
  /\ idle_pcb = 1
  /\ state[1] \notin {"NONE", "KILLED"}

LEMMA ScheduleTickIdle ==
  ASSUME TypeOK, IdleInv, NEW st, NEW wf, HandlerTable(st, wf),
         st[1] \notin {"NONE", "KILLED"}, schedule_tick(st, wf)
  PROVE  IdleInv'
<1>1. CASE KeepRunning(st, wf)
  BY <1>1 DEF KeepRunning, IdleInv
<1>2. CASE scheduler(st, wf)
  <2>1. ReapedIdle(st) = 1 /\ idle_pcb' = 1
    BY <1>2 DEF scheduler, ReapedIdle, IdleInv
  <2>2. Reaped(Preempted(st))[1] \notin {"NONE", "KILLED"}
    BY ReapedTable, TableAssumption DEF Pids
  <2>3. PICK p \in Pids : \E quantum : Dispatch(p, st, quantum)
    <3>1. ~RunNobody(st)
      BY <2>1 DEF RunNobody
    <3>2. CASE RunNext(st)
      BY <3>2 DEF RunNext, Candidates
    <3>3. CASE RunIdle(st)
      BY <2>1, <3>3, TableAssumption DEF RunIdle, Pids
    <3> QED
      BY <1>2, <3>1, <3>2, <3>3 DEF scheduler
  <2>4. state'[1] \notin {"NONE", "KILLED"}
    BY <2>2, <2>3, ReapedTable DEF Dispatch
  <2> QED
    BY <2>1, <2>3, <2>4 DEF Dispatch, IdleInv, Pids
<1> QED
  BY <1>1, <1>2 DEF schedule_tick

LEMMA NextIdle ==
  ASSUME 1 \notin KillTargets, TableInv, IdleInv, [Next]_vars
  PROVE  IdleInv'
<1> TypeOK /\ 1 \in Pids
  BY TableAssumption DEF TableInv, Pids
<1>1. current_process \in Pids /\ state[current_process] = "RUNNING"
  BY DEF TableInv, TypeOK, OnlyCurrentRuns, Pids, IdleInv
<1>2. CASE TimerTick \/ SysYield
  BY <1>2, UnchangedTable, ScheduleTickIdle DEF TimerTick, SysYield, IdleInv
<1>3. ASSUME NEW p \in Pids, p # 1
      PROVE  exit_process(state, p)[1] \notin {"NONE", "KILLED"}
  BY <1>3 DEF exit_process, unblock_process, IdleInv, TypeOK
<1>4. CASE SysExit
  <2>1. /\ current_process # 1
        /\ schedule_tick(exit_process(state, current_process),
                         StopWaiting(current_process))
    BY <1>4 DEF SysExit, ProgramRuns, IdleInv
  <2>2. HandlerTable(exit_process(state, current_process),
                     StopWaiting(current_process))
    BY <1>1, ExitTable
  <2>3. exit_process(state, current_process)[1] \notin {"NONE", "KILLED"}
    BY <1>1, <1>3, <2>1
  <2> QED
    BY <2>1, <2>2, <2>3, ScheduleTickIdle
<1>5. CASE SysCreate
  <2>1. /\ idle_pcb' = ReapedIdle(state) /\ UNCHANGED current_process
        /\ CreateFails \/ \E p \in Pids : CreateIn(p)
    BY <1>5 DEF SysCreate
  <2>2. Reaped(state)[1] = state[1] /\ Reaped(state) \in [Pids -> States]
    BY DEF Reaped, IdleInv, TypeOK, States
  <2>3. state'[1] \notin {"NONE", "KILLED"}
    <3>1. CASE CreateFails
      BY <2>2, <3>1 DEF CreateFails, IdleInv
    <3>2. CASE \E p \in Pids : CreateIn(p)
      <4>1. PICK p \in Pids : /\ Reaped(state)[p] = "NONE"
                              /\ state' = [Reaped(state) EXCEPT ![p] = "READY"]
        BY <3>2 DEF CreateIn
      <4> QED
        BY <2>2, <4>1 DEF IdleInv
    <3> QED
      BY <2>1, <3>1, <3>2
  <2> QED
    BY <2>1, <2>3 DEF ReapedIdle, IdleInv
<1>6. ASSUME NEW p \in KillTargets, SysKill(p)
      PROVE  IdleInv'
  <2>1. p \in Pids /\ p # 1 /\ state[p] # "NONE"
    BY <1>6, TargetsAssumption DEF SysKill
  <2>2. /\ HandlerTable(exit_process(state, p), StopWaiting(p))
        /\ exit_process(state, p)[1] \notin {"NONE", "KILLED"}
    BY <1>3, <2>1, ExitTable
  <2>3. CASE p = current_process
    BY <1>6, <2>2, <2>3, ScheduleTickIdle DEF SysKill
  <2>4. CASE p # current_process
    BY <1>6, <2>2, <2>4 DEF SysKill, ReturnToCaller, IdleInv
  <2> QED
    BY <2>3, <2>4
<1>7. ASSUME NEW p \in BlockTargets, SysBlock(p)
      PROVE  IdleInv'
  <2>1. p \in Pids /\ state[p] # "NONE"
    BY <1>7, TargetsAssumption DEF SysBlock
  <2>2. /\ HandlerTable(block_process(state, p), waiting_for_pid)
        /\ block_process(state, p)[1] \notin {"NONE", "KILLED"}
    BY <2>1, BlockTable DEF block_process, IdleInv, TypeOK
  <2>3. CASE p = current_process
    BY <1>7, <2>2, <2>3, ScheduleTickIdle DEF SysBlock
  <2>4. CASE p # current_process
    BY <1>7, <2>2, <2>4 DEF SysBlock, ReturnToCaller, IdleInv
  <2> QED
    BY <2>3, <2>4
<1>8. ASSUME NEW p \in BlockTargets, SysUnblock(p)
      PROVE  IdleInv'
  BY <1>8 DEF SysUnblock, ReturnToCaller, unblock_process, IdleInv
<1>9. ASSUME NEW p \in Pids, SysWaitpid(p)
      PROVE  IdleInv'
  <2> DEFINE st == block_process(state, current_process)
             wf == [waiting_for_pid EXCEPT ![current_process] = p]
  <2>1. state[p] \notin {"NONE", "KILLED"} /\ schedule_tick(st, wf)
    BY <1>9 DEF SysWaitpid
  <2>2. HandlerTable(st, wf)
    BY <1>1, <2>1, WaitpidTable DEF Pids
  <2>3. st[1] \notin {"NONE", "KILLED"}
    BY <1>1 DEF block_process, IdleInv, TypeOK
  <2> HIDE DEF st, wf
  <2> QED
    BY <2>1, <2>2, <2>3, ScheduleTickIdle
<1>10. ASSUME NEW p \in Pids, NEW new_priority \in Priorities,
              SysNice(p, new_priority)
       PROVE  IdleInv'
  BY <1>10 DEF SysNice, IdleInv
<1>11. CASE UNCHANGED vars
  BY <1>11 DEF vars, IdleInv
<1> QED
  BY <1>2, <1>4, <1>5, <1>6, <1>7, <1>8, <1>9, <1>10, <1>11 DEF Next

\* If no program kills idle, some process is always current, whatever else
\* programs do to idle (block it, wait for it, change its priority).
THEOREM KernelAlwaysRuns ==
  ASSUME 1 \notin KillTargets PROVE Spec => []NeverNoProcess
<1>1. Init => IdleInv
  BY TableAssumption DEF Init, IdleInv, Pids
<1>2. TableInv /\ IdleInv /\ [Next]_vars => IdleInv'
  BY NextIdle
<1>3. IdleInv => NeverNoProcess
  BY DEF IdleInv, NeverNoProcess
<1> QED
  BY <1>1, <1>2, <1>3, InitTable, NextTable, PTL DEF Spec

-----------------------------------------------------------------------------
(* Death is final, as long as nobody blocks a process that is dead. *)

\* The scheduler dispatches a READY process, or idle if it is not dead.
LEMMA ScheduleTickFinal ==
  ASSUME TypeOK, NEW st, NEW wf, HandlerTable(st, wf), schedule_tick(st, wf),
         NEW p \in Pids, st[p] = "KILLED"
  PROVE  state'[p] \in {"KILLED", "NONE"}
<1>1. CASE KeepRunning(st, wf)
  BY <1>1 DEF KeepRunning
<1>2. CASE scheduler(st, wf)
  <2>1. st \in [Pids -> States]
    BY DEF HandlerTable
  <2>2. Preempted(st) \in [Pids -> States] /\ Preempted(st)[p] = "KILLED"
    BY <2>1 DEF Preempted, States
  <2>3. Reaped(Preempted(st)) \in [Pids -> States]
        /\ Reaped(Preempted(st))[p] = "NONE"
    BY <2>2 DEF Reaped, States
  <2>4. CASE RunNext(st)
    <3>1. PICK q \in Candidates(Preempted(st)) : Dispatch(q, st, priority[q])
      BY <2>4 DEF RunNext
    <3>2. q \in Pids /\ q # p
      BY <2>2, <3>1 DEF Candidates
    <3> QED
      BY <2>3, <3>1, <3>2 DEF Dispatch
  <2>5. CASE RunIdle(st)
    <3>1. ReapedIdle(st) # p
      BY <2>5 DEF RunIdle, ReapedIdle
    <3> QED
      BY <2>3, <2>5, <3>1 DEF RunIdle, Dispatch
  <2>6. CASE RunNobody(st)
    BY <2>3, <2>6 DEF RunNobody
  <2> QED
    BY <1>2, <2>4, <2>5, <2>6 DEF scheduler
<1> QED
  BY <1>1, <1>2 DEF schedule_tick

LEMMA StepFinal ==
  ASSUME BlocksZombies = FALSE, TableInv, Next,
         NEW p \in Pids, state[p] = "KILLED"
  PROVE  state'[p] \in {"KILLED", "NONE"} \/ SysCreate
<1> TypeOK
  BY DEF TableInv
<1>1. current_process # 0 => current_process \in Pids
                             /\ state[current_process] = "RUNNING"
  BY DEF TableInv, TypeOK, OnlyCurrentRuns, Pids
<1>2. ASSUME NEW q \in Pids
      PROVE  exit_process(state, q)[p] = "KILLED"
  BY <1>2 DEF exit_process, unblock_process, TypeOK
<1>3. ASSUME NEW q \in Pids, q # p
      PROVE  block_process(state, q)[p] = "KILLED"
  BY <1>3 DEF block_process, TypeOK
<1>4. CASE TimerTick \/ SysYield
  BY <1>4, UnchangedTable, ScheduleTickFinal DEF TimerTick, SysYield
<1>5. CASE SysExit
  <2>1. /\ current_process \in Pids /\ state[current_process] # "NONE"
        /\ schedule_tick(exit_process(state, current_process),
                         StopWaiting(current_process))
    BY <1>1, <1>5 DEF SysExit, ProgramRuns
  <2> QED
    BY <1>2, <2>1, ExitTable, ScheduleTickFinal
<1>6. ASSUME NEW q \in KillTargets, SysKill(q)
      PROVE  state'[p] \in {"KILLED", "NONE"}
  <2>1. q \in Pids /\ state[q] # "NONE"
    BY <1>6, TargetsAssumption DEF SysKill
  <2>2. CASE q = current_process
    BY <1>2, <1>6, <2>1, <2>2, ExitTable, ScheduleTickFinal DEF SysKill
  <2>3. CASE q # current_process
    BY <1>2, <1>6, <2>1, <2>3 DEF SysKill, ReturnToCaller
  <2> QED
    BY <2>2, <2>3
<1>7. ASSUME NEW q \in BlockTargets, SysBlock(q)
      PROVE  state'[p] \in {"KILLED", "NONE"}
  <2>1. q \in Pids /\ state[q] # "NONE" /\ q # p
    BY <1>7, TargetsAssumption DEF SysBlock
  <2>2. CASE q = current_process
    BY <1>3, <1>7, <2>1, <2>2, BlockTable, ScheduleTickFinal DEF SysBlock
  <2>3. CASE q # current_process
    BY <1>3, <1>7, <2>1, <2>3 DEF SysBlock, ReturnToCaller
  <2> QED
    BY <2>2, <2>3
<1>8. ASSUME NEW q \in BlockTargets, SysUnblock(q)
      PROVE  state'[p] \in {"KILLED", "NONE"}
  BY <1>8 DEF SysUnblock, ReturnToCaller, unblock_process
<1>9. ASSUME NEW q \in Pids, SysWaitpid(q)
      PROVE  state'[p] \in {"KILLED", "NONE"}
  <2> DEFINE st == block_process(state, current_process)
             wf == [waiting_for_pid EXCEPT ![current_process] = q]
  <2>1. /\ current_process \in Pids /\ current_process # p
        /\ state[q] \notin {"NONE", "KILLED"}
        /\ schedule_tick(st, wf)
    BY <1>1, <1>9 DEF SysWaitpid, ProgramRuns
  <2>2. HandlerTable(st, wf)
    BY <1>1, <2>1, WaitpidTable DEF Pids
  <2>3. st[p] = "KILLED"
    BY <1>3, <2>1
  <2> HIDE DEF st, wf
  <2> QED
    BY <2>1, <2>2, <2>3, ScheduleTickFinal
<1>10. ASSUME NEW q \in Pids, NEW new_priority \in Priorities,
              SysNice(q, new_priority)
       PROVE  state'[p] \in {"KILLED", "NONE"}
  BY <1>10 DEF SysNice
<1> QED
  BY <1>4, <1>5, <1>6, <1>7, <1>8, <1>9, <1>10 DEF Next

\* A process that was killed never runs again, in any execution where block is
\* not aimed at the dead.
THEOREM DeathIsFinal ==
  ASSUME BlocksZombies = FALSE
  PROVE  Spec => KilledIsFinal
<1>1. TableInv /\ [Next]_vars =>
        [\A p \in Pids : state[p] = "KILLED" =>
           state'[p] \in {"KILLED", "NONE"} \/ SysCreate]_vars
  BY StepFinal
<1> QED
  BY <1>1, InitTable, NextTable, PTL DEF Spec, KilledIsFinal

-----------------------------------------------------------------------------
(***************************************************************************)
(* Response time and length of the turns, for every size of the process    *)
(* table and every range of priorities.                                    *)
(*                                                                         *)
(* The argument for the response time is a budget.  A READY process p at   *)
(* distance d of the scan has at most d other processes before it, each    *)
(* with a turn of at most MAX_PRIORITY ticks, plus what is left of the     *)
(* current turn; what it has already waited and that budget never exceed   *)
(* (MAX_PROCESSES - 1) * MAX_PRIORITY.                                     *)
(***************************************************************************)
Bound == (MAX_PROCESSES - 1) * MAX_PRIORITY

BudgetInv ==
  \A p \in Pids : state[p] = "READY" /\ p # idle_pcb =>
    /\ current_process # 0 /\ current_process # idle_pcb
    /\ waited[p] + ticks_remaining[current_process]
         + MAX_PRIORITY * Distance(p) <= Bound

WaitedInv ==
  /\ waited \in [Pids -> Nat]
  /\ \A p \in Pids : state[p] # "READY" \/ p = idle_pcb => waited[p] = 0

\* The scan resumes after the process that runs.
ScanInv ==
  current_process # 0 =>
    IF current_process = idle_pcb THEN ticks_remaining[current_process] = 1
    ELSE last_run_index = NextIndex(current_process)

TurnInv ==
  TableInv /\ WaitedInv /\ ScanInv /\ BudgetInv
    /\ used \in Nat /\ TurnMatchesPriority

-----------------------------------------------------------------------------
(* Arithmetic. *)

\* A process that starts to wait when another one has just been dispatched.
LEMMA FreshBudget ==
  ASSUME NEW m \in Nat, NEW n \in Nat, NEW t \in Int, NEW d \in Int,
         t <= m, d <= n - 2
  PROVE  t + m * d <= (n - 1) * m
<1>1. m * d <= m * (n - 2)
  OBVIOUS
<1>2. m * (n - 2) + m = (n - 1) * m
  OBVIOUS
<1> QED
  BY <1>1, <1>2

\* A turn of at most m ticks starts and the distance shrinks.
LEMMA SpentBudget ==
  ASSUME NEW m \in Nat, NEW d \in Int, NEW e \in Int, e <= d - 1
  PROVE  m * e + m <= m * d
<1>1. m * e <= m * (d - 1)
  OBVIOUS
<1>2. m * (d - 1) + m = m * d
  OBVIOUS
<1> QED
  BY <1>1, <1>2

LEMMA DistanceRange ==
  ASSUME TypeOK, NEW p \in Pids
  PROVE  Distance(p) \in 0..(MAX_PROCESSES - 1)
  BY TableAssumption DEF TypeOK, Distance, Pids

\* The same two facts after a step.
LEMMA DistanceAfterStep ==
  ASSUME TypeOK', NEW p \in Pids
  PROVE  /\ Distance(p)' \in 0..(MAX_PROCESSES - 1)
         /\ \A c \in Pids : p # c /\ last_run_index' = NextIndex(c)
              => Distance(p)' <= MAX_PROCESSES - 2
<1>1. last_run_index' \in 0..(MAX_PROCESSES - 1)
  BY DEF TypeOK
<1>2. \A r \in 0..(MAX_PROCESSES - 1) :
        (IF p - 1 >= r THEN p - 1 - r ELSE p - 1 - r + MAX_PROCESSES)
          \in 0..(MAX_PROCESSES - 1)
  BY TableAssumption DEF Pids
<1>3. Distance(p)' \in 0..(MAX_PROCESSES - 1)
  BY <1>1, <1>2 DEF Distance
<1>4. ASSUME NEW c \in Pids, p # c, last_run_index' = NextIndex(c)
      PROVE  Distance(p)' <= MAX_PROCESSES - 2
  BY <1>1, <1>4, TableAssumption DEF Distance, NextIndex, Pids
<1> QED
  BY <1>3, <1>4

LEMMA DistanceAfterCurrent ==
  ASSUME TypeOK, NEW p \in Pids, NEW c \in Pids, p # c,
         last_run_index = NextIndex(c)
  PROVE  Distance(p) <= MAX_PROCESSES - 2
  BY TableAssumption DEF TypeOK, Distance, NextIndex, Pids

\* Dispatching c, no further than p, brings p closer.
LEMMA DistanceShrinks ==
  ASSUME TypeOK, NEW p \in Pids, NEW c \in Pids, p # c,
         Distance(c) <= Distance(p), last_run_index' = NextIndex(c)
  PROVE  Distance(p)' <= Distance(p) - 1
  BY TableAssumption DEF TypeOK, Distance, NextIndex, Pids

-----------------------------------------------------------------------------
\* Every handler that calls schedule_tick does so with such a table, and with
\* its caller RUNNING, BLOCKED or KILLED.
LEMMA HandlerHandsOver ==
  ASSUME TableInv, Schedules
  PROVE  /\ current_process # 0
         /\ \E st, wf : /\ HandlerTable(st, wf)
                        /\ schedule_tick(st, wf)
                        /\ st[current_process] \in {"RUNNING", "BLOCKED", "KILLED"}
<1>1. current_process # 0
  BY DEF Schedules, TimerTick, SysExit, SysKill, SysBlock, SysWaitpid, SysYield,
         ProgramRuns
<1>2. current_process \in Pids /\ state[current_process] = "RUNNING"
  BY <1>1 DEF TableInv, TypeOK, OnlyCurrentRuns, Pids
<1>3. CASE TimerTick \/ SysYield
  BY <1>1, <1>2, <1>3, UnchangedTable DEF TimerTick, SysYield
<1>4. CASE SysExit \/ SysKill(current_process)
  <2>1. schedule_tick(exit_process(state, current_process),
                      StopWaiting(current_process))
    BY <1>4 DEF SysExit, SysKill
  <2>2. exit_process(state, current_process)[current_process] = "KILLED"
    BY <1>2 DEF exit_process, unblock_process, TableInv, TypeOK
  <2> QED
    BY <1>1, <1>2, <2>1, <2>2, ExitTable
<1>5. CASE SysBlock(current_process)
  <2>1. schedule_tick(block_process(state, current_process), waiting_for_pid)
    BY <1>5 DEF SysBlock
  <2>2. block_process(state, current_process)[current_process] = "BLOCKED"
    BY <1>2 DEF block_process, TableInv, TypeOK
  <2> QED
    BY <1>1, <1>2, <2>1, <2>2, BlockTable
<1>6. ASSUME NEW p \in Pids, SysWaitpid(p)
      PROVE  \E st, wf : /\ HandlerTable(st, wf)
                         /\ schedule_tick(st, wf)
                         /\ st[current_process] \in {"RUNNING", "BLOCKED", "KILLED"}
  <2>1. /\ state[p] \notin {"NONE", "KILLED"}
        /\ schedule_tick(block_process(state, current_process),
                         [waiting_for_pid EXCEPT ![current_process] = p])
    BY <1>6 DEF SysWaitpid
  <2>2. block_process(state, current_process)[current_process] = "BLOCKED"
    BY <1>2 DEF block_process, TableInv, TypeOK
  <2> QED
    BY <1>1, <2>1, <2>2, WaitpidTable
<1> QED
  BY <1>1, <1>3, <1>4, <1>5, <1>6 DEF Schedules

\* A turn that goes on costs one tick of the budget.
LEMMA KeepRunningTurn ==
  ASSUME TurnInv, TableInv', current_process # 0,
         NEW st, NEW wf, KeepRunning(st, wf), CountTick
  PROVE  TurnInv'
<1> USE DEF TurnInv
<1> TypeOK /\ current_process \in Pids
  BY DEF TableInv, TypeOK, Pids
<1>1. /\ ticks_remaining[current_process] \in 1..MAX_PRIORITY
      /\ current_process # idle_pcb
      /\ ticks_remaining'[current_process] = ticks_remaining[current_process] - 1
      /\ UNCHANGED <<current_process, idle_pcb, last_run_index>>
  BY DEF KeepRunning, QuantumLeft, TypeOK
<1>2. WaitedInv'
  BY <1>1 DEF CountTick, StaysReady, WaitedInv
<1>3. ScanInv'
  BY <1>1 DEF ScanInv
<1>4. BudgetInv'
  <2> SUFFICES ASSUME NEW p \in Pids, state'[p] = "READY", p # idle_pcb
               PROVE  waited'[p] + ticks_remaining'[current_process]
                        + MAX_PRIORITY * Distance(p)' <= Bound
    BY <1>1 DEF BudgetInv
  <2>1. Distance(p)' = Distance(p) /\ Distance(p) \in Int
    BY <1>1, DistanceRange DEF Distance
  <2>2. p # current_process
    BY <1>1 DEF TableInv, OnlyCurrentRuns
  <2>3. MAX_PRIORITY * Distance(p) \in Int /\ Bound \in Int
    BY <2>1, PriorityAssumption, TableAssumption DEF Bound
  <2>4. CASE state[p] = "READY"
    <3>1. waited'[p] = waited[p] + 1 /\ waited[p] \in Nat
      BY <2>4 DEF CountTick, StaysReady, WaitedInv
    <3>2. waited[p] + ticks_remaining[current_process]
            + MAX_PRIORITY * Distance(p) <= Bound
      BY <2>4 DEF BudgetInv
    <3> QED
      BY <1>1, <2>1, <2>3, <3>1, <3>2
  <2>5. CASE state[p] # "READY"
    <3>1. waited'[p] = 0
      BY <2>5 DEF CountTick, StaysReady
    <3>2. Distance(p) <= MAX_PROCESSES - 2
      BY <1>1, <2>2, DistanceAfterCurrent DEF ScanInv
    <3>3. ticks_remaining[current_process] - 1 + MAX_PRIORITY * Distance(p)
            <= Bound
      BY <1>1, <2>1, <3>2, FreshBudget, TableAssumption, PriorityAssumption
         DEF Bound
    <3> QED
      BY <1>1, <2>1, <2>3, <3>1, <3>3
  <2> QED
    BY <2>4, <2>5
<1>5. used' \in Nat /\ TurnMatchesPriority'
  <2>1. TurnGoesOn
    BY <1>1 DEF TurnGoesOn
  <2>2. used' = used + 1 /\ granted' = granted
    BY <2>1 DEF CountTick
  <2> QED
    BY <1>1, <2>2 DEF TurnMatchesPriority
<1> QED
  BY <1>2, <1>3, <1>4, <1>5

\* What the scheduler leaves behind, whoever it chose.
LEMMA SchedulerOutcome ==
  ASSUME TurnInv, TableInv', current_process # 0,
         NEW st, NEW wf, HandlerTable(st, wf),
         st[current_process] \in {"RUNNING", "BLOCKED", "KILLED"},
         ~QuantumLeft(st), scheduler(st, wf)
  PROVE  /\ ScanInv'
         /\ ~TurnGoesOn
         /\ current_process' # 0 =>
              ticks_remaining'[current_process'] =
                IF current_process' = idle_pcb' THEN 1
                ELSE priority[current_process']
         /\ \A p \in Pids : state'[p] = "READY" /\ p # idle_pcb =>
              /\ current_process' \in Pids
              /\ current_process' \notin {p, idle_pcb'}
              /\ last_run_index' = NextIndex(current_process')
              /\ Distance(current_process') <= Distance(p)
<1> TypeOK /\ current_process \in Pids
  BY DEF TurnInv, TableInv, TypeOK, Pids
<1>1. idle_pcb' = ReapedIdle(st) /\ ReapedIdle(st) \in {0, idle_pcb}
  BY DEF scheduler, ReapedIdle
<1>2. ReapedField(ticks_remaining, st, MIN_PRIORITY) \in [Pids -> 1..MAX_PRIORITY]
  BY ReapedTable
<1>3. \A p \in Pids : Preempted(st)[p] # "READY" => Reaped(Preempted(st))[p] # "READY"
  BY DEF Reaped
<1>0. ReapedIdle(Preempted(st)) = ReapedIdle(st)
  <2>1. ASSUME idle_pcb # 0
        PROVE  Preempted(st)[idle_pcb] = "KILLED" <=> st[idle_pcb] = "KILLED"
    BY <2>1 DEF Preempted, HandlerTable, TypeOK, Pids
  <2> QED
    BY <2>1 DEF ReapedIdle
<1>4. CASE RunNext(st)
  <2>1. PICK c \in Candidates(Preempted(st)) :
          /\ \A q \in Candidates(Preempted(st)) : Distance(c) <= Distance(q)
          /\ Dispatch(c, st, priority[c])
          /\ last_run_index' = NextIndex(c)
    BY <1>4 DEF RunNext
  <2>2. /\ c \in Pids /\ current_process' = c /\ c # idle_pcb' /\ c # 0
        /\ Preempted(st)[c] = "READY"
        /\ ticks_remaining'[c] = priority[c]
        /\ priority[c] \in Priorities
    <3>1. /\ c \in Pids /\ Preempted(st)[c] = "READY"
          /\ c # ReapedIdle(Preempted(st))
      BY <2>1 DEF Candidates
    <3>2. ticks_remaining'[c] = priority[c] /\ current_process' = c
      BY <1>2, <2>1, <3>1 DEF Dispatch
    <3> QED
      BY <1>0, <1>1, <3>1, <3>2 DEF TypeOK, Pids
  <2>3. ScanInv'
    BY <2>1, <2>2 DEF ScanInv, NextIndex
  <2>4. ~TurnGoesOn
    <3>1. SUFFICES ASSUME c = current_process
                   PROVE  ~(ticks_remaining'[c] < ticks_remaining[c])
      BY <2>2 DEF TurnGoesOn
    <3>2. st[c] = "RUNNING"
      BY <2>2, <3>1 DEF Preempted
    <3>3. IF c = idle_pcb THEN ticks_remaining[c] = 1
                          ELSE ~(ticks_remaining[c] > 1)
      BY <3>1, <3>2 DEF QuantumLeft, TurnInv, ScanInv
    <3> QED
      BY <2>2, <3>3, PriorityAssumption DEF TypeOK, Priorities
  <2>5. ASSUME NEW p \in Pids, state'[p] = "READY", p # idle_pcb
        PROVE  p # c /\ Distance(c) <= Distance(p)
    <3>1. p # c
      BY <1>1, <2>1, <2>2, <2>5, ReapedTable DEF Dispatch, TableInv, OnlyCurrentRuns
    <3>2. Preempted(st)[p] = "READY"
      BY <1>3, <2>1, <2>2, <2>5, <3>1 DEF Dispatch
    <3>3. p \in Candidates(Preempted(st))
      <4>1. p # ReapedIdle(Preempted(st))
        BY <2>5 DEF ReapedIdle, Pids
      <4> QED
        BY <3>2, <4>1 DEF Candidates
    <3> QED
      BY <2>1, <3>1, <3>3
  <2> QED
    BY <2>1, <2>2, <2>3, <2>4, <2>5
<1>5. CASE RunIdle(st)
  <2>1. /\ current_process' = idle_pcb' /\ idle_pcb' \in Pids
        /\ ticks_remaining'[current_process'] = 1
    BY <1>1, <1>2, <1>5 DEF RunIdle, Dispatch, TypeOK, Pids
  <2>2. ScanInv'
    BY <2>1 DEF ScanInv
  <2>3. ~TurnGoesOn
    <3>1. SUFFICES ASSUME current_process = idle_pcb'
                   PROVE  ticks_remaining[current_process] = 1
      BY <2>1 DEF TurnGoesOn
    <3> QED
      BY <1>1, <3>1 DEF TurnInv, ScanInv, Pids
  <2>4. ASSUME NEW p \in Pids, state'[p] = "READY", p # idle_pcb
        PROVE  FALSE
    <3>1. p # idle_pcb'
      BY <1>1, <2>4 DEF Pids
    <3>2. Preempted(st)[p] = "READY"
      BY <1>1, <1>3, <1>5, <2>4, <3>1, ReapedTable DEF RunIdle, Dispatch
    <3>3. p # ReapedIdle(Preempted(st))
      BY <2>4 DEF ReapedIdle, Pids
    <3> QED
      BY <1>5, <3>2, <3>3 DEF RunIdle, Candidates
  <2> QED
    BY <2>1, <2>2, <2>3, <2>4
<1>6. CASE RunNobody(st)
  <2>1. current_process' = 0
    BY <1>6 DEF RunNobody
  <2>2. ASSUME NEW p \in Pids, state'[p] = "READY", p # idle_pcb
        PROVE  FALSE
    <3>1. Preempted(st)[p] = "READY"
      BY <1>3, <1>6, <2>2 DEF RunNobody
    <3>2. p # ReapedIdle(Preempted(st))
      BY <2>2 DEF ReapedIdle, Pids
    <3> QED
      BY <1>6, <3>1, <3>2 DEF RunNobody, Candidates
  <2> QED
    BY <2>1, <2>2 DEF ScanInv, TurnGoesOn
<1> QED
  BY <1>4, <1>5, <1>6 DEF scheduler

\* A new turn: the processes that go on waiting come closer in the scan, those
\* that start to wait are at most MAX_PROCESSES - 2 slots away.
LEMMA SchedulerTurn ==
  ASSUME TurnInv, TableInv', current_process # 0,
         NEW st, NEW wf, HandlerTable(st, wf),
         st[current_process] \in {"RUNNING", "BLOCKED", "KILLED"},
         ~QuantumLeft(st), scheduler(st, wf), CountTick
  PROVE  TurnInv'
<1> TypeOK /\ TypeOK' /\ current_process \in Pids
  BY DEF TurnInv, TableInv, TypeOK, Pids
<1> DEFINE new == current_process'
<1>1. /\ idle_pcb' \in {0, idle_pcb}
      /\ priority' = ReapedField(priority, st, MIN_PRIORITY)
  BY DEF scheduler, ReapedIdle
<1>2. /\ ScanInv' /\ ~TurnGoesOn
      /\ new # 0 => ticks_remaining'[new] =
                       IF new = idle_pcb' THEN 1 ELSE priority[new]
      /\ \A p \in Pids : state'[p] = "READY" /\ p # idle_pcb =>
           /\ new \in Pids /\ new \notin {p, idle_pcb'}
           /\ last_run_index' = NextIndex(new)
           /\ Distance(new) <= Distance(p)
  BY SchedulerOutcome
<1>3. /\ used' = 0
      /\ granted' = IF new \in {0, idle_pcb'} THEN 1 ELSE priority[new]
  BY <1>2 DEF CountTick
<1>4. TurnMatchesPriority'
  <2>1. CASE new = 0
    BY <2>1 DEF TurnMatchesPriority
  <2>2. CASE new # 0
    <3>1. ticks_remaining'[new] = granted' /\ granted' \in Int
      BY <1>2, <1>3, <2>2, PriorityAssumption DEF TypeOK, Pids
    <3> QED
      BY <1>3, <3>1 DEF TurnMatchesPriority
  <2> QED
    BY <2>1, <2>2
<1>5. ASSUME NEW p \in Pids, p = idle_pcb', p # idle_pcb
      PROVE  FALSE
  BY <1>1, <1>5 DEF Pids
<1>6. ASSUME NEW p \in Pids, state'[p] = "READY", p # idle_pcb'
      PROVE  p # idle_pcb
  <2>1. SUFFICES ASSUME p = idle_pcb
                 PROVE  state'[p] # "READY"
    BY <1>6
  <2>2. ReapedIdle(st) = 0 /\ st[p] = "KILLED"
    BY <1>6, <2>1 DEF scheduler, ReapedIdle
  <2>3. Reaped(Preempted(st))[p] = "NONE"
    BY <2>2, ReapedTable
  <2>4. state' = Reaped(Preempted(st))
          \/ \E q \in Pids : state' = [Reaped(Preempted(st)) EXCEPT ![q] = "RUNNING"]
    BY <2>2 DEF scheduler, RunNext, RunIdle, RunNobody, Dispatch, Candidates
  <2> QED
    BY <2>3, <2>4, ReapedTable
<1>7. WaitedInv'
  BY <1>5 DEF CountTick, StaysReady, WaitedInv, TurnInv
<1>8. BudgetInv'
  <2> SUFFICES ASSUME NEW p \in Pids, state'[p] = "READY", p # idle_pcb'
               PROVE  /\ current_process' # 0 /\ current_process' # idle_pcb'
                      /\ waited'[p] + ticks_remaining'[current_process']
                           + MAX_PRIORITY * Distance(p)' <= Bound
    BY DEF BudgetInv
  <2>1. PICK c \in Pids :
          /\ c = current_process' /\ c # p /\ c # idle_pcb' /\ c # 0
          /\ last_run_index' = NextIndex(c)
          /\ Distance(c) <= Distance(p)
          /\ p # idle_pcb
    BY <1>2, <1>6 DEF Pids
  <2>2. ticks_remaining'[c] \in 1..MAX_PRIORITY
    BY <2>1 DEF TypeOK
  <2>3. Distance(p) \in Int /\ Distance(p)' \in Int
    BY DistanceRange, DistanceAfterStep
  <2>4. /\ MAX_PRIORITY * Distance(p) \in Int
        /\ MAX_PRIORITY * Distance(p)' \in Int
        /\ Bound \in Int
    BY <2>3, PriorityAssumption, TableAssumption DEF Bound
  <2>5. waited'[p] + ticks_remaining'[c] + MAX_PRIORITY * Distance(p)' <= Bound
    <3>1. CASE state[p] = "READY"
      <4>1. waited'[p] = waited[p] + 1 /\ waited[p] \in Nat
        BY <2>1, <3>1 DEF CountTick, StaysReady, WaitedInv, TurnInv
      <4>2. /\ ticks_remaining[current_process] \in 1..MAX_PRIORITY
            /\ waited[p] + ticks_remaining[current_process]
                 + MAX_PRIORITY * Distance(p) <= Bound
        BY <2>1, <3>1 DEF BudgetInv, TurnInv, TypeOK
      <4>3. Distance(p)' <= Distance(p) - 1
        BY <2>1, DistanceShrinks
      <4>4. MAX_PRIORITY * Distance(p)' + MAX_PRIORITY
              <= MAX_PRIORITY * Distance(p)
        BY <2>3, <4>3, SpentBudget, PriorityAssumption
      <4> QED
        BY <2>2, <2>4, <4>1, <4>2, <4>4, PriorityAssumption
    <3>2. CASE state[p] # "READY"
      <4>1. waited'[p] = 0
        BY <3>2 DEF CountTick, StaysReady
      <4>2. Distance(p)' <= MAX_PROCESSES - 2
        BY <2>1, DistanceAfterStep
      <4>3. ticks_remaining'[c] + MAX_PRIORITY * Distance(p)' <= Bound
        BY <2>2, <2>3, <4>2, FreshBudget, TableAssumption, PriorityAssumption
           DEF Bound
      <4> QED
        BY <2>2, <2>4, <4>1, <4>3
    <3> QED
      BY <3>1, <3>2
  <2> QED
    BY <2>1, <2>5
<1> QED
  BY <1>2, <1>3, <1>4, <1>7, <1>8 DEF TurnInv

\* A handler that returns to its caller changes no budget.
LEMMA ReturnsTurn ==
  ASSUME TurnInv, TableInv', Returns, CountNothing
  PROVE  TurnInv'
<1> TypeOK /\ TypeOK'
  BY DEF TurnInv, TableInv
<1>1. /\ current_process \in Pids /\ current_process # idle_pcb
      /\ state[current_process] = "RUNNING"
  <2>1. current_process # 0 /\ current_process # idle_pcb
    BY DEF Returns, SysCreate, SysKill, SysBlock, SysUnblock, SysNice,
           ProgramRuns
  <2> QED
    BY <2>1 DEF TurnInv, TableInv, TypeOK, OnlyCurrentRuns, Pids
<1>2. /\ UNCHANGED <<current_process, last_run_index>>
      /\ idle_pcb' \in {0, idle_pcb}
      /\ ticks_remaining'[current_process] = ticks_remaining[current_process]
  <2>1. CASE SysCreate
    BY <1>1, <2>1 DEF SysCreate, CreateFails, CreateIn, ReapedField, ReapedIdle
  <2>2. CASE ~SysCreate
    BY <2>2 DEF Returns, SysKill, SysBlock, SysUnblock, SysNice, ReturnToCaller
  <2> QED
    BY <2>1, <2>2
<1>3. idle_pcb' # idle_pcb /\ idle_pcb \in Pids => state[idle_pcb] # "READY"
  <2>1. CASE SysCreate
    BY <2>1 DEF SysCreate, ReapedIdle
  <2>2. CASE ~SysCreate
    BY <2>2 DEF Returns, SysKill, SysBlock, SysUnblock, SysNice, ReturnToCaller
  <2> QED
    BY <2>1, <2>2
<1>4. WaitedInv'
  BY <1>2, <1>3 DEF CountNothing, StaysReady, WaitedInv, TurnInv, Pids
<1>5. ScanInv'
  BY <1>1, <1>2 DEF ScanInv, TurnInv, Pids
<1>6. BudgetInv'
  <2> SUFFICES ASSUME NEW p \in Pids, state'[p] = "READY", p # idle_pcb'
               PROVE  waited'[p] + ticks_remaining[current_process]
                        + MAX_PRIORITY * Distance(p)' <= Bound
    BY <1>1, <1>2 DEF BudgetInv, Pids
  <2>1. Distance(p)' = Distance(p) /\ Distance(p) \in Int
    BY <1>2, DistanceRange DEF Distance
  <2>2. /\ MAX_PRIORITY * Distance(p) \in Int /\ Bound \in Int
        /\ ticks_remaining[current_process] \in 1..MAX_PRIORITY
    BY <1>1, <2>1, PriorityAssumption, TableAssumption DEF Bound, TypeOK
  <2>3. CASE StaysReady(p)
    BY <2>1, <2>3 DEF StaysReady, CountNothing, BudgetInv, TurnInv
  <2>4. CASE ~StaysReady(p)
    <3>1. waited'[p] = 0
      BY <2>4 DEF CountNothing
    <3>2. p # current_process
      BY <1>1, <1>2 DEF TableInv, OnlyCurrentRuns
    <3>3. Distance(p) <= MAX_PROCESSES - 2
      BY <1>1, <3>2, DistanceAfterCurrent DEF ScanInv, TurnInv, Pids
    <3>4. ticks_remaining[current_process] + MAX_PRIORITY * Distance(p) <= Bound
      BY <2>1, <2>2, <3>3, FreshBudget, TableAssumption, PriorityAssumption
         DEF Bound
    <3> QED
      BY <2>1, <2>2, <3>1, <3>4
  <2> QED
    BY <2>3, <2>4
<1>7. used' \in Nat /\ TurnMatchesPriority'
  BY <1>2 DEF CountNothing, TurnMatchesPriority, TurnInv
<1> QED
  BY <1>4, <1>5, <1>6, <1>7 DEF TurnInv

-----------------------------------------------------------------------------
LEMMA TurnInitInv == TurnInit => TurnInv
<1> SUFFICES ASSUME TurnInit PROVE TurnInv
  OBVIOUS
<1>1. Init /\ TableInv
  BY InitTable DEF TurnInit
<1>2. BudgetInv
  <2>1. \A p \in Pids : state[p] = "READY" => p = idle_pcb
    BY <1>1, TableAssumption DEF Init, Pids
  <2> QED
    BY <2>1 DEF BudgetInv
<1> QED
  BY <1>1, <1>2, TableAssumption, PriorityAssumption
     DEF TurnInit, Init, TurnInv, WaitedInv, ScanInv, TurnMatchesPriority, Pids

LEMMA TurnStep == TurnInv /\ [TurnNext]_turnVars => TurnInv'
<1> SUFFICES ASSUME TurnInv, [TurnNext]_turnVars
             PROVE  TurnInv'
  OBVIOUS
<1>1. [Next]_vars
  BY DEF TurnNext, Schedules, Returns, Next, turnVars
<1>2. TableInv'
  BY <1>1, NextTable DEF TurnInv
<1>3. CASE Schedules /\ CountTick
  <2>1. PICK st, wf :
          /\ current_process # 0
          /\ HandlerTable(st, wf) /\ schedule_tick(st, wf)
          /\ st[current_process] \in {"RUNNING", "BLOCKED", "KILLED"}
    BY <1>3, HandlerHandsOver DEF TurnInv
  <2> QED
    BY <1>2, <1>3, <2>1, KeepRunningTurn, SchedulerTurn DEF schedule_tick
<1>4. CASE Returns /\ CountNothing
  BY <1>2, <1>4, ReturnsTurn
<1>5. CASE UNCHANGED turnVars
  BY <1>5 DEF turnVars, vars, TurnInv, TableInv, TypeOK, OnlyCurrentRuns,
              WaitTargetAlive, WaitedInv, ScanInv, BudgetInv, Distance,
              TurnMatchesPriority
<1> QED
  BY <1>3, <1>4, <1>5 DEF TurnNext

\* Every READY process runs within (MAX_PROCESSES - 1) * MAX_PRIORITY ticks.
THEOREM ResponseTime == TurnSpec => []BoundedWait
<1>1. TurnInv => BoundedWait
  <2> SUFFICES ASSUME TurnInv, NEW p \in Pids
               PROVE  waited[p] < (MAX_PROCESSES - 1) * MAX_PRIORITY
    BY DEF BoundedWait
  <2>1. Bound \in Int /\ Bound >= 1
    <3>1. \A m, n \in Nat : m >= 1 /\ n >= 2 => (n - 1) * m >= 1
      OBVIOUS
    <3> QED
      BY <3>1, TableAssumption, PriorityAssumption DEF Bound
  <2>2. CASE state[p] = "READY" /\ p # idle_pcb
    <3>1. /\ waited[p] + ticks_remaining[current_process]
               + MAX_PRIORITY * Distance(p) <= Bound
          /\ current_process # 0
      BY <2>2 DEF TurnInv, BudgetInv
    <3>2. ticks_remaining[current_process] \in 1..MAX_PRIORITY
      BY <3>1 DEF TurnInv, TableInv, TypeOK, Pids
    <3>3. Distance(p) \in Nat /\ waited[p] \in Nat
      BY DistanceRange DEF TurnInv, TableInv, WaitedInv
    <3>4. MAX_PRIORITY * Distance(p) \in Nat
      BY <3>3, PriorityAssumption
    <3> QED
      BY <2>1, <3>1, <3>2, <3>3, <3>4 DEF Bound
  <2>3. CASE ~(state[p] = "READY" /\ p # idle_pcb)
    BY <2>1, <2>3 DEF TurnInv, WaitedInv, Bound
  <2> QED
    BY <2>2, <2>3
<1> QED
  BY <1>1, TurnInitInv, TurnStep, PTL DEF TurnSpec

\* Idle never holds the CPU while another process is READY.
THEOREM IdleIsFallback == TurnSpec => []IdleOnlyWhenNoneReady
<1>1. TurnInv => IdleOnlyWhenNoneReady
  BY DEF TurnInv, BudgetInv, IdleOnlyWhenNoneReady
<1> QED
  BY <1>1, TurnInitInv, TurnStep, PTL DEF TurnSpec

\* A turn has as many ticks as the priority at its start, whatever nice does.
THEOREM TurnLength == TurnSpec => []TurnMatchesPriority
<1>1. TurnInv => TurnMatchesPriority
  BY DEF TurnInv
<1> QED
  BY <1>1, TurnInitInv, TurnStep, PTL DEF TurnSpec

=============================================================================
