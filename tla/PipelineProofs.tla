--------------------------- MODULE PipelineProofs ---------------------------
(***************************************************************************)
(* The pipes under `left | right' for any number of processes, pipes,      *)
(* pages, sizes of the ring and characters: the ring keeps its bytes, the  *)
(* queues are the sleepers, no pointer outlives its page, and the whole is *)
(* a bounded FIFO channel.  Pipelines run in the foreground: with a final  *)
(* & the shell closes the pipe under its commands.  The commands make any  *)
(* call at any time, but for the unblocks and blocks that BlocksFairly     *)
(* leaves out and the pipes of others that OwnPipes leaves out, with which *)
(* the code breaks the channel.                                            *)
(***************************************************************************)
EXTENDS Pipeline, SchedulerProofs, FiniteSetTheorems, SequenceTheorems

Foreground == Modes \subseteq {"fg"}

\* Programs unblock only what was put to sleep with block, and do not block the
\* dead.
BlocksFairly == UnblocksSleepers = FALSE /\ BlocksZombies = FALSE

\* Only the two commands use the pipe, which exit_process closes at their death.
OwnPipes == SharesIds = FALSE

Live(p) == state[p] \notin {"NONE", "KILLED"}
PagesInTable == {pipe_table[id] : id \in Ids} \ {0}
ShellWaiting == waiting_for_pid[Shell] # 0

\* What the fields of a PCB say of one another: a transfer is on a page the
\* process has as its standard input or output.
PcbInv ==
  \A p \in Pids :
    /\ state[p] = "NONE" => EndsOf(p) = {} /\ call[p].op = "none"
    /\ call[p].op = "none" => call[p].page = 0
    /\ call[p].op # "none" => call[p].page \in EndsOf(p) /\ call[p].left > 0

\* Where the shell is.
Labels == {"prompt", "left", "right", "fg_left", "wait_left", "fg_right",
           "wait_right", "fg_none", "close"}
Jobs == (Pids \ {1, Shell}) \union {0}

\* Idle is alive, and in no pipe.
IdleUp == IdleInv /\ EndsOf(1) = {}

ShellInv ==
  /\ Live(Shell) /\ EndsOf(Shell) = {}
  /\ shell_pc \in Labels /\ fg_pid \in Jobs
  /\ job \in [pipe : 0..MAX_PIPES, l : Jobs, r : Jobs, mode : {"fg"}]
  /\ shell_pc = "prompt" <=> job.pipe = 0
  /\ \A id \in Ids : pipe_table[id] # 0 <=> id = job.pipe

\* Whoever waits for a process sleeps, in no transfer and not because of block,
\* or died.
WaitersSleep ==
  \A p \in Pids : waiting_for_pid[p] # 0 =>
    /\ p # 1 /\ call[p].op = "none"
    /\ SleepsInCall(p) \/ state[p] = "KILLED"

\* The shell waits where its two calls of waitpid left it.
WaitInv ==
  /\ WaitersSleep
  /\ ShellWaiting =>
       /\ state[Shell] = "BLOCKED"
       /\ \/ shell_pc = "fg_right" /\ waiting_for_pid[Shell] = job.l
          \/ shell_pc = "fg_none" /\ waiting_for_pid[Shell] = job.r

\* The two commands may be alive until the shell has waited for them.
LeftMayLive ==
  \/ shell_pc \in {"right", "fg_left", "wait_left"}
  \/ shell_pc = "fg_right" /\ ShellWaiting
RightMayLive ==
  \/ shell_pc \in {"fg_left", "wait_left", "fg_right", "wait_right"}
  \/ shell_pc = "fg_none" /\ ShellWaiting

HolderInv ==
  \A p \in Pids : Live(p) /\ EndsOf(p) # {} =>
    /\ EndsOf(p) \subseteq PagesInTable
    /\ (p = job.l /\ LeftMayLive) \/ (p = job.r /\ RightMayLive)

ActiveInv == \A g \in Pages : active[g] => g \in PagesInTable

Asleep(g, op) == {p \in Transferring(g, op) : SleepsInCall(p)}
NoRepeats(q) == \A i, j \in 1..Len(q) : q[i] = q[j] => i = j
QueueInv ==
  /\ QueuesAreSleepers
  /\ \A g \in Pages, s \in Sems : NoRepeats(blocked_pids[g][s])

\* The inductive invariant.
LineInv ==
  /\ TableInv /\ IdleUp /\ PipeTypeOK /\ PcbInv
  /\ ShellInv /\ WaitInv /\ HolderInv /\ ActiveInv
  /\ QueueInv /\ RingConserved

\* With turns of one tick a dead process is reaped before the shell runs again.
OneTick == \A p \in Pids : ticks_remaining[p] = 1 /\ priority[p] = 1
DeadInv ==
  /\ current_process = Shell => \A p \in Pids : state[p] # "KILLED"
  /\ \A p \in Pids : EndsOf(p) \subseteq PagesInTable

-----------------------------------------------------------------------------
(* Positions of the ring. *)

LEMMA MinOfTwo ==
  ASSUME NEW a \in Int, NEW b \in Int
  PROVE  /\ Min({a, b}) \in {a, b}
         /\ Min({a, b}) <= a /\ Min({a, b}) <= b
<1> DEFINE m == IF a <= b THEN a ELSE b
<1>1. m \in {a, b} /\ \A y \in {a, b} : m <= y
  OBVIOUS
<1> QED
  BY <1>1 DEF Min

\* One turn around the ring at most.
LEMMA AdvanceIs ==
  ASSUME NEW a \in Slots, NEW k \in 0..PIPE_BUFFER_SIZE
  PROVE  /\ Advance(a, k) = IF a + k < PIPE_BUFFER_SIZE THEN a + k
                            ELSE a + k - PIPE_BUFFER_SIZE
         /\ Advance(a, k) \in Slots
<1> DEFINE N == PIPE_BUFFER_SIZE
<1>1. N \in Nat \ {0} /\ a \in 0..(N - 1) /\ k \in 0..N
  BY PipeAssumption DEF Slots
<1>2. (a + k) % N = IF a + k < N THEN a + k ELSE a + k - N
  BY <1>1
<1> QED
  BY <1>1, <1>2 DEF Advance, Slots

-----------------------------------------------------------------------------
(* The process table after a handler. *)

\* A handler ends in one of two ways.
HandsOver(st, wf) ==
  /\ HandlerTable(st, wf)
  /\ st[1] \notin {"NONE", "KILLED"}
  /\ \/ schedule_tick(st, wf)
     \/ ReturnToCaller(st, wf) /\ st[current_process] = "RUNNING"

LEMMA TwoFirst == 1 \in Pids /\ Shell \in Pids
  BY TableAssumption DEF Pids, Shell

\* Nobody is woken or killed by the scheduler, but idle, which runs even when
\* somebody blocked it.
LEMMA HandsOverKeeps ==
  ASSUME TableInv, IdleInv, NEW st, NEW wf, HandsOver(st, wf), NEW p \in Pids
  PROVE  /\ p # 1 => (state'[p] = "BLOCKED" <=> st[p] = "BLOCKED")
         /\ Live(p)' <=> st[p] \notin {"NONE", "KILLED"}
         /\ waiting_for_pid'[p] \in {wf[p], 0}
         /\ Live(p)' => waiting_for_pid'[p] = wf[p]
<1> TypeOK /\ HandlerTable(st, wf) /\ 1 \in Pids
  BY TwoFirst DEF TableInv, HandsOver
<1>1. CASE ReturnToCaller(st, wf)
  BY <1>1 DEF ReturnToCaller, Live
<1>2. CASE KeepRunning(st, wf)
  BY <1>2 DEF KeepRunning, Live
<1>3. CASE scheduler(st, wf)
  <2> DEFINE base == Reaped(Preempted(st))
  <2>1. \A q \in Pids :
          /\ base[q] = "BLOCKED" <=> st[q] = "BLOCKED"
          /\ base[q] \notin {"NONE", "KILLED"} <=> st[q] \notin {"NONE", "KILLED"}
    BY DEF Reaped, Preempted, HandlerTable, States
  <2>2. base \in [Pids -> States]
    BY ReapedTable
  <2>3. \/ state' = base
        \/ \E q \in Pids : /\ base[q] \notin {"NONE", "KILLED"}
                           /\ q = 1 \/ base[q] # "BLOCKED"
                           /\ state' = [base EXCEPT ![q] = "RUNNING"]
    <3>1. CASE RunNext(st)
      <4>1. PICK q \in Candidates(Preempted(st)) : Dispatch(q, st, priority[q])
        BY <3>1 DEF RunNext
      <4> QED
        BY <4>1 DEF Candidates, Reaped, Dispatch
    <3>2. CASE RunIdle(st)
      <4>1. ReapedIdle(st) = 1
        BY DEF ReapedIdle, IdleInv, HandsOver
      <4>2. base[1] \notin {"NONE", "KILLED"}
        BY <2>1 DEF HandsOver
      <4> QED
        BY <3>2, <4>1, <4>2 DEF RunIdle, Dispatch
    <3>3. CASE RunNobody(st)
      BY <3>3 DEF RunNobody
    <3> QED
      BY <1>3, <3>1, <3>2, <3>3 DEF scheduler
  <2>4. waiting_for_pid' = ReapedField(wf, st, 0)
    BY <1>3 DEF scheduler
  <2> HIDE DEF base
  <2>5. /\ p # 1 => (state'[p] = "BLOCKED" <=> base[p] = "BLOCKED")
        /\ state'[p] \notin {"NONE", "KILLED"} <=> base[p] \notin {"NONE", "KILLED"}
    BY <2>2, <2>3
  <2> QED
    BY <2>1, <2>4, <2>5 DEF ReapedField, Live
<1> QED
  BY <1>1, <1>2, <1>3 DEF HandsOver, schedule_tick

LEMMA HandsOverTable ==
  ASSUME TableInv, IdleInv, NEW st, NEW wf, HandsOver(st, wf)
  PROVE  TableInv' /\ IdleInv'
<1> TypeOK /\ HandlerTable(st, wf) /\ 1 \in Pids /\ current_process # 0
  BY TwoFirst DEF TableInv, HandsOver, IdleInv
<1>1. CASE schedule_tick(st, wf)
  BY <1>1, ScheduleTickTable, ScheduleTickIdle DEF HandsOver
<1>2. CASE ReturnToCaller(st, wf) /\ st[current_process] = "RUNNING"
  BY <1>2, ReturnTable DEF ReturnToCaller, IdleInv, HandsOver
<1> QED
  BY <1>1, <1>2 DEF HandsOver

LEMMA ThenBlock ==
  ASSUME TypeOK, NEW st, NEW wf, HandlerTable(st, wf),
         NEW p \in Pids, st[p] # "NONE"
  PROVE  /\ HandlerTable(block_process(st, p), wf)
         /\ \A q \in Pids : block_process(st, p)[q] =
              IF q = p THEN "BLOCKED" ELSE st[q]
  BY DEF HandlerTable, block_process, States, Pids

\* The current process, waking those of S, kills p.
LEMMA ThenExit ==
  ASSUME TableInv, NEW S, NEW p \in Pids, state[p] # "NONE"
  PROVE  /\ HandlerTable(exit_process(unblock_process(state, S), p), StopWaiting(p))
         /\ \A q \in Pids :
              exit_process(unblock_process(state, S), p)[q] =
                IF q = p THEN "KILLED"
                ELSE IF state[q] = "BLOCKED" /\ (q \in S \/ waiting_for_pid[q] = p)
                THEN "READY" ELSE state[q]
         /\ \A q \in Pids : StopWaiting(p)[q] =
              IF waiting_for_pid[q] = p THEN 0 ELSE waiting_for_pid[q]
<1> DEFINE st == exit_process(unblock_process(state, S), p)
           wf == StopWaiting(p)
<1>0. \A q \in Pids : /\ waiting_for_pid[q] \in 0..MAX_PROCESSES
                      /\ waiting_for_pid[q] # 0 => state[q] # "NONE"
  BY DEF TableInv, TypeOK, WaitTargetAlive
<1>1. \A q \in Pids : st[q] =
        IF q = p THEN "KILLED"
        ELSE IF state[q] = "BLOCKED" /\ (q \in S \/ waiting_for_pid[q] = p)
        THEN "READY" ELSE state[q]
  BY <1>0 DEF exit_process, unblock_process, Waiters, Pids
<1>2. wf = [q \in Pids |-> IF waiting_for_pid[q] = p THEN 0 ELSE waiting_for_pid[q]]
  BY <1>0 DEF StopWaiting, Waiters, Pids
<1>3. st \in [Pids -> States]
  BY DEF exit_process, unblock_process, TableInv, TypeOK, States
<1> HIDE DEF st, wf
<1>4. HandlerTable(st, wf)
  <2>1. wf \in [Pids -> 0..MAX_PROCESSES]
    BY <1>0, <1>2, TableAssumption
  <2>2. \A q \in Pids : st[q] = "RUNNING" => q = current_process
    BY <1>1 DEF TableInv, OnlyCurrentRuns
  <2>3. ASSUME NEW q \in Pids, wf[q] # 0
        PROVE  st[q] # "NONE" /\ st[wf[q]] \notin {"NONE", "KILLED"}
    <3>1. wf[q] = waiting_for_pid[q] /\ wf[q] # p /\ wf[q] \in Pids
      BY <1>0, <1>2, <2>3 DEF Pids
    <3>2. state[q] # "NONE" /\ state[wf[q]] \notin {"NONE", "KILLED"}
      BY <2>3, <3>1 DEF TableInv, WaitTargetAlive
    <3> QED
      BY <1>1, <3>1, <3>2
  <2> QED
    BY <1>3, <2>1, <2>2, <2>3 DEF HandlerTable
<1> QED
  BY <1>1, <1>2, <1>4 DEF st, wf

\* create_process, as far as the other processes are concerned.
LEMMA CreateKeeps ==
  ASSUME TableInv, IdleInv,
         InProgram, idle_pcb' = ReapedIdle(state),
         UNCHANGED <<current_process, last_run_index>>,
         NEW new, (CreateFails /\ new = 0) \/ (new \in Pids /\ CreateIn(new))
  PROVE  /\ TableInv' /\ IdleInv'
         /\ new \notin {1, current_process}
         /\ \A p \in Pids : p # new =>
              /\ state'[p] = IF state[p] = "KILLED" THEN "NONE" ELSE state[p]
              /\ waiting_for_pid'[p] = IF Live(p) THEN waiting_for_pid[p] ELSE 0
         /\ new # 0 => /\ ~Live(new)
                       /\ state'[new] = "READY" /\ waiting_for_pid'[new] = 0
<1> 1 \in Pids /\ state \in [Pids -> States]
  BY TwoFirst DEF TableInv, TypeOK
<1>1. SysCreate
  BY DEF SysCreate, InProgram
<1>2. TableInv'
  BY <1>1, SysCreateTable
<1>3. waiting_for_pid' = ReapedField(waiting_for_pid, state, 0)
  BY DEF CreateFails, CreateIn
<1>4. CASE CreateFails /\ new = 0
  <2>1. \A p \in Pids : state'[p] = IF state[p] = "KILLED" THEN "NONE" ELSE state[p]
    BY <1>4 DEF CreateFails, Reaped
  <2> QED
    BY <1>2, <1>3, <1>4, <2>1
       DEF IdleInv, ReapedIdle, ReapedField, Live, InProgram, ProgramRuns, Pids
<1>5. CASE new \in Pids /\ CreateIn(new)
  <2>1. /\ state[new] \in {"KILLED", "NONE"}
        /\ \A p \in Pids : state'[p] =
             IF p = new THEN "READY"
             ELSE IF state[p] = "KILLED" THEN "NONE" ELSE state[p]
    BY <1>5 DEF CreateIn, Reaped
  <2>2. new # current_process /\ new # 1 /\ new # 0
    BY <2>1, <1>5 DEF IdleInv, InProgram, ProgramRuns, TableInv, OnlyCurrentRuns, Pids
  <2> QED
    BY <1>2, <1>3, <1>5, <2>1, <2>2 DEF IdleInv, ReapedIdle, ReapedField, Live
<1> QED
  BY <1>4, <1>5

-----------------------------------------------------------------------------
(* The PCBs, and the shell's line, after a step of the others. *)

Transfers == [op : {"none", "read", "write"}, page : Pages \union {0}, left : Nat]

PcbTypes ==
  /\ pipe_in \in [Pids -> Pages \union {0}]
  /\ pipe_out \in [Pids -> Pages \union {0}]
  /\ call \in [Pids -> Transfers]
  /\ stopped \in SUBSET {p \in Pids : state[p] = "BLOCKED"}

RingTypes ==
  /\ pipe_table \in [Ids -> Pages \union {0}]
  /\ buffer \in [Pages -> [Slots -> Chars]]
  /\ read_pos \in [Pages -> Slots]
  /\ write_pos \in [Pages -> Slots]
  /\ active \in [Pages -> BOOLEAN]
  /\ status \in [Pages -> [Sems -> Int]]
  /\ blocked_pids \in [Pages -> [Sems -> Seq(Pids)]]

LEMMA TypesSplit == PipeTypeOK <=> TypeOK /\ RingTypes /\ PcbTypes
  BY DEF PipeTypeOK, RingTypes, PcbTypes, Transfers

\* A change of `call' that PcbInv allows.
CallsOK(cl) ==
  /\ cl \in [Pids -> Transfers]
  /\ \A p \in Pids :
       /\ cl[p].op = "none" => cl[p].page = 0
       /\ cl[p].op # "none" => cl[p].page \in EndsOf(p) /\ cl[p].left > 0

LEMMA SameCalls == ASSUME PcbTypes, PcbInv PROVE CallsOK(call)
  BY DEF PcbTypes, PcbInv, CallsOK

LEMMA PcbsKept ==
  ASSUME PcbTypes, NEW cl, CallsOK(cl), PcbFields(cl),
         NEW S \in SUBSET Pids, Stopped(S)
  PROVE  /\ PcbTypes' /\ PcbInv'
         /\ \A p \in Pids :
              /\ EndsOf(p)' = IF state'[p] = "NONE" THEN {} ELSE EndsOf(p)
              /\ call'[p] = IF state'[p] = "NONE" THEN NoCall ELSE cl[p]
<1>1. NoCall \in Transfers /\ NoCall.op = "none" /\ NoCall.page = 0
  BY DEF NoCall, Transfers
<1>2. PcbTypes'
  <2>1. stopped' \in SUBSET {p \in Pids : state'[p] = "BLOCKED"}
    BY DEF Stopped
  <2> QED
    BY <1>1, <2>1 DEF PcbTypes, CallsOK, PcbFields
<1>3. \A p \in Pids :
        /\ EndsOf(p)' = IF state'[p] = "NONE" THEN {} ELSE EndsOf(p)
        /\ call'[p] = IF state'[p] = "NONE" THEN NoCall ELSE cl[p]
  BY DEF PcbFields, EndsOf
<1>4. PcbInv'
  <2> SUFFICES ASSUME NEW p \in Pids
               PROVE  /\ state'[p] = "NONE" => EndsOf(p)' = {} /\ call'[p].op = "none"
                      /\ call'[p].op = "none" => call'[p].page = 0
                      /\ call'[p].op # "none" => /\ call'[p].page \in EndsOf(p)'
                                                 /\ call'[p].left > 0
    BY DEF PcbInv
  <2> QED
    BY <1>1, <1>3 DEF CallsOK
<1> QED
  BY <1>2, <1>3, <1>4

\* A step that hands over a table; S is who may sleep because of block.
LEMMA StepLeaves ==
  ASSUME LineInv, NEW st, NEW wf, HandsOver(st, wf),
         NEW cl, CallsOK(cl), PcbFields(cl), NEW S \in SUBSET Pids, Stopped(S)
  PROVE  /\ TableInv' /\ IdleUp' /\ PcbTypes' /\ PcbInv'
         /\ \A p \in Pids :
              /\ p # 1 => /\ state'[p] = "BLOCKED" <=> st[p] = "BLOCKED"
                          /\ SleepsInCall(p)' <=> st[p] = "BLOCKED" /\ p \notin S
              /\ Live(p)' <=> st[p] \notin {"NONE", "KILLED"}
              /\ waiting_for_pid'[p] \in {wf[p], 0}
              /\ EndsOf(p)' \subseteq EndsOf(p)
              /\ call'[p] \in {cl[p], NoCall}
              /\ Live(p)' => /\ waiting_for_pid'[p] = wf[p]
                             /\ EndsOf(p)' = EndsOf(p)
                             /\ call'[p] = cl[p]
<1> TableInv /\ IdleInv /\ PcbTypes /\ EndsOf(1) = {} /\ 1 \in Pids
  BY TypesSplit, TwoFirst DEF LineInv, IdleUp
<1>1. TableInv' /\ IdleInv'
  BY HandsOverTable
<1>2. /\ PcbTypes' /\ PcbInv'
      /\ \A p \in Pids :
              /\ EndsOf(p)' = IF state'[p] = "NONE" THEN {} ELSE EndsOf(p)
              /\ call'[p] = IF state'[p] = "NONE" THEN NoCall ELSE cl[p]
  BY PcbsKept
<1>3. \A p \in Pids :
              /\ p # 1 => (state'[p] = "BLOCKED" <=> st[p] = "BLOCKED")
              /\ Live(p)' <=> st[p] \notin {"NONE", "KILLED"}
              /\ waiting_for_pid'[p] \in {wf[p], 0}
              /\ Live(p)' => waiting_for_pid'[p] = wf[p]
  BY HandsOverKeeps
<1>4. \A p \in Pids : Live(p)' => state'[p] # "NONE"
  BY DEF Live
<1>5. EndsOf(1)' = {}
  BY <1>2
<1>6. \A p \in Pids : SleepsInCall(p)' <=> state'[p] = "BLOCKED" /\ p \notin S
  BY DEF Stopped, SleepsInCall
<1> QED
  BY <1>1, <1>2, <1>3, <1>4, <1>5, <1>6 DEF IdleUp

\* The same when nobody new is put to sleep by block.
LEMMA StepKeeps ==
  ASSUME LineInv, NEW st, NEW wf, HandsOver(st, wf),
         NEW cl, CallsOK(cl), KeepPcbs(cl)
  PROVE  /\ TableInv' /\ IdleUp' /\ PcbTypes' /\ PcbInv'
         /\ \A p \in Pids :
              /\ p # 1 => /\ state'[p] = "BLOCKED" <=> st[p] = "BLOCKED"
                          /\ SleepsInCall(p)' <=> st[p] = "BLOCKED" /\ p \notin stopped
              /\ Live(p)' <=> st[p] \notin {"NONE", "KILLED"}
              /\ waiting_for_pid'[p] \in {wf[p], 0}
              /\ EndsOf(p)' \subseteq EndsOf(p)
              /\ call'[p] \in {cl[p], NoCall}
              /\ Live(p)' => /\ waiting_for_pid'[p] = wf[p]
                             /\ EndsOf(p)' = EndsOf(p)
                             /\ call'[p] = cl[p]
<1>1. PICK S \in SUBSET Pids : S = stopped
  BY TypesSplit DEF LineInv, PcbTypes
<1>2. PcbFields(cl) /\ Stopped(S)
  BY <1>1 DEF KeepPcbs
<1> QED
  BY <1>1, <1>2, StepLeaves

\* Waits that a handler leaves to people who sleep for them.
WaitersOK(st, wf, cl, S) ==
  \A p \in Pids : wf[p] # 0 =>
    /\ p # 1 /\ cl[p].op = "none"
    /\ (st[p] = "BLOCKED" /\ p \notin S) \/ st[p] = "KILLED"

LEMMA WaitersKept ==
  ASSUME LineInv, NEW st, NEW wf, HandsOver(st, wf),
         NEW cl, CallsOK(cl), PcbFields(cl), NEW S \in SUBSET Pids, Stopped(S),
         WaitersOK(st, wf, cl, S)
  PROVE  WaitersSleep'
<1> SUFFICES ASSUME NEW p \in Pids, waiting_for_pid'[p] # 0
             PROVE  /\ p # 1 /\ call'[p].op = "none"
                    /\ SleepsInCall(p)' \/ state'[p] = "KILLED"
  BY DEF WaitersSleep
<1>1. /\ TableInv'
      /\ p # 1 => (SleepsInCall(p)' <=> st[p] = "BLOCKED" /\ p \notin S)
      /\ Live(p)' <=> st[p] \notin {"NONE", "KILLED"}
      /\ waiting_for_pid'[p] \in {wf[p], 0}
      /\ call'[p] \in {cl[p], NoCall}
  BY StepLeaves
<1>2. /\ p # 1 /\ cl[p].op = "none"
      /\ (st[p] = "BLOCKED" /\ p \notin S) \/ st[p] = "KILLED"
  BY <1>1 DEF WaitersOK
<1>3. state'[p] # "NONE"
  BY <1>1 DEF TableInv, WaitTargetAlive
<1>4. call'[p].op = "none"
  BY <1>1, <1>2 DEF NoCall
<1> QED
  BY <1>1, <1>2, <1>3, <1>4 DEF Live

\* Nothing happens to those who wait.
LEMMA WaitersStay ==
  ASSUME LineInv, NEW st, NEW wf, NEW cl,
         \A p \in Pids : wf[p] # 0 => /\ wf[p] = waiting_for_pid[p]
                                      /\ cl[p] = call[p]
                                      /\ st[p] = state[p] \/ st[p] = "KILLED"
  PROVE  WaitersOK(st, wf, cl, stopped)
  BY DEF LineInv, WaitInv, WaitersSleep, WaitersOK, SleepsInCall

\* A step of the commands or of the kernel leaves the shell's line as it is.
LEMMA OthersKeepLine ==
  ASSUME LineInv, UNCHANGED <<shell_pc, job, pipe_table>>, fg_pid' \in {fg_pid, 0},
         \A g \in Pages : active'[g] => active[g],
         \A p \in Pids : Live(p)' /\ EndsOf(p)' # {} =>
                           Live(p) /\ EndsOf(p)' = EndsOf(p),
         Live(Shell)', EndsOf(Shell)' = {}, WaitersSleep',
         waiting_for_pid'[Shell] \in {waiting_for_pid[Shell], 0},
         ShellWaiting =>
           \/ ShellWaiting' /\ state'[Shell] = "BLOCKED"
           \/ /\ ~ShellWaiting'
              /\ \A p \in Pids : p = waiting_for_pid[Shell] => ~Live(p)'
  PROVE  ShellInv' /\ WaitInv' /\ HolderInv' /\ ActiveInv'
<1> Shell \in Pids
  BY TwoFirst
<1>1. PagesInTable' = PagesInTable
  BY DEF PagesInTable
<1>2. ShellInv'
  BY DEF LineInv, ShellInv, Jobs
<1>3. WaitInv'
  BY DEF LineInv, WaitInv, ShellWaiting
<1>4. HolderInv'
  <2> SUFFICES ASSUME NEW p \in Pids, Live(p)', EndsOf(p)' # {}
               PROVE  /\ EndsOf(p)' \subseteq PagesInTable'
                      /\ (p = job'.l /\ LeftMayLive') \/ (p = job'.r /\ RightMayLive')
    BY DEF HolderInv
  <2>1. /\ EndsOf(p)' \subseteq PagesInTable
        /\ (p = job.l /\ LeftMayLive) \/ (p = job.r /\ RightMayLive)
    BY DEF LineInv, HolderInv
  <2>2. CASE ShellWaiting => ShellWaiting'
    BY <1>1, <2>1, <2>2 DEF LeftMayLive, RightMayLive
  <2>3. CASE ShellWaiting /\ ~ShellWaiting'
    <3>1. p # waiting_for_pid[Shell]
      BY <2>3
    <3>2. \/ shell_pc = "fg_right" /\ waiting_for_pid[Shell] = job.l
          \/ shell_pc = "fg_none" /\ waiting_for_pid[Shell] = job.r
      BY <2>3 DEF LineInv, WaitInv
    <3> QED
      BY <1>1, <2>1, <3>1, <3>2 DEF LeftMayLive, RightMayLive
  <2> QED
    BY <2>2, <2>3
<1>5. ActiveInv'
  BY <1>1 DEF LineInv, ActiveInv
<1> QED
  BY <1>2, <1>3, <1>4, <1>5

\* The same of a step that hands over a table.
LEMMA OthersStep ==
  ASSUME LineInv, NEW st, NEW wf, HandsOver(st, wf),
         NEW cl, CallsOK(cl), PcbFields(cl), NEW S \in SUBSET Pids, Stopped(S),
         UNCHANGED <<shell_pc, job, pipe_table>>, fg_pid' \in {fg_pid, 0},
         \A g \in Pages : active'[g] => active[g],
         \A p \in Pids : st[p] \notin {"NONE", "KILLED"} => Live(p),
         WaitersOK(st, wf, cl, S), wf[Shell] \in {waiting_for_pid[Shell], 0},
         st[Shell] \notin {"NONE", "KILLED"},
         ShellWaiting => \/ wf[Shell] # 0 /\ st[Shell] = "BLOCKED"
                         \/ /\ wf[Shell] = 0
                            /\ st[waiting_for_pid[Shell]] = "KILLED"
  PROVE  /\ TableInv' /\ IdleUp' /\ PcbTypes' /\ PcbInv'
         /\ ShellInv' /\ WaitInv' /\ HolderInv' /\ ActiveInv'
<1> Shell \in Pids /\ Shell # 1
  BY TwoFirst DEF Shell
<1>1. /\ TableInv' /\ IdleUp' /\ PcbTypes' /\ PcbInv'
      /\ \A p \in Pids :
              /\ p # 1 => (state'[p] = "BLOCKED" <=> st[p] = "BLOCKED")
              /\ Live(p)' <=> st[p] \notin {"NONE", "KILLED"}
              /\ EndsOf(p)' \subseteq EndsOf(p)
              /\ Live(p)' => /\ waiting_for_pid'[p] = wf[p]
                             /\ EndsOf(p)' = EndsOf(p)
  BY StepLeaves
<1>2. /\ Live(Shell)' /\ EndsOf(Shell)' = {}
      /\ waiting_for_pid'[Shell] = wf[Shell]
  BY <1>1 DEF LineInv, ShellInv
<1>3. ShellWaiting =>
        \/ ShellWaiting' /\ state'[Shell] = "BLOCKED"
        \/ /\ ~ShellWaiting'
           /\ \A p \in Pids : p = waiting_for_pid[Shell] => ~Live(p)'
  <2>1. ShellWaiting => waiting_for_pid[Shell] \in Pids
    BY DEF LineInv, TableInv, TypeOK, ShellWaiting, Pids
  <2>2. ShellWaiting' <=> wf[Shell] # 0
    BY <1>2 DEF ShellWaiting
  <2> QED
    BY <1>1, <2>1, <2>2
<1>4. \A p \in Pids : Live(p)' /\ EndsOf(p)' # {} =>
                         Live(p) /\ EndsOf(p)' = EndsOf(p)
  BY <1>1
<1>5. WaitersSleep'
  BY WaitersKept
<1> QED
  BY <1>1, <1>2, <1>3, <1>4, <1>5, OthersKeepLine

-----------------------------------------------------------------------------
(* The rings: when nothing happens to them, when some are closed and when   *)
(* one is opened.                                                           *)

Ops == {"read", "write"}

LEMMA SemOps ==
  /\ \A op \in Ops : WaitsOn(op) \in Sems /\ Posts(op) \in Sems
  /\ \A op \in Ops : WaitsOn(op) # Posts(op)
  /\ \A s \in Sems : \E op \in Ops : s = WaitsOn(op)
  BY DEF Ops, Sems, WaitsOn, Posts

LEMMA TransferringFinite ==
  \A g, op : /\ IsFiniteSet(Transferring(g, op))
             /\ Cardinality(Transferring(g, op)) \in Nat
<1>1. IsFiniteSet(Pids)
  BY FS_Interval, TableAssumption DEF Pids
<1> SUFFICES ASSUME NEW g, NEW op
             PROVE  /\ IsFiniteSet(Transferring(g, op))
                    /\ Cardinality(Transferring(g, op)) \in Nat
  OBVIOUS
<1>2. Transferring(g, op) \subseteq Pids
  BY DEF Transferring
<1> QED
  BY <1>1, <1>2, FS_Subset, FS_CardinalityType

\* The step of the channels that a step of the pipes is.
ChannelStep == [Channel!Next]_(Channel!channelVars)

LEMMA RingsKept ==
  ASSUME LineInv, UNCHANGED pipeVars,
         \A g \in Pages, op \in Ops :
           /\ active[g] => Transferring(g, op)' = Transferring(g, op)
           /\ Asleep(g, op)' = Asleep(g, op)
  PROVE  RingTypes' /\ QueueInv' /\ RingConserved' /\ ChannelStep
<1> RingTypes /\ QueueInv /\ RingConserved
  BY TypesSplit DEF LineInv
<1> USE DEF pipeVars, ringVars
<1>1. RingTypes'
  BY DEF RingTypes
<1>2. QueueInv'
  BY DEF QueueInv, QueuesAreSleepers, Sleepers, Asleep, Ops
<1>3. \A g \in Pages : active[g] => Stored(g)' = Stored(g) /\ Room(g)' = Room(g)
  BY DEF Stored, Room, Ops
<1>4. RingConserved'
  BY <1>3 DEF RingConserved
<1>5. \A g \in Pages : Content(g)' = Content(g)
  BY <1>3 DEF Content
<1>6. UNCHANGED Channel!channelVars
  BY <1>5 DEF Channel!channelVars
<1> QED
  BY <1>1, <1>2, <1>4, <1>6 DEF ChannelStep

LEMMA RingsClosed ==
  ASSUME LineInv, NEW G \in SUBSET Pages, pipe_close(G),
         pipe_table' \in [Ids -> Pages \union {0}],
         \A g \in Pages, op \in Ops :
           IF g \in G THEN Asleep(g, op)' = {}
           ELSE /\ Transferring(g, op)' = Transferring(g, op)
                /\ Asleep(g, op)' = Asleep(g, op)
  PROVE  RingTypes' /\ QueueInv' /\ RingConserved' /\ ChannelStep
<1> RingTypes /\ QueueInv /\ RingConserved
  BY TypesSplit DEF LineInv
<1>1. RingTypes'
  BY EmptySeq, LenProperties DEF RingTypes, pipe_close, ringVars
<1>2. QueueInv'
  <2>1. ASSUME NEW g \in Pages, NEW op \in Ops, g \in G
        PROVE  /\ ToSet(blocked_pids'[g][WaitsOn(op)]) = Asleep(g, op)'
               /\ Len(blocked_pids'[g][WaitsOn(op)]) = Sleepers(g, WaitsOn(op))'
    <3>1. /\ blocked_pids'[g][WaitsOn(op)] = <<>>
          /\ status'[g][WaitsOn(op)] =
               status[g][WaitsOn(op)] + Len(blocked_pids[g][WaitsOn(op)])
      BY <2>1, SemOps DEF pipe_close
    <3>2. Len(blocked_pids[g][WaitsOn(op)]) = Sleepers(g, WaitsOn(op))
      BY DEF QueueInv, QueuesAreSleepers, Ops
    <3>3. status[g][WaitsOn(op)] \in Int
      BY SemOps DEF RingTypes
    <3>4. Sleepers(g, WaitsOn(op))' = 0
      BY <3>1, <3>2, <3>3 DEF Sleepers
    <3>5. ToSet(<<>>) = {}
      BY EmptySeq DEF ToSet
    <3> QED
      BY <2>1, <3>1, <3>4, <3>5
  <2>2. ASSUME NEW g \in Pages, NEW op \in Ops, g \notin G
        PROVE  /\ ToSet(blocked_pids'[g][WaitsOn(op)]) = Asleep(g, op)'
               /\ Len(blocked_pids'[g][WaitsOn(op)]) = Sleepers(g, WaitsOn(op))'
    BY <2>2, SemOps DEF pipe_close, QueueInv, QueuesAreSleepers, Asleep, Sleepers, Ops
  <2>3. \A g \in Pages, s \in Sems : NoRepeats(blocked_pids'[g][s])
    <3>1. NoRepeats(<<>>)
      BY EmptySeq DEF NoRepeats
    <3>2. \A g \in Pages, s \in Sems :
            blocked_pids'[g][s] = <<>> \/ blocked_pids'[g][s] = blocked_pids[g][s]
      BY DEF pipe_close
    <3> QED
      BY <3>1, <3>2 DEF QueueInv
  <2> QED
    BY <2>1, <2>2, <2>3 DEF QueueInv, QueuesAreSleepers, Asleep, Ops
<1>3. \A g \in Pages : active'[g] =>
        /\ active[g] /\ g \notin G
        /\ Stored(g)' = Stored(g) /\ Room(g)' = Room(g)
  BY DEF Stored, Room, Ops, Sems, pipe_close
<1>4. RingConserved'
  BY <1>3 DEF RingConserved, pipe_close, ringVars
<1>5. \A g \in Pages : Content(g)' = IF g \in G THEN <<>> ELSE Content(g)
  <2>1. \A g \in Pages : active'[g] <=> active[g] /\ g \notin G
    BY DEF pipe_close
  <2> QED
    BY <1>3, <2>1 DEF Content, pipe_close, ringVars
<1>6. Channel!Close(G)
  BY <1>5 DEF Channel!Close, pipe_close
<1> QED
  BY <1>1, <1>2, <1>4, <1>6 DEF ChannelStep, Channel!Next

LEMMA RingOpened ==
  ASSUME LineInv, NEW g \in Pages, PipeCreate(g), ~active[g],
         pipe_table' \in [Ids -> Pages \union {0}],
         \A op \in Ops : Transferring(g, op)' = {} /\ Asleep(g, op)' = {},
         \A h \in Pages \ {g}, op \in Ops :
           /\ active[h] => Transferring(h, op)' = Transferring(h, op)
           /\ Asleep(h, op)' = Asleep(h, op)
  PROVE  RingTypes' /\ QueueInv' /\ RingConserved' /\ ChannelStep
<1> RingTypes /\ QueueInv /\ RingConserved
  BY TypesSplit DEF LineInv
<1>0. /\ PIPE_BUFFER_SIZE \in Nat \ {0} /\ 0 \in Slots
      /\ 0 \in 0..PIPE_BUFFER_SIZE
  BY PipeAssumption DEF Slots
<1>1. RingTypes'
  BY <1>0, EmptySeq DEF RingTypes, PipeCreate
<1>2. QueueInv'
  <2>1. ASSUME NEW op \in Ops
        PROVE  /\ ToSet(blocked_pids'[g][WaitsOn(op)]) = Asleep(g, op)'
               /\ Len(blocked_pids'[g][WaitsOn(op)]) = Sleepers(g, WaitsOn(op))'
    <3>1. /\ blocked_pids'[g][WaitsOn(op)] = <<>>
          /\ status'[g][WaitsOn(op)] \in {0, PIPE_BUFFER_SIZE}
      BY SemOps DEF PipeCreate, RingTypes
    <3>2. Sleepers(g, WaitsOn(op))' = 0
      BY <1>0, <3>1 DEF Sleepers
    <3> QED
      BY <3>1, <3>2, EmptySeq DEF ToSet
  <2>2. ASSUME NEW h \in Pages, NEW op \in Ops, h # g
        PROVE  /\ ToSet(blocked_pids'[h][WaitsOn(op)]) = Asleep(h, op)'
               /\ Len(blocked_pids'[h][WaitsOn(op)]) = Sleepers(h, WaitsOn(op))'
    <3>1. blocked_pids'[h] = blocked_pids[h] /\ status'[h] = status[h]
      BY <2>2 DEF PipeCreate, RingTypes
    <3>2. /\ ToSet(blocked_pids[h][WaitsOn(op)]) = Asleep(h, op)
          /\ Len(blocked_pids[h][WaitsOn(op)]) = Sleepers(h, WaitsOn(op))
      BY DEF QueueInv, QueuesAreSleepers, Asleep, Ops
    <3>3. Asleep(h, op)' = Asleep(h, op)
      BY <2>2
    <3> QED
      BY <3>1, <3>2, <3>3 DEF Sleepers
  <2>3. \A h \in Pages, s \in Sems : NoRepeats(blocked_pids'[h][s])
    BY EmptySeq DEF QueueInv, NoRepeats, PipeCreate, RingTypes
  <2> QED
    BY <2>1, <2>2, <2>3 DEF QueueInv, QueuesAreSleepers, Asleep, Ops
<1>3. \A h \in Pages \ {g} :
        /\ active'[h] = active[h] /\ read_pos'[h] = read_pos[h]
        /\ write_pos'[h] = write_pos[h] /\ status'[h] = status[h]
  BY DEF PipeCreate, RingTypes
<1>4. \A h \in Pages \ {g} :
        active[h] => Stored(h)' = Stored(h) /\ Room(h)' = Room(h)
  BY <1>3 DEF Stored, Room, Ops
<1>5. /\ active'[g] /\ read_pos'[g] = 0 /\ write_pos'[g] = 0
      /\ Stored(g)' = 0 /\ Room(g)' = PIPE_BUFFER_SIZE
  <2>1. Cardinality({}) = 0
    BY FS_EmptySet
  <2>2. status'[g]["full"] = 0 /\ status'[g]["empty"] = PIPE_BUFFER_SIZE
    BY DEF PipeCreate, RingTypes, Sems
  <2>3. Transferring(g, "read")' = {} /\ Transferring(g, "write")' = {}
    BY DEF Ops
  <2>4. /\ active'[g] /\ read_pos'[g] = 0 /\ write_pos'[g] = 0
    BY DEF PipeCreate, RingTypes
  <2>5. Stored(g)' = 0 + 0 /\ Room(g)' = PIPE_BUFFER_SIZE + 0
    BY <2>1, <2>2, <2>3 DEF Stored, Room
  <2> QED
    BY <1>0, <2>4, <2>5
<1>6. RingConserved'
  <2>1. Advance(0, 0) = 0
    BY <1>0, AdvanceIs
  <2>2. ASSUME NEW h \in Pages, active'[h]
        PROVE  /\ Stored(h)' \in 0..PIPE_BUFFER_SIZE
               /\ Stored(h)' + Room(h)' = PIPE_BUFFER_SIZE
               /\ write_pos'[h] = Advance(read_pos'[h], Stored(h)')
    BY <1>0, <1>3, <1>4, <1>5, <2>1, <2>2 DEF RingConserved
  <2> QED
    BY <2>2 DEF RingConserved, Advance
<1>7. \A h \in Pages : Content(h)' = IF h = g THEN <<>> ELSE Content(h)
  <2>1. UNCHANGED buffer
    BY DEF PipeCreate
  <2>2. Content(g)' = <<>>
    BY <1>5, <1>0 DEF Content
  <2>3. \A h \in Pages \ {g} : Content(h)' = Content(h)
    BY <1>3, <1>4, <2>1 DEF Content
  <2> QED
    BY <2>2, <2>3
<1>8. Channel!Open(g)
  BY <1>7 DEF Channel!Open, PipeCreate, RingTypes
<1> QED
  BY <1>1, <1>2, <1>6, <1>8 DEF ChannelStep, Channel!Next

-----------------------------------------------------------------------------
(* Queues without repetitions. *)

LEMMA QueueSize ==
  ASSUME NEW q \in Seq(Pids), NoRepeats(q)
  PROVE  Cardinality(ToSet(q)) = Len(q)
<1>1. /\ Len(q) \in Nat /\ q \in [1..Len(q) -> Pids] /\ DOMAIN q = 1..Len(q)
  BY LenProperties
<1>2. q \in Bijection(1..Len(q), ToSet(q))
  <2>1. q \in [1..Len(q) -> ToSet(q)]
    BY <1>1 DEF ToSet
  <2>2. \A a, b \in 1..Len(q) : q[a] = q[b] => a = b
    BY DEF NoRepeats
  <2>3. \A t \in ToSet(q) : \E a \in 1..Len(q) : q[a] = t
    BY <1>1 DEF ToSet
  <2> QED
    BY <1>1, <2>1, <2>2, <2>3 DEF Bijection, Injection, Surjection, IsInjective
<1> QED
  BY <1>1, <1>2, FS_CountingElements DEF ExistsBijection

LEMMA QueueAppend ==
  ASSUME NEW q \in Seq(Pids), NoRepeats(q), NEW p \in Pids, p \notin ToSet(q)
  PROVE  /\ Append(q, p) \in Seq(Pids) /\ NoRepeats(Append(q, p))
         /\ Len(Append(q, p)) = Len(q) + 1
         /\ ToSet(Append(q, p)) = ToSet(q) \union {p}
<1> DEFINE r == Append(q, p)
<1>1. /\ Len(q) \in Nat /\ DOMAIN q = 1..Len(q)
  BY LenProperties
<1>2. /\ r \in Seq(Pids) /\ Len(r) = Len(q) + 1
      /\ \A i \in 1..Len(q) : r[i] = q[i]
      /\ r[Len(q) + 1] = p
  BY AppendProperties
<1>3. DOMAIN r = 1..(Len(q) + 1)
  BY <1>2, LenProperties
<1> HIDE DEF r
<1>4. ToSet(r) = ToSet(q) \union {p}
  BY <1>1, <1>2, <1>3 DEF ToSet
<1>5. \A i \in 1..Len(q) : q[i] \in ToSet(q)
  BY <1>1 DEF ToSet
<1>6. NoRepeats(r)
  <2> SUFFICES ASSUME NEW i \in 1..(Len(q) + 1), NEW j \in 1..(Len(q) + 1), r[i] = r[j]
               PROVE  i = j
    BY <1>2 DEF NoRepeats
  <2> QED
    BY <1>1, <1>2, <1>5 DEF NoRepeats
<1> QED
  BY <1>2, <1>4, <1>6 DEF r

LEMMA QueueDrop ==
  ASSUME NEW q \in Seq(Pids), NoRepeats(q), NEW w \in 0..Len(q)
  PROVE  LET first == ToSet(SubSeq(q, 1, w))
             rest  == SubSeq(q, w + 1, Len(q))
         IN  /\ first \subseteq ToSet(q)
             /\ rest \in Seq(Pids) /\ NoRepeats(rest)
             /\ Len(rest) = Len(q) - w
             /\ ToSet(rest) = ToSet(q) \ first
<1> DEFINE a == SubSeq(q, 1, w)
           b == SubSeq(q, w + 1, Len(q))
<1>1. /\ Len(q) \in Nat /\ DOMAIN q = 1..Len(q) /\ \A i \in 1..Len(q) : q[i] \in Pids
  BY LenProperties
<1>0. Len(q) \in Nat /\ w \in Nat /\ w <= Len(q)
  BY <1>1
<1>2. /\ a \in Seq(Pids) /\ Len(a) = w
      /\ \A i \in 1..w : a[i] = q[i]
  BY <1>1, SubSeqProperties
<1>3. /\ b \in Seq(Pids) /\ Len(b) = Len(q) - w
      /\ \A i \in 1..(Len(q) - w) : b[i] = q[w + i]
  <2>1. /\ w + 1 \in Int /\ Len(q) \in Int
        /\ \A i \in (w + 1)..Len(q) : q[i] \in Pids
    BY <1>1
  <2>2. /\ b \in Seq(Pids)
        /\ Len(b) = IF w + 1 <= Len(q) THEN Len(q) - (w + 1) + 1 ELSE 0
        /\ \A i \in 1..(Len(q) - (w + 1) + 1) : b[i] = q[(w + 1) + i - 1]
    BY <2>1, SubSeqProperties
  <2> HIDE DEF b
  <2>3. Len(b) = Len(q) - w
    <3>1. Len(b) = IF w + 1 <= Len(q) THEN Len(q) - (w + 1) + 1 ELSE 0
      BY <2>2
    <3> QED
      BY <1>0, <3>1
  <2>4. ASSUME NEW i \in 1..(Len(q) - w)
        PROVE  b[i] = q[w + i]
    <3>1. i \in 1..(Len(q) - (w + 1) + 1) /\ (w + 1) + i - 1 = w + i
      BY <1>1, <2>4
    <3> QED
      BY <2>2, <3>1
  <2> QED
    BY <2>2, <2>3, <2>4
<1>4. DOMAIN a = 1..w /\ DOMAIN b = 1..(Len(q) - w)
  BY <1>2, <1>3, LenProperties
<1> HIDE DEF a, b
<1>5. ToSet(a) = {q[i] : i \in 1..w}
  BY <1>1, <1>2, <1>4 DEF ToSet
<1>6. ToSet(b) = {q[i] : i \in (w + 1)..Len(q)}
  <2>1. \A i \in (w + 1)..Len(q) : i - w \in 1..(Len(q) - w) /\ b[i - w] = q[i]
    BY <1>1, <1>3
  <2>2. \A i \in 1..(Len(q) - w) : w + i \in (w + 1)..Len(q) /\ b[i] = q[w + i]
    BY <1>1, <1>3
  <2>3. ToSet(b) = {b[i] : i \in 1..(Len(q) - w)}
    BY <1>4 DEF ToSet
  <2> QED
    BY <2>1, <2>2, <2>3
<1>7. ToSet(q) = {q[i] : i \in 1..Len(q)}
  BY <1>1 DEF ToSet
<1>8. ToSet(b) = ToSet(q) \ ToSet(a)
  <2>1. \A i \in 1..w : \A j \in (w + 1)..Len(q) : q[i] # q[j]
    BY <1>1 DEF NoRepeats
  <2> QED
    BY <1>1, <1>5, <1>6, <1>7, <2>1
<1>9. NoRepeats(b)
  <2> SUFFICES ASSUME NEW i \in 1..(Len(q) - w), NEW j \in 1..(Len(q) - w), b[i] = b[j]
               PROVE  i = j
    BY <1>3 DEF NoRepeats
  <2>1. q[w + i] = q[w + j] /\ w + i \in 1..Len(q) /\ w + j \in 1..Len(q)
    BY <1>1, <1>3
  <2>2. w + i = w + j
    BY <2>1 DEF NoRepeats
  <2> QED
    BY <2>2
<1>10. ToSet(a) \subseteq ToSet(q)
  BY <1>1, <1>5, <1>7
<1> QED
  BY <1>3, <1>8, <1>9, <1>10 DEF a, b

-----------------------------------------------------------------------------
(* One stretch of a transfer. *)

Other(op) == IF op = "read" THEN "write" ELSE "read"

\* The tokens of the semaphore of `op', those in the hands of transfers included.
Units(g, op) == status[g][WaitsOn(op)] + Cardinality(Transferring(g, op))

LEMMA OtherOp ==
  /\ \A op \in Ops : /\ Other(op) \in Ops /\ Other(op) # op
                     /\ WaitsOn(Other(op)) = Posts(op)
                     /\ \A o \in Ops : o = op \/ o = Other(op)
  /\ \A g : Stored(g) = Units(g, "read") /\ Room(g) = Units(g, "write")
  BY DEF Ops, Other, WaitsOn, Posts, Stored, Room, Units

\* The current process is at a stretch; it was woken with `held' tokens.
AtStretch(g, op, n, held) ==
  /\ g \in Pages /\ active[g] /\ op \in Ops
  /\ n \in Nat \ {0} /\ held \in {0, 1}
  /\ current_process \in Pids \ {1, Shell}
  /\ g \in EndsOf(current_process)
  /\ call[current_process].op = IF held = 1 THEN op ELSE "none"
  /\ held = 1 => call[current_process].page = g

\* The two ways in which it ends.
Completes(g, op, k, held, W, rest) ==
  /\ status' = [status EXCEPT ![g][WaitsOn(op)] = @ - (k - held),
                              ![g][Posts(op)] = @ + k]
  /\ blocked_pids' = [blocked_pids EXCEPT ![g][Posts(op)] = rest]
  /\ ReturnToCaller(unblock_process(state, W), waiting_for_pid)
  /\ KeepPcbs([call EXCEPT ![current_process] = NoCall])

FallsAsleep(g, op, n, k, held, W, rest) ==
  /\ status' = [status EXCEPT ![g][WaitsOn(op)] = @ - (k - held) - 1,
                              ![g][Posts(op)] = @ + k]
  /\ blocked_pids' = [blocked_pids EXCEPT
       ![g][WaitsOn(op)] = Append(@, current_process), ![g][Posts(op)] = rest]
  /\ schedule_tick(block_process(unblock_process(state, W), current_process),
                   waiting_for_pid)
  /\ KeepPcbs([call EXCEPT
       ![current_process] = [op |-> op, page |-> g, left |-> n - k]])

LEMMA StretchEnds ==
  ASSUME NEW g, NEW op, NEW n, NEW held, Stretch(g, op, n, held),
         NEW k, k = Moved(g, op, n, held), NEW w, w = Woken(g, op, k),
         NEW W, W = ToSet(SubSeq(blocked_pids[g][Posts(op)], 1, w)),
         NEW rest, rest = SubSeq(blocked_pids[g][Posts(op)], w + 1,
                                 Len(blocked_pids[g][Posts(op)]))
  PROVE  /\ UNCHANGED <<pipe_table, active>>
         /\ (op = "write" /\ PutBytes(g, k)) \/ (op = "read" /\ TakeBytes(g, k))
         /\ \/ k = n /\ Completes(g, op, k, held, W, rest)
            \/ k < n /\ FallsAsleep(g, op, n, k, held, W, rest)
  BY DEF Stretch, Completes, FallsAsleep

Short(x) == IF x < 0 THEN 0 - x ELSE 0

\* What an open ring and its queues are worth.
LEMMA OpenRing ==
  ASSUME LineInv, NEW g \in Pages, active[g], NEW op \in Ops
  PROVE  /\ PIPE_BUFFER_SIZE \in Nat \ {0}
         /\ status[g][WaitsOn(op)] \in Int /\ Units(g, op) \in 0..PIPE_BUFFER_SIZE
         /\ Units(g, op) + Units(g, Other(op)) = PIPE_BUFFER_SIZE
         /\ blocked_pids[g][WaitsOn(op)] \in Seq(Pids)
         /\ NoRepeats(blocked_pids[g][WaitsOn(op)])
         /\ ToSet(blocked_pids[g][WaitsOn(op)]) = Asleep(g, op)
         /\ Len(blocked_pids[g][WaitsOn(op)]) = Short(status[g][WaitsOn(op)])
<1>1. PIPE_BUFFER_SIZE \in Nat \ {0}
  BY PipeAssumption
<1>2. /\ status[g][WaitsOn(op)] \in Int
      /\ blocked_pids[g][WaitsOn(op)] \in Seq(Pids)
      /\ status[g]["full"] \in Int /\ status[g]["empty"] \in Int
  BY TypesSplit, SemOps DEF LineInv, RingTypes, Sems
<1>3. /\ NoRepeats(blocked_pids[g][WaitsOn(op)])
      /\ ToSet(blocked_pids[g][WaitsOn(op)]) = Asleep(g, op)
      /\ Len(blocked_pids[g][WaitsOn(op)]) = Short(status[g][WaitsOn(op)])
  BY SemOps DEF LineInv, QueueInv, QueuesAreSleepers, Asleep, Sleepers, Short, Ops
<1>4. Stored(g) \in 0..PIPE_BUFFER_SIZE /\ Stored(g) + Room(g) = PIPE_BUFFER_SIZE
  BY DEF LineInv, RingConserved
<1>5. Stored(g) \in Int /\ Room(g) \in Int
  BY <1>2, TransferringFinite DEF Stored, Room
<1>6. Room(g) \in 0..PIPE_BUFFER_SIZE /\ Room(g) + Stored(g) = PIPE_BUFFER_SIZE
  BY <1>1, <1>4, <1>5
<1>7. /\ Units(g, op) \in 0..PIPE_BUFFER_SIZE
      /\ Units(g, op) + Units(g, Other(op)) = PIPE_BUFFER_SIZE
  BY <1>4, <1>6, OtherOp DEF Ops, Other
<1> QED
  BY <1>1, <1>2, <1>3, <1>7

\* A transfer that was woken is not asleep: its semaphore owes it a token.
LEMMA TokenInHand ==
  ASSUME LineInv, NEW g, NEW op, NEW n, NEW held, AtStretch(g, op, n, held)
  PROVE  /\ state[current_process] = "RUNNING" /\ current_process \in Pids
         /\ current_process \in Transferring(g, op) <=> held = 1
         /\ \A h : \A o \in Ops : current_process \in Transferring(h, o) =>
                                h = g /\ o = op /\ held = 1
         /\ held + Short(status[g][WaitsOn(op)]) <= Cardinality(Transferring(g, op))
<1> DEFINE p == current_process
           q == blocked_pids[g][WaitsOn(op)]
           tr == Transferring(g, op)
<1>1. p \in Pids /\ state[p] = "RUNNING" /\ op \in Ops /\ g \in Pages /\ active[g]
  BY DEF AtStretch, LineInv, TableInv, OnlyCurrentRuns
<1>2. /\ p \in tr <=> held = 1
      /\ \A h : \A o \in Ops : p \in Transferring(h, o) => h = g /\ o = op /\ held = 1
  BY <1>1 DEF AtStretch, Transferring, Ops
<1>3. /\ q \in Seq(Pids) /\ NoRepeats(q)
      /\ ToSet(q) = Asleep(g, op) /\ Len(q) = Short(status[g][WaitsOn(op)])
  BY <1>1, OpenRing
<1>4. ToSet(q) \subseteq tr /\ p \notin ToSet(q)
  BY <1>1, <1>3 DEF Asleep, SleepsInCall
<1>5. Cardinality(ToSet(q)) = Len(q)
  BY <1>3, QueueSize
<1>6. IsFiniteSet(tr) /\ Cardinality(tr) \in Nat
  BY TransferringFinite
<1>7. Len(q) \in Nat
  BY <1>3, LenProperties
<1> HIDE DEF p, q, tr
<1>8. CASE held = 1
  <2>1. IsFiniteSet(tr \ {p}) /\ Cardinality(tr \ {p}) = Cardinality(tr) - 1
    BY <1>2, <1>6, <1>8, FS_RemoveElement
  <2>2. Cardinality(ToSet(q)) <= Cardinality(tr \ {p})
    BY <1>4, <2>1, FS_Subset
  <2>3. 1 + Len(q) <= Cardinality(tr)
    BY <1>5, <1>6, <1>7, <2>1, <2>2
  <2> QED
    BY <1>1, <1>2, <1>3, <1>8, <2>3 DEF p, q, tr
<1>9. CASE held = 0
  <2>1. Cardinality(ToSet(q)) <= Cardinality(tr)
    BY <1>4, <1>6, FS_Subset
  <2>2. 0 + Len(q) <= Cardinality(tr)
    BY <1>5, <1>6, <1>7, <2>1
  <2> QED
    BY <1>1, <1>2, <1>3, <1>9, <2>2 DEF p, q, tr
<1> QED
  BY <1>8, <1>9 DEF AtStretch

LEMMA StretchNumbers ==
  ASSUME LineInv, NEW g, NEW op, NEW n, NEW held, AtStretch(g, op, n, held),
         NEW k, k = Moved(g, op, n, held), NEW w, w = Woken(g, op, k)
  PROVE  /\ k \in Nat /\ k <= n /\ held <= k /\ k <= Units(g, op)
         /\ w \in 0..Len(blocked_pids[g][Posts(op)])
         /\ Short(status[g][Posts(op)] + k) = Len(blocked_pids[g][Posts(op)]) - w
         /\ k = n => Short(status[g][WaitsOn(op)] - (k - held))
                       = Len(blocked_pids[g][WaitsOn(op)])
         /\ k < n => Short(status[g][WaitsOn(op)] - (k - held) - 1)
                       = Len(blocked_pids[g][WaitsOn(op)]) + 1
<1> DEFINE T == status[g][WaitsOn(op)]
           P == status[g][Posts(op)]
           c == Cardinality(Transferring(g, op))
           m == held + (IF T > 0 THEN T ELSE 0)
<1>1. op \in Ops /\ g \in Pages /\ active[g] /\ n \in Nat \ {0} /\ held \in {0, 1}
  BY DEF AtStretch
<1>2. /\ T \in Int /\ Units(g, op) = T + c /\ 0 <= Units(g, op)
      /\ Len(blocked_pids[g][WaitsOn(op)]) = Short(T)
  BY <1>1, OpenRing DEF Units
<1>3. P \in Int /\ Len(blocked_pids[g][Posts(op)]) = Short(P)
  <2>1. Other(op) \in Ops /\ WaitsOn(Other(op)) = Posts(op)
    BY <1>1, OtherOp
  <2> QED
    BY <1>1, <2>1, OpenRing
<1>4. c \in Nat /\ held + Short(T) <= c
  BY TransferringFinite, TokenInHand
<1>5. k = Min({n, m}) /\ w = Min({k, Short(P)})
  BY DEF Moved, Tokens, Woken, Sleepers, Short
<1> HIDE DEF T, P, c
<1>6. m \in Int
  BY <1>1, <1>2
<1> HIDE DEF m
<1>7. k \in {n, m} /\ k <= n /\ k <= m
  <2>1. n \in Int
    BY <1>1
  <2>2. Min({n, m}) \in {n, m} /\ Min({n, m}) <= n /\ Min({n, m}) <= m
    BY <1>6, <2>1, MinOfTwo
  <2> QED
    BY <1>5, <2>2
<1>8. Short(P) \in Int /\ k \in Int
  BY <1>1, <1>3, <1>6, <1>7 DEF Short
<1>9. w \in {k, Short(P)} /\ w <= k /\ w <= Short(P)
  BY <1>5, <1>8, MinOfTwo
<1>10. /\ k \in Nat /\ k <= n /\ held <= k /\ k <= T + c
       /\ k = n => Short(T - (k - held)) = Short(T)
       /\ k < n => Short(T - (k - held) - 1) = Short(T) + 1
  BY <1>1, <1>2, <1>4, <1>7, <1>8 DEF Short, m
<1>11. w \in 0..Short(P) /\ Short(P + k) = Short(P) - w
  BY <1>3, <1>8, <1>9, <1>10 DEF Short
<1> QED
  BY <1>2, <1>3, <1>10, <1>11 DEF T, P

\* The table and the transfers after a stretch that wakes W and leaves the
\* current process with c of its transfer to do.
LEMMA StretchTable ==
  ASSUME LineInv, NEW g, NEW op, NEW n, NEW held, AtStretch(g, op, n, held),
         UNCHANGED <<pipe_table, active, shell_pc, job, fg_pid>>,
         NEW W \in SUBSET Asleep(g, Other(op)), NEW c, NEW st,
         \/ /\ c = NoCall /\ st = unblock_process(state, W)
            /\ ReturnToCaller(st, waiting_for_pid)
         \/ /\ \E left \in Nat \ {0} : c = [op |-> op, page |-> g, left |-> left]
            /\ st = block_process(unblock_process(state, W), current_process)
            /\ schedule_tick(st, waiting_for_pid),
         KeepPcbs([call EXCEPT ![current_process] = c])
  PROVE  /\ TableInv' /\ IdleUp' /\ PcbTypes' /\ PcbInv'
         /\ ShellInv' /\ WaitInv' /\ HolderInv' /\ ActiveInv'
         /\ Transferring(g, op)' =
              IF c = NoCall THEN Transferring(g, op) \ {current_process}
              ELSE Transferring(g, op) \union {current_process}
         /\ Asleep(g, op)' = IF c = NoCall THEN Asleep(g, op)
                             ELSE Asleep(g, op) \union {current_process}
         /\ \A h \in Pages, o \in Ops : h # g \/ o # op =>
              /\ Transferring(h, o)' = Transferring(h, o)
              /\ Asleep(h, o)' = IF h = g THEN Asleep(h, o) \ W ELSE Asleep(h, o)
<1> PICK p \in Pids : p = current_process
  BY DEF AtStretch
<1> DEFINE cl == [call EXCEPT ![p] = c]
<1>0. /\ TableInv /\ TypeOK /\ IdleInv /\ PcbTypes /\ PcbInv
      /\ Shell \in Pids /\ 1 \in Pids
  BY TypesSplit, TwoFirst DEF LineInv, TableInv, IdleUp
<1>1. /\ op \in Ops /\ g \in Pages /\ p \notin {1, Shell} /\ state[p] = "RUNNING"
      /\ call[p].op = IF held = 1 THEN op ELSE "none"
      /\ held = 1 => call[p].page = g
      /\ g \in EndsOf(p)
  BY TokenInHand DEF AtStretch
<1>2. /\ c \in Transfers
      /\ c.op = "none" => c.page = 0 /\ c = NoCall
      /\ c.op # "none" => /\ c.page = g /\ c.left > 0 /\ c.op = op /\ c # NoCall
      /\ NoCall.op = "none"
  <2>1. op # "none" /\ NoCall \in Transfers /\ NoCall.op = "none" /\ NoCall.page = 0
    BY <1>1 DEF Ops, NoCall, Transfers
  <2>2. ASSUME NEW left \in Nat \ {0}, c = [op |-> op, page |-> g, left |-> left]
        PROVE  c \in Transfers /\ c.page = g /\ c.left > 0 /\ c.op = op
    BY <1>1, <2>2 DEF Transfers, Ops
  <2> QED
    BY <2>1, <2>2
<1>3. \A q \in Pids : cl[q] = IF q = p THEN c ELSE call[q]
  BY <1>0 DEF PcbTypes
<1>4. CallsOK(cl)
  <2>1. cl \in [Pids -> Transfers]
    BY <1>0, <1>2 DEF PcbTypes
  <2> HIDE DEF cl
  <2> QED
    BY <1>0, <1>1, <1>2, <1>3, <2>1 DEF CallsOK, PcbInv
<1>5. \A q \in W : call[q].op = Other(op) /\ call[q].page = g
                   /\ SleepsInCall(q) /\ state[q] = "BLOCKED" /\ q \in Pids
  BY DEF Asleep, Transferring, SleepsInCall
<1>6. /\ \A q \in Pids : st[q] =
           IF q = p THEN IF c = NoCall THEN "RUNNING" ELSE "BLOCKED"
           ELSE IF q \in W THEN "READY" ELSE state[q]
      /\ HandlerTable(st, waiting_for_pid)
  <2> DEFINE up == unblock_process(state, W)
  <2>1. /\ HandlerTable(up, waiting_for_pid)
        /\ \A q \in Pids : up[q] = IF q \in W THEN "READY" ELSE state[q]
    BY <1>0, <1>5, UnblockTable DEF unblock_process
  <2> HIDE DEF up
  <2>2. p \notin W /\ up[p] = "RUNNING"
    BY <1>1, <1>5, <2>1
  <2>3. /\ HandlerTable(block_process(up, p), waiting_for_pid)
        /\ \A q \in Pids : block_process(up, p)[q] =
             IF q = p THEN "BLOCKED" ELSE up[q]
    BY <1>0, <2>1, <2>2, ThenBlock
  <2>4. CASE c = NoCall /\ st = up
    BY <2>1, <2>2, <2>4
  <2>5. CASE c # NoCall /\ st = block_process(up, p)
    BY <2>1, <2>3, <2>5
  <2>6. (c = NoCall /\ st = up) \/ (c # NoCall /\ st = block_process(up, p))
    BY <1>1, <1>2 DEF up, Ops
  <2> QED
    BY <2>4, <2>5, <2>6
<1>7. HandsOver(st, waiting_for_pid)
  <2>1. st[1] \notin {"NONE", "KILLED"}
    BY <1>0, <1>1, <1>6 DEF LineInv, IdleUp, IdleInv
  <2>2. \/ schedule_tick(st, waiting_for_pid)
        \/ ReturnToCaller(st, waiting_for_pid) /\ st[p] = "RUNNING"
    BY <1>6
  <2> QED
    BY <1>6, <2>1, <2>2 DEF HandsOver
<1> KeepPcbs(cl)
  OBVIOUS
<1> HIDE DEF cl
<1>8. \A q \in Pids :
         /\ q # 1 => (SleepsInCall(q)' <=> st[q] = "BLOCKED" /\ q \notin stopped)
         /\ Live(q)' <=> st[q] \notin {"NONE", "KILLED"}
         /\ Live(q)' => call'[q] = cl[q]
  BY <1>4, <1>7, StepKeeps
<1>9. \A q \in Pids : Live(q)' <=> Live(q)
  BY <1>1, <1>5, <1>6, <1>8 DEF Live
<1>10. /\ TableInv' /\ IdleUp' /\ PcbTypes' /\ PcbInv'
       /\ ShellInv' /\ WaitInv' /\ HolderInv' /\ ActiveInv'
  <2>1. Shell \notin W /\ Shell # p /\ st[Shell] = state[Shell]
    BY <1>0, <1>1, <1>5, <1>6 DEF LineInv, ShellInv, PcbInv, Other
  <2>2. st[Shell] \notin {"NONE", "KILLED"}
    BY <2>1 DEF LineInv, ShellInv, Live
  <2>3. ShellWaiting => waiting_for_pid[Shell] # 0 /\ st[Shell] = "BLOCKED"
    BY <2>1 DEF LineInv, WaitInv, ShellWaiting
  <2>4. \A q \in Pids : st[q] \notin {"NONE", "KILLED"} => Live(q)
    BY <1>8, <1>9
  <2>5. WaitersOK(st, waiting_for_pid, cl, stopped)
    <3>1. \A q \in Pids : waiting_for_pid[q] # 0 => q # p /\ q \notin W
      BY <1>1, <1>5 DEF LineInv, WaitInv, WaitersSleep, SleepsInCall, Other
    <3>2. \A q \in Pids : waiting_for_pid[q] # 0 => cl[q] = call[q] /\ st[q] = state[q]
      BY <1>3, <1>6, <3>1
    <3> QED
      BY <3>2, WaitersStay
  <2>6. PcbFields(cl) /\ Stopped(stopped) /\ stopped \in SUBSET Pids
    BY <1>0 DEF KeepPcbs, PcbTypes
  <2> QED
    BY <1>4, <1>7, <2>2, <2>3, <2>4, <2>5, <2>6, OthersStep
<1>11. ASSUME NEW h \in Pages, NEW o \in Ops
       PROVE  /\ Transferring(h, o)' =
                   IF h # g \/ o # op THEN Transferring(h, o)
                   ELSE IF c = NoCall THEN Transferring(g, op) \ {p}
                   ELSE Transferring(g, op) \union {p}
              /\ Asleep(h, o)' =
                   IF h # g THEN Asleep(h, o)
                   ELSE IF o # op THEN Asleep(h, o) \ W
                   ELSE IF c = NoCall THEN Asleep(g, op)
                   ELSE Asleep(g, op) \union {p}
  <2>0. o # "none" /\ o \in Ops /\ (o # op <=> o = Other(op))
    BY <1>1, OtherOp DEF Ops
  <2>1. \A q \in Pids : q \in Transferring(h, o)' <=>
          Live(q) /\ cl[q].op = o /\ cl[q].page = h
    BY <1>8, <1>9 DEF Transferring, Live
  <2>2. \A q \in Pids : q \in Transferring(h, o) <=>
          Live(q) /\ call[q].op = o /\ call[q].page = h
    BY DEF Transferring, Live
  <2>3. Live(p) /\ (p \in Transferring(h, o) => h = g /\ o = op)
    BY <1>1, <2>0, <2>2 DEF Live
  <2>4. /\ Transferring(h, o) \subseteq Pids /\ Transferring(h, o)' \subseteq Pids
        /\ Transferring(g, op) \subseteq Pids
    BY DEF Transferring
  <2>5. Transferring(h, o)' =
          IF h # g \/ o # op THEN Transferring(h, o)
          ELSE IF c = NoCall THEN Transferring(g, op) \ {p}
          ELSE Transferring(g, op) \union {p}
    <3>1. \A q \in Pids : q # p =>
            (q \in Transferring(h, o)' <=> q \in Transferring(h, o))
      BY <1>3, <2>1, <2>2
    <3>2. p \in Transferring(h, o)' <=> h = g /\ o = op /\ c # NoCall
      BY <1>2, <1>3, <2>0, <2>1, <2>3
    <3> QED
      BY <2>3, <2>4, <3>1, <3>2
  <2>6. \A q \in Asleep(h, o) : q \in W <=> q \in W /\ h = g /\ o # op
    BY <1>5, <2>0, <2>2 DEF Asleep
  <2>7. \A q \in Pids : q # p =>
          (q \in Asleep(h, o)' <=> q \in Asleep(h, o) /\ q \notin W)
    <3>1. ASSUME NEW q \in Pids, q # p, q # 1
          PROVE  SleepsInCall(q)' <=> SleepsInCall(q) /\ q \notin W
      BY <1>5, <1>6, <1>8, <3>1 DEF SleepsInCall
    <3>2. 1 \notin Transferring(h, o)' /\ 1 \notin Transferring(h, o)
      <4>1. call[1].op = "none" /\ cl[1] = call[1]
        BY <1>0, <1>1, <1>3 DEF LineInv, IdleUp, PcbInv
      <4> QED
        BY <1>0, <2>0, <2>1, <2>2, <4>1
    <3> QED
      BY <1>3, <2>1, <2>2, <3>1, <3>2 DEF Asleep
  <2>8. p \notin Asleep(h, o) /\ p \notin Asleep(g, op)
    BY <1>1 DEF Asleep, SleepsInCall
  <2>9. p \in Asleep(h, o)' <=> h = g /\ o = op /\ c # NoCall
    <3>1. p \notin stopped
      BY <1>0, <1>1 DEF PcbTypes
    <3> QED
      BY <1>1, <1>6, <1>8, <2>5, <2>3, <3>1 DEF Asleep
  <2>10. Asleep(h, o) \subseteq Pids /\ Asleep(h, o)' \subseteq Pids
    BY DEF Asleep, Transferring
  <2> QED
    BY <2>5, <2>6, <2>7, <2>8, <2>9, <2>10
<1> QED
  BY <1>1, <1>10, <1>11

\* What a stretch does to the semaphores of its ring, and to no other.
LEMMA StretchSems ==
  ASSUME RingTypes, NEW g, NEW op, NEW n, NEW held, AtStretch(g, op, n, held),
         NEW k, NEW W, NEW rest,
         \/ k = n /\ Completes(g, op, k, held, W, rest)
         \/ k < n /\ FallsAsleep(g, op, n, k, held, W, rest),
         k \in Nat, k <= n, rest \in Seq(Pids)
  PROVE  /\ status' \in [Pages -> [Sems -> Int]]
         /\ blocked_pids' \in [Pages -> [Sems -> Seq(Pids)]]
         /\ \A h \in Pages \ {g} : /\ status'[h] = status[h]
                                   /\ blocked_pids'[h] = blocked_pids[h]
         /\ status'[g][WaitsOn(op)] =
              status[g][WaitsOn(op)] - (k - held) - (IF k = n THEN 0 ELSE 1)
         /\ status'[g][Posts(op)] = status[g][Posts(op)] + k
         /\ blocked_pids'[g][WaitsOn(op)] =
              IF k = n THEN blocked_pids[g][WaitsOn(op)]
              ELSE Append(blocked_pids[g][WaitsOn(op)], current_process)
         /\ blocked_pids'[g][Posts(op)] = rest
<1> DEFINE own == WaitsOn(op)
           peer == Posts(op)
<1>1. /\ g \in Pages /\ own \in Sems /\ peer \in Sems /\ own # peer
      /\ n \in Nat /\ held \in Int /\ current_process \in Pids
  BY SemOps DEF AtStretch
<1>2. /\ status \in [Pages -> [Sems -> Int]]
      /\ blocked_pids \in [Pages -> [Sems -> Seq(Pids)]]
  BY DEF RingTypes
<1>3. Append(blocked_pids[g][own], current_process) \in Seq(Pids)
  BY <1>1, <1>2, AppendProperties
<1> HIDE DEF own, peer
<1>4. CASE k = n /\ Completes(g, op, k, held, W, rest)
  <2>1. /\ status' = [status EXCEPT ![g][own] = @ - (k - held), ![g][peer] = @ + k]
        /\ blocked_pids' = [blocked_pids EXCEPT ![g][peer] = rest]
    BY <1>4 DEF Completes, own, peer
  <2>2. /\ status' \in [Pages -> [Sems -> Int]]
        /\ \A h \in Pages \ {g} : status'[h] = status[h]
        /\ status'[g][own] = status[g][own] - (k - held)
        /\ status'[g][peer] = status[g][peer] + k
    BY <1>1, <1>2, <2>1
  <2>3. /\ blocked_pids' \in [Pages -> [Sems -> Seq(Pids)]]
        /\ \A h \in Pages \ {g} : blocked_pids'[h] = blocked_pids[h]
        /\ blocked_pids'[g][own] = blocked_pids[g][own]
        /\ blocked_pids'[g][peer] = rest
    BY <1>1, <1>2, <2>1
  <2> QED
    BY <1>1, <1>2, <1>4, <2>2, <2>3 DEF own, peer
<1>5. CASE k < n /\ FallsAsleep(g, op, n, k, held, W, rest)
  <2>1. /\ status' = [status EXCEPT ![g][own] = @ - (k - held) - 1,
                                    ![g][peer] = @ + k]
        /\ blocked_pids' = [blocked_pids EXCEPT
             ![g][own] = Append(@, current_process), ![g][peer] = rest]
    BY <1>5 DEF FallsAsleep, own, peer
  <2>2. /\ status' \in [Pages -> [Sems -> Int]]
        /\ \A h \in Pages \ {g} : status'[h] = status[h]
        /\ status'[g][own] = status[g][own] - (k - held) - 1
        /\ status'[g][peer] = status[g][peer] + k
    <3> DEFINE x == status[g][own] - (k - held) - 1
               y == status[g][peer] + k
    <3>1. x \in Int /\ y \in Int
      BY <1>1, <1>2
    <3>2. status' = [status EXCEPT ![g][own] = x, ![g][peer] = y]
      BY <1>1, <1>2, <2>1
    <3> HIDE DEF x, y
    <3>3. /\ status' \in [Pages -> [Sems -> Int]]
          /\ \A h \in Pages \ {g} : status'[h] = status[h]
          /\ status'[g][own] = x /\ status'[g][peer] = y
      BY <1>1, <1>2, <3>1, <3>2
    <3> QED
      BY <3>3 DEF x, y
  <2>3. /\ blocked_pids' \in [Pages -> [Sems -> Seq(Pids)]]
        /\ \A h \in Pages \ {g} : blocked_pids'[h] = blocked_pids[h]
        /\ blocked_pids'[g][own] = Append(blocked_pids[g][own], current_process)
        /\ blocked_pids'[g][peer] = rest
    BY <1>1, <1>2, <1>3, <2>1
  <2>4. k # n
    BY <1>1, <1>5
  <2> QED
    BY <2>2, <2>3, <2>4 DEF own, peer
<1> QED
  BY <1>4, <1>5

\* The bytes of a stretch, in the ring.
LEMMA StretchBytes ==
  ASSUME RingTypes, NEW g \in Pages, NEW op \in Ops, NEW k \in 0..PIPE_BUFFER_SIZE,
         (op = "write" /\ PutBytes(g, k)) \/ (op = "read" /\ TakeBytes(g, k))
  PROVE  /\ buffer' \in [Pages -> [Slots -> Chars]]
         /\ read_pos' \in [Pages -> Slots] /\ write_pos' \in [Pages -> Slots]
         /\ \A h \in Pages \ {g} : /\ buffer'[h] = buffer[h]
                                   /\ read_pos'[h] = read_pos[h]
                                   /\ write_pos'[h] = write_pos[h]
         /\ op = "write" => /\ read_pos'[g] = read_pos[g]
                            /\ write_pos'[g] = Advance(write_pos[g], k)
         /\ op = "read" => /\ buffer' = buffer
                           /\ write_pos'[g] = write_pos[g]
                           /\ read_pos'[g] = Advance(read_pos[g], k)
<1>1. read_pos[g] \in Slots /\ write_pos[g] \in Slots
  BY DEF RingTypes
<1>2. Advance(read_pos[g], k) \in Slots /\ Advance(write_pos[g], k) \in Slots
  BY <1>1, AdvanceIs
<1>3. CASE op = "write" /\ PutBytes(g, k)
  <2>1. PICK bs \in [1..k -> Chars] :
          buffer' = [buffer EXCEPT ![g] = [i \in Slots |->
            IF \E d \in 1..k : i = Advance(write_pos[g], d - 1)
              THEN bs[CHOOSE d \in 1..k : i = Advance(write_pos[g], d - 1)]
              ELSE @[i]]]
    BY <1>3 DEF PutBytes
  <2>2. ASSUME NEW i \in Slots, \E d \in 1..k : i = Advance(write_pos[g], d - 1)
        PROVE  bs[CHOOSE d \in 1..k : i = Advance(write_pos[g], d - 1)] \in Chars
    BY <2>2
  <2> DEFINE f == [i \in Slots |->
            IF \E d \in 1..k : i = Advance(write_pos[g], d - 1)
              THEN bs[CHOOSE d \in 1..k : i = Advance(write_pos[g], d - 1)]
              ELSE buffer[g][i]]
  <2>3. f \in [Slots -> Chars]
    <3>1. buffer[g] \in [Slots -> Chars]
      BY DEF RingTypes
    <3> QED
      BY <2>2, <3>1
  <2>4. buffer' = [buffer EXCEPT ![g] = f]
    BY <2>1 DEF RingTypes
  <2> HIDE DEF f
  <2>5. /\ buffer' \in [Pages -> [Slots -> Chars]]
        /\ \A h \in Pages \ {g} : buffer'[h] = buffer[h]
    BY <2>3, <2>4 DEF RingTypes
  <2> QED
    BY <1>2, <1>3, <2>5 DEF PutBytes, RingTypes
<1>4. CASE op = "read" /\ TakeBytes(g, k)
  BY <1>2, <1>4 DEF TakeBytes, RingTypes
<1> QED
  BY <1>3, <1>4

\* Moving on by k and then by j.
LEMMA AdvanceTwice ==
  ASSUME NEW a \in Slots, NEW k \in 0..PIPE_BUFFER_SIZE,
         NEW j \in 0..PIPE_BUFFER_SIZE, k + j <= PIPE_BUFFER_SIZE
  PROVE  Advance(Advance(a, k), j) = Advance(a, k + j)
<1> DEFINE N == PIPE_BUFFER_SIZE
           b == Advance(a, k)
<1>1. N \in Nat \ {0} /\ a \in 0..(N - 1) /\ k + j \in 0..N
  BY PipeAssumption DEF Slots
<1>2. /\ b = IF a + k < N THEN a + k ELSE a + k - N
      /\ b \in Slots /\ b \in 0..(N - 1)
  BY AdvanceIs DEF Slots
<1>3. Advance(b, j) = IF b + j < N THEN b + j ELSE b + j - N
  BY <1>2, AdvanceIs
<1>4. Advance(a, k + j) = IF a + (k + j) < N THEN a + (k + j) ELSE a + (k + j) - N
  BY <1>1, AdvanceIs
<1> HIDE DEF b
<1>5. Advance(b, j) = Advance(a, k + j)
  BY <1>1, <1>2, <1>3, <1>4
<1> QED
  BY <1>5 DEF b

\* A stretch moves k units from its semaphore to the other one, and its sleeper,
\* those it wakes and the queues move together.
LEMMA StretchKeeps ==
  ASSUME LineInv, NEW g, NEW op, NEW n, NEW held, AtStretch(g, op, n, held),
         Stretch(g, op, n, held), UNCHANGED <<shell_pc, job, fg_pid>>,
         NEW k, k = Moved(g, op, n, held)
  PROVE  /\ TableInv' /\ IdleUp' /\ PcbTypes' /\ PcbInv'
         /\ ShellInv' /\ WaitInv' /\ HolderInv' /\ ActiveInv'
         /\ QueueInv'
         /\ status' \in [Pages -> [Sems -> Int]]
         /\ blocked_pids' \in [Pages -> [Sems -> Seq(Pids)]]
         /\ k \in 0..PIPE_BUFFER_SIZE /\ k <= Units(g, op)
         /\ UNCHANGED <<pipe_table, active>>
         /\ (op = "write" /\ PutBytes(g, k)) \/ (op = "read" /\ TakeBytes(g, k))
         /\ Units(g, op)' = Units(g, op) - k
         /\ Units(g, Other(op))' = Units(g, Other(op)) + k
         /\ \A h \in Pages \ {g}, o \in Ops : Units(h, o)' = Units(h, o)
<1> PICK p \in Pids : p = current_process
  BY DEF AtStretch
<1> DEFINE own == WaitsOn(op)
           peer == Posts(op)
           w == Woken(g, op, k)
           q == blocked_pids[g][own]
           r == blocked_pids[g][peer]
           W == ToSet(SubSeq(r, 1, w))
           rest == SubSeq(r, w + 1, Len(r))
           c == IF k = n THEN NoCall ELSE [op |-> op, page |-> g, left |-> n - k]
           st == IF k = n THEN unblock_process(state, W)
                 ELSE block_process(unblock_process(state, W), p)
<1>1. /\ g \in Pages /\ active[g] /\ op \in Ops /\ n \in Nat \ {0} /\ held \in {0, 1}
      /\ RingTypes /\ QueueInv
  BY TypesSplit DEF AtStretch, LineInv
<1>2. /\ own \in Sems /\ peer \in Sems /\ own # peer
      /\ Other(op) \in Ops /\ Other(op) # op /\ WaitsOn(Other(op)) = peer
      /\ \A o \in Ops : o = op \/ o = Other(op)
  BY <1>1, SemOps, OtherOp
<1>3. /\ k \in Nat /\ k <= n /\ held <= k /\ k <= Units(g, op)
      /\ w \in 0..Len(r)
      /\ Short(status[g][peer] + k) = Len(r) - w
      /\ k = n => Short(status[g][own] - (k - held)) = Len(q)
      /\ k < n => Short(status[g][own] - (k - held) - 1) = Len(q) + 1
  BY StretchNumbers
<1>4. /\ UNCHANGED <<pipe_table, active>>
      /\ (op = "write" /\ PutBytes(g, k)) \/ (op = "read" /\ TakeBytes(g, k))
      /\ \/ k = n /\ Completes(g, op, k, held, W, rest)
         \/ k < n /\ FallsAsleep(g, op, n, k, held, W, rest)
  BY StretchEnds
<1>5. /\ PIPE_BUFFER_SIZE \in Nat /\ Units(g, op) \in 0..PIPE_BUFFER_SIZE
      /\ status[g][own] \in Int
      /\ q \in Seq(Pids) /\ NoRepeats(q) /\ ToSet(q) = Asleep(g, op)
  BY <1>1, OpenRing
<1>6. /\ r \in Seq(Pids) /\ NoRepeats(r) /\ ToSet(r) = Asleep(g, Other(op))
      /\ status[g][peer] \in Int
  BY <1>1, <1>2, OpenRing
<1>7. /\ W \subseteq ToSet(r)
      /\ rest \in Seq(Pids) /\ NoRepeats(rest)
      /\ Len(rest) = Len(r) - w
      /\ ToSet(rest) = ToSet(r) \ W
  BY <1>3, <1>6, QueueDrop
<1>8. \/ k = n /\ ~(k < n)
      \/ k < n /\ k # n /\ n - k \in Nat \ {0}
  BY <1>1, <1>3
<1> HIDE DEF w, W, rest
<1>9. c = NoCall <=> k = n
  BY <1>1, <1>8 DEF NoCall, Ops
<1>10. /\ KeepPcbs([call EXCEPT ![p] = c])
       /\ \/ /\ c = NoCall /\ st = unblock_process(state, W)
             /\ ReturnToCaller(st, waiting_for_pid)
          \/ /\ \E left \in Nat \ {0} : c = [op |-> op, page |-> g, left |-> left]
             /\ st = block_process(unblock_process(state, W), p)
             /\ schedule_tick(st, waiting_for_pid)
  <2>1. CASE k = n
    BY <1>4, <1>8, <2>1 DEF Completes
  <2>2. CASE k < n
    <3>1. n - k \in Nat \ {0} /\ k # n
      BY <1>8, <2>2
    <3> QED
      BY <1>4, <3>1 DEF FallsAsleep
  <2> QED
    BY <1>4, <2>1, <2>2
<1> HIDE DEF c, st
<1>11. /\ TableInv' /\ IdleUp' /\ PcbTypes' /\ PcbInv'
       /\ ShellInv' /\ WaitInv' /\ HolderInv' /\ ActiveInv'
       /\ Transferring(g, op)' =
            IF k = n THEN Transferring(g, op) \ {p} ELSE Transferring(g, op) \union {p}
       /\ Asleep(g, op)' = IF k = n THEN Asleep(g, op) ELSE Asleep(g, op) \union {p}
       /\ \A h \in Pages, o \in Ops : h # g \/ o # op =>
            /\ Transferring(h, o)' = Transferring(h, o)
            /\ Asleep(h, o)' = IF h = g THEN Asleep(h, o) \ W ELSE Asleep(h, o)
  <2>1. W \in SUBSET Asleep(g, Other(op))
    BY <1>6, <1>7
  <2>2. UNCHANGED <<pipe_table, active, shell_pc, job, fg_pid>>
    BY <1>4
  <2>3. /\ KeepPcbs([call EXCEPT ![current_process] = c])
        /\ \/ /\ c = NoCall /\ st = unblock_process(state, W)
              /\ ReturnToCaller(st, waiting_for_pid)
           \/ /\ \E left \in Nat \ {0} : c = [op |-> op, page |-> g, left |-> left]
              /\ st = block_process(unblock_process(state, W), current_process)
              /\ schedule_tick(st, waiting_for_pid)
    BY <1>10
  <2>4. /\ TableInv' /\ IdleUp' /\ PcbTypes' /\ PcbInv'
        /\ ShellInv' /\ WaitInv' /\ HolderInv' /\ ActiveInv'
        /\ Transferring(g, op)' =
              IF c = NoCall THEN Transferring(g, op) \ {current_process}
              ELSE Transferring(g, op) \union {current_process}
        /\ Asleep(g, op)' = IF c = NoCall THEN Asleep(g, op)
                            ELSE Asleep(g, op) \union {current_process}
        /\ \A h \in Pages, o \in Ops : h # g \/ o # op =>
             /\ Transferring(h, o)' = Transferring(h, o)
             /\ Asleep(h, o)' = IF h = g THEN Asleep(h, o) \ W ELSE Asleep(h, o)
    BY <2>1, <2>2, <2>3, StretchTable
  <2> QED
    BY <1>9, <2>4
<1>12. /\ status' \in [Pages -> [Sems -> Int]]
       /\ blocked_pids' \in [Pages -> [Sems -> Seq(Pids)]]
       /\ \A h \in Pages \ {g} : /\ status'[h] = status[h]
                                 /\ blocked_pids'[h] = blocked_pids[h]
       /\ status'[g][own] =
            status[g][own] - (k - held) - (IF k = n THEN 0 ELSE 1)
       /\ status'[g][peer] = status[g][peer] + k
       /\ blocked_pids'[g][own] = IF k = n THEN q ELSE Append(q, p)
       /\ blocked_pids'[g][peer] = rest
  BY <1>1, <1>3, <1>4, <1>7, StretchSems
<1>13. QueueInv'
  <2>1. state[p] = "RUNNING" /\ p \notin ToSet(q)
    BY <1>5, TokenInHand DEF Asleep, SleepsInCall
  <2>2. /\ Append(q, p) \in Seq(Pids) /\ NoRepeats(Append(q, p))
        /\ Len(Append(q, p)) = Len(q) + 1
        /\ ToSet(Append(q, p)) = ToSet(q) \union {p}
    BY <1>5, <2>1, QueueAppend
  <2>3. /\ ToSet(blocked_pids'[g][own]) = Asleep(g, op)'
        /\ Len(blocked_pids'[g][own]) = Short(status'[g][own])
        /\ NoRepeats(blocked_pids'[g][own])
    <3>1. CASE k = n
      <4>1. status'[g][own] = status[g][own] - (k - held)
        BY <1>1, <1>3, <1>5, <1>12, <3>1
      <4> QED
        BY <1>3, <1>5, <1>11, <1>12, <3>1, <4>1
    <3>2. CASE k < n
      <4>1. k # n
        BY <1>8, <3>2
      <4>2. status'[g][own] = status[g][own] - (k - held) - 1
        BY <1>12, <4>1
      <4> QED
        BY <1>3, <1>5, <1>11, <1>12, <2>2, <3>2, <4>1, <4>2
    <3> QED
      BY <1>4, <3>1, <3>2
  <2>4. /\ ToSet(blocked_pids'[g][peer]) = Asleep(g, Other(op))'
        /\ Len(blocked_pids'[g][peer]) = Short(status'[g][peer])
        /\ NoRepeats(blocked_pids'[g][peer])
    BY <1>1, <1>2, <1>3, <1>6, <1>7, <1>11, <1>12
  <2> HIDE DEF own, peer, q, r
  <2>5. ASSUME NEW h \in Pages, NEW o \in Ops
        PROVE  /\ ToSet(blocked_pids'[h][WaitsOn(o)]) = Asleep(h, o)'
               /\ Len(blocked_pids'[h][WaitsOn(o)]) = Short(status'[h][WaitsOn(o)])
               /\ NoRepeats(blocked_pids'[h][WaitsOn(o)])
    <3>1. CASE h = g /\ o = op
      BY <2>3, <3>1 DEF own
    <3>2. CASE h = g /\ o = Other(op)
      BY <1>2, <2>4, <3>2
    <3>3. CASE h # g
      <4>1. /\ ToSet(blocked_pids[h][WaitsOn(o)]) = Asleep(h, o)
            /\ Len(blocked_pids[h][WaitsOn(o)]) = Short(status[h][WaitsOn(o)])
            /\ NoRepeats(blocked_pids[h][WaitsOn(o)])
        BY <1>1, SemOps DEF QueueInv, QueuesAreSleepers, Asleep, Sleepers, Short, Ops
      <4> QED
        BY <1>11, <1>12, <3>3, <4>1
    <3> QED
      BY <1>2, <3>1, <3>2, <3>3
  <2>6. \A h \in Pages, s \in Sems : NoRepeats(blocked_pids'[h][s])
    BY <2>5, SemOps
  <2> QED
    BY <2>5, <2>6 DEF QueueInv, QueuesAreSleepers, Asleep, Sleepers, Short, Ops
<1>14. Units(g, op)' = Units(g, op) - k
  <2> DEFINE tr == Transferring(g, op)
             T == status[g][own]
  <2>1. IsFiniteSet(tr) /\ Cardinality(tr) \in Nat
    BY TransferringFinite
  <2>2. p \in tr <=> held = 1
    BY TokenInHand
  <2>3. /\ Cardinality(tr \ {p}) = IF p \in tr THEN Cardinality(tr) - 1 ELSE Cardinality(tr)
        /\ Cardinality(tr \union {p}) = IF p \in tr THEN Cardinality(tr) ELSE Cardinality(tr) + 1
    BY <2>1, FS_RemoveElement, FS_AddElement
  <2>4. /\ Units(g, op) = T + Cardinality(tr)
        /\ Units(g, op)' = status'[g][own] + Cardinality(Transferring(g, op)')
    BY DEF Units
  <2>5. Cardinality(Transferring(g, op)') =
          Cardinality(IF k = n THEN tr \ {p} ELSE tr \union {p})
    BY <1>11
  <2>6. status'[g][own] = T - (k - held) - (IF k = n THEN 0 ELSE 1)
    BY <1>12
  <2> HIDE DEF tr, T, own
  <2>7. T \in Int
    BY <1>5 DEF T
  <2> QED
    BY <1>1, <1>3, <2>1, <2>2, <2>3, <2>4, <2>5, <2>6, <2>7
<1>15. Units(g, Other(op))' = Units(g, Other(op)) + k
  <2>1. Transferring(g, Other(op))' = Transferring(g, Other(op))
    BY <1>1, <1>2, <1>11
  <2>2. /\ Units(g, Other(op)) = status[g][peer] + Cardinality(Transferring(g, Other(op)))
        /\ Units(g, Other(op))' =
             status'[g][peer] + Cardinality(Transferring(g, Other(op))')
    BY <1>2 DEF Units
  <2>3. Cardinality(Transferring(g, Other(op))) \in Nat
    BY TransferringFinite
  <2> QED
    BY <1>3, <1>6, <1>12, <2>1, <2>2, <2>3
<1>16. \A h \in Pages \ {g}, o \in Ops : Units(h, o)' = Units(h, o)
  BY <1>11, <1>12 DEF Units
<1>17. k \in 0..PIPE_BUFFER_SIZE
  BY <1>3, <1>5
<1> QED
  BY <1>3, <1>4, <1>11, <1>12, <1>13, <1>14, <1>15, <1>16, <1>17

LEMMA StretchRings ==
  ASSUME LineInv, NEW g, NEW op, NEW n, NEW held, AtStretch(g, op, n, held),
         Stretch(g, op, n, held), UNCHANGED <<shell_pc, job, fg_pid>>
  PROVE  RingTypes' /\ RingConserved'
<1> DEFINE k == Moved(g, op, n, held)
           N == PIPE_BUFFER_SIZE
<1>1. /\ g \in Pages /\ active[g] /\ op \in Ops /\ RingTypes /\ RingConserved
  BY TypesSplit DEF AtStretch, LineInv
<1>2. /\ status' \in [Pages -> [Sems -> Int]]
      /\ blocked_pids' \in [Pages -> [Sems -> Seq(Pids)]]
      /\ k \in 0..N /\ k <= Units(g, op)
      /\ UNCHANGED <<pipe_table, active>>
      /\ (op = "write" /\ PutBytes(g, k)) \/ (op = "read" /\ TakeBytes(g, k))
      /\ Units(g, op)' = Units(g, op) - k
      /\ Units(g, Other(op))' = Units(g, Other(op)) + k
      /\ \A h \in Pages \ {g}, o \in Ops : Units(h, o)' = Units(h, o)
  BY StretchKeeps
<1> HIDE DEF k
<1>3. /\ buffer' \in [Pages -> [Slots -> Chars]]
      /\ read_pos' \in [Pages -> Slots] /\ write_pos' \in [Pages -> Slots]
      /\ \A h \in Pages \ {g} : /\ read_pos'[h] = read_pos[h]
                                /\ write_pos'[h] = write_pos[h]
      /\ op = "write" => /\ read_pos'[g] = read_pos[g]
                         /\ write_pos'[g] = Advance(write_pos[g], k)
      /\ op = "read" => /\ write_pos'[g] = write_pos[g]
                        /\ read_pos'[g] = Advance(read_pos[g], k)
  BY <1>1, <1>2, StretchBytes
<1>4. RingTypes'
  BY <1>1, <1>2, <1>3 DEF RingTypes
<1>5. /\ N \in Nat \ {0} /\ Units(g, op) \in 0..N /\ Units(g, Other(op)) \in 0..N
      /\ Units(g, op) + Units(g, Other(op)) = N
      /\ Other(Other(op)) = op
  <2>1. Other(op) \in Ops /\ Other(Other(op)) = op
    BY <1>1, OtherOp DEF Ops, Other
  <2> QED
    BY <1>1, <2>1, OpenRing
<1>6. /\ Units(g, op) - k \in 0..N /\ Units(g, Other(op)) + k \in 0..N
      /\ (Units(g, op) - k) + (Units(g, Other(op)) + k) = N
      /\ (Units(g, Other(op)) + k) + (Units(g, op) - k) = N
      /\ k + (Units(g, op) - k) = Units(g, op)
  BY <1>2, <1>5
<1>7. /\ Stored(g) = Units(g, "read") /\ Room(g) = Units(g, "write")
      /\ Stored(g)' = Units(g, "read")' /\ Room(g)' = Units(g, "write")'
  BY OtherOp DEF Stored, Room, Units, WaitsOn
<1>8. read_pos[g] \in Slots /\ write_pos[g] = Advance(read_pos[g], Stored(g))
  BY <1>1 DEF RingTypes, RingConserved
<1>9. /\ Stored(g)' \in 0..N /\ Stored(g)' + Room(g)' = N
      /\ write_pos'[g] = Advance(read_pos'[g], Stored(g)')
  <2>1. CASE op = "write"
    <3>1. /\ Stored(g)' = Stored(g) + k /\ Stored(g) \in 0..N /\ Stored(g) + k \in 0..N
          /\ Room(g)' = Units(g, op) - k
      BY <1>2, <1>5, <1>6, <1>7, <2>1 DEF Other
    <3>2. Stored(g) + k <= N
      BY <1>5, <3>1
    <3>3. Advance(Advance(read_pos[g], Stored(g)), k) =
            Advance(read_pos[g], Stored(g) + k)
      BY <1>2, <1>8, <3>1, <3>2, AdvanceTwice
    <3> QED
      BY <1>3, <1>6, <1>7, <1>8, <2>1, <3>1, <3>3 DEF Other
  <2>2. CASE op = "read"
    <3>1. /\ Stored(g)' = Stored(g) - k /\ Stored(g) - k \in 0..N
          /\ k + (Stored(g) - k) = Stored(g) /\ Stored(g) \in 0..N
          /\ Room(g)' = Units(g, Other(op)) + k
      BY <1>2, <1>5, <1>6, <1>7, <2>2 DEF Other
    <3>2. k + (Stored(g) - k) <= N
      BY <1>5, <3>1
    <3>3. Advance(Advance(read_pos[g], k), Stored(g) - k) =
            Advance(read_pos[g], k + (Stored(g) - k))
      BY <1>2, <1>8, <3>1, <3>2, AdvanceTwice
    <3> QED
      BY <1>3, <1>6, <1>7, <1>8, <2>2, <3>1, <3>3 DEF Other
  <2> QED
    BY <1>1, <2>1, <2>2 DEF Ops
<1>10. \A h \in Pages \ {g} :
         active'[h] => /\ active[h] /\ Stored(h)' = Stored(h) /\ Room(h)' = Room(h)
                       /\ read_pos'[h] = read_pos[h] /\ write_pos'[h] = write_pos[h]
  BY <1>2, <1>3 DEF Stored, Room, Units, WaitsOn, Ops
<1>11. RingConserved'
  <2> SUFFICES ASSUME NEW h \in Pages, active'[h]
               PROVE  /\ Stored(h)' \in 0..N /\ Stored(h)' + Room(h)' = N
                      /\ write_pos'[h] = Advance(read_pos'[h], Stored(h)')
    BY DEF RingConserved, Advance
  <2>1. CASE h = g
    BY <1>9, <2>1
  <2>2. CASE h # g
    BY <1>1, <1>10, <2>2 DEF RingConserved
  <2> QED
    BY <2>1, <2>2
<1> QED
  BY <1>4, <1>11

-----------------------------------------------------------------------------
(* The steps of the commands and of the kernel. *)

LEMMA Running ==
  ASSUME LineInv
  PROVE  /\ current_process \in Pids /\ state[current_process] = "RUNNING"
         /\ idle_pcb = 1 /\ 1 \in Pids /\ Shell \in Pids /\ Shell # 1
         /\ call[1].op = "none" /\ call[Shell].op = "none"
         /\ state[1] \notin {"NONE", "KILLED"}
         /\ state[Shell] \notin {"NONE", "KILLED"}
         /\ \A p \in Pids : EndsOf(p) \in SUBSET Pages
         /\ \A p \in Pids : call[p].op = "none" \/ call[p].op \in Ops
<1>1. 1 \in Pids /\ Shell \in Pids /\ Shell # 1
  BY TwoFirst DEF Shell
<1>2. current_process \in Pids /\ state[current_process] = "RUNNING"
  BY DEF LineInv, IdleUp, IdleInv, TableInv, TypeOK, OnlyCurrentRuns, Pids
<1>3. \A p \in Pids : EndsOf(p) \in SUBSET Pages
  BY TypesSplit DEF LineInv, PcbTypes, EndsOf
<1>4. \A p \in Pids : call[p].op = "none" \/ call[p].op \in Ops
  BY TypesSplit DEF LineInv, PcbTypes, Transfers, Ops
<1>5. call[1].op = "none" /\ call[Shell].op = "none"
  BY <1>1 DEF LineInv, PcbInv, IdleUp, ShellInv
<1> QED
  BY <1>1, <1>2, <1>3, <1>4, <1>5 DEF LineInv, IdleUp, IdleInv, ShellInv, Live

LEMMA LineParts ==
  ASSUME TableInv', IdleUp', PcbTypes', PcbInv',
         ShellInv', WaitInv', HolderInv', ActiveInv',
         RingTypes', QueueInv', RingConserved'
  PROVE  LineInv'
  BY TypesSplit DEF LineInv, TableInv, PipeTypeOK, RingTypes, PcbTypes, Transfers

\* Who is in a transfer, and who of them sleeps, is as before.
LEMMA TransfersKept ==
  ASSUME \A p \in Pids : Live(p) /\ call[p].op \in Ops =>
           /\ Live(p)' /\ call'[p] = call[p]
           /\ SleepsInCall(p)' <=> SleepsInCall(p),
         \A p \in Pids : Live(p)' /\ call'[p].op \in Ops =>
           Live(p) /\ call[p].op \in Ops
  PROVE  \A g \in Pages, op \in Ops :
           /\ Transferring(g, op)' = Transferring(g, op)
           /\ Asleep(g, op)' = Asleep(g, op)
<1> SUFFICES ASSUME NEW g \in Pages, NEW op \in Ops
             PROVE  /\ Transferring(g, op)' = Transferring(g, op)
                    /\ Asleep(g, op)' = Asleep(g, op)
  OBVIOUS
<1>1. Transferring(g, op) = {p \in Pids : Live(p) /\ call[p].op = op /\ call[p].page = g}
  BY DEF Transferring, Live
<1>2. Transferring(g, op)' =
        {p \in Pids : Live(p)' /\ call'[p].op = op /\ call'[p].page = g}
  BY DEF Transferring, Live
<1>3. Transferring(g, op)' = Transferring(g, op)
  BY <1>1, <1>2
<1>4. \A p \in Transferring(g, op) : SleepsInCall(p)' <=> SleepsInCall(p)
  BY <1>1
<1> QED
  BY <1>3, <1>4 DEF Asleep

\* A step that changes the table alone, and wakes nobody in a transfer.
LEMMA TableOnlyStep ==
  ASSUME LineInv, UNCHANGED pipeVars, PcbFields(call),
         NEW S \in SUBSET Pids, Stopped(S),
         NEW st, NEW wf, HandsOver(st, wf),
         \A p \in Pids : st[p] \notin {"NONE", "KILLED"} <=> Live(p),
         \A p \in Pids : call[p].op \in Ops =>
           (st[p] = "BLOCKED" /\ p \notin S <=> SleepsInCall(p))
  PROVE  RingTypes' /\ QueueInv' /\ RingConserved' /\ ChannelStep
<1>1. CallsOK(call)
  BY SameCalls, TypesSplit DEF LineInv
<1>2. \A p \in Pids : /\ p # 1 => (SleepsInCall(p)' <=> st[p] = "BLOCKED" /\ p \notin S)
                      /\ Live(p)' <=> Live(p)
                      /\ Live(p)' => call'[p] = call[p]
  BY <1>1, StepLeaves
<1>3. \A p \in Pids : call[p].op \in Ops => p # 1
  BY Running DEF Ops
<1>4. \A g \in Pages, op \in Ops : /\ Transferring(g, op)' = Transferring(g, op)
                                   /\ Asleep(g, op)' = Asleep(g, op)
  BY <1>2, <1>3, TransfersKept
<1> QED
  BY <1>4, RingsKept

\* The same, of a step of the commands or of the kernel.
LEMMA TableStep ==
  ASSUME LineInv, UNCHANGED pipeVars, PcbFields(call),
         NEW S \in SUBSET Pids, Stopped(S), UNCHANGED <<shell_pc, job, fg_pid>>,
         NEW st, NEW wf, HandsOver(st, wf),
         \A p \in Pids : st[p] \notin {"NONE", "KILLED"} <=> Live(p),
         \A p \in Pids : call[p].op \in Ops =>
           (st[p] = "BLOCKED" /\ p \notin S <=> SleepsInCall(p)),
         WaitersOK(st, wf, call, S), wf[Shell] = waiting_for_pid[Shell],
         ShellWaiting => st[Shell] = "BLOCKED"
  PROVE  LineInv' /\ ChannelStep
<1>1. CallsOK(call)
  BY SameCalls, TypesSplit DEF LineInv
<1>2. RingTypes' /\ QueueInv' /\ RingConserved' /\ ChannelStep
  BY TableOnlyStep
<1>3. UNCHANGED <<shell_pc, job, pipe_table>> /\ UNCHANGED active
  BY DEF pipeVars
<1>4. /\ \A p \in Pids : st[p] \notin {"NONE", "KILLED"} => Live(p)
      /\ st[Shell] \notin {"NONE", "KILLED"}
      /\ ShellWaiting => wf[Shell] # 0 /\ st[Shell] = "BLOCKED"
  BY Running DEF Live, ShellWaiting
<1>5. /\ TableInv' /\ IdleUp' /\ PcbTypes' /\ PcbInv'
      /\ ShellInv' /\ WaitInv' /\ HolderInv' /\ ActiveInv'
  BY <1>1, <1>3, <1>4, OthersStep
<1> QED
  BY <1>2, <1>5, LineParts

\* The table is as it was: IRQ0 and yield.
LEMMA TickStep ==
  ASSUME LineInv, schedule_tick(state, waiting_for_pid), KeepPcbs(call),
         UNCHANGED pipeVars, UNCHANGED <<shell_pc, job, fg_pid>>
  PROVE  LineInv' /\ ChannelStep
<1>1. PICK S \in SUBSET Pids : S = stopped
  BY TypesSplit DEF LineInv, PcbTypes
<1>2. PcbFields(call) /\ Stopped(S)
  BY <1>1 DEF KeepPcbs
<1>3. HandsOver(state, waiting_for_pid)
  BY UnchangedTable, Running DEF HandsOver, LineInv
<1>4. ShellWaiting => state[Shell] = "BLOCKED"
  BY DEF LineInv, WaitInv
<1>5. \A p \in Pids : state[p] \notin {"NONE", "KILLED"} <=> Live(p)
  BY DEF Live
<1>6. \A p \in Pids : state[p] = "BLOCKED" /\ p \notin S <=> SleepsInCall(p)
  BY <1>1 DEF SleepsInCall
<1>7. WaitersOK(state, waiting_for_pid, call, S)
  BY <1>1, WaitersStay
<1> QED
  BY <1>2, <1>3, <1>4, <1>5, <1>6, <1>7, TableStep

LEMMA TimerStep ==
  ASSUME LineInv, PipeTimer, UNCHANGED <<shell_pc, job, fg_pid>>
  PROVE  LineInv' /\ ChannelStep
  BY TickStep DEF PipeTimer, TimerTick

\* A process that wakes in a pipe that was closed leaves its transfer.
LEMMA LeaveStep ==
  ASSUME LineInv, InCall, ~active[call[current_process].page],
         ReturnToCaller(state, waiting_for_pid),
         KeepPcbs([call EXCEPT ![current_process] = NoCall]),
         UNCHANGED pipeVars, UNCHANGED <<shell_pc, job, fg_pid>>
  PROVE  LineInv' /\ ChannelStep
<1> PICK p \in Pids : p = current_process
  BY Running
<1> DEFINE cl == [call EXCEPT ![p] = NoCall]
<1>1. NoCall \in Transfers /\ NoCall.op = "none" /\ NoCall.page = 0
  BY DEF NoCall, Transfers
<1>2. /\ \A q \in Pids : cl[q] = IF q = p THEN NoCall ELSE call[q]
      /\ cl \in [Pids -> Transfers]
  BY <1>1, TypesSplit DEF LineInv, PcbTypes
<1>3. KeepPcbs(cl) /\ call[p].op \in Ops /\ state[p] = "RUNNING"
  BY Running DEF InCall
<1> HIDE DEF cl
<1>4. CallsOK(cl)
  BY <1>1, <1>2 DEF CallsOK, LineInv, PcbInv
<1>5. HandsOver(state, waiting_for_pid)
  BY UnchangedTable, Running DEF HandsOver, LineInv
<1>6. \A q \in Pids : /\ q # 1 => (SleepsInCall(q)' <=> SleepsInCall(q))
                      /\ Live(q)' <=> Live(q)
                      /\ Live(q)' => call'[q] = cl[q]
  <2>1. \A q \in Pids : state[q] \notin {"NONE", "KILLED"} <=> Live(q)
    BY DEF Live
  <2> QED
    BY <1>3, <1>4, <1>5, <2>1, StepKeeps DEF SleepsInCall
<1>7. ASSUME NEW g \in Pages, NEW op \in Ops
      PROVE  /\ active[g] => Transferring(g, op)' = Transferring(g, op)
             /\ Asleep(g, op)' = Asleep(g, op)
  <2>1. /\ Transferring(g, op) =
             {q \in Pids : Live(q) /\ call[q].op = op /\ call[q].page = g}
        /\ Transferring(g, op)' =
             {q \in Pids : Live(q)' /\ call'[q].op = op /\ call'[q].page = g}
    BY DEF Transferring, Live
  <2>2. op # "none"
    BY DEF Ops
  <2>3. Transferring(g, op)' = Transferring(g, op) \ {p}
    BY <1>1, <1>2, <1>6, <2>1, <2>2
  <2>4. active[g] => p \notin Transferring(g, op)
    BY <2>1
  <2>5. p \notin Asleep(g, op)
    BY <1>3 DEF Asleep, SleepsInCall
  <2>6. Transferring(g, op) \subseteq Pids \ {1}
    BY <2>1, <2>2, Running
  <2> QED
    BY <1>6, <2>3, <2>4, <2>5, <2>6 DEF Asleep
<1>8. RingTypes' /\ QueueInv' /\ RingConserved' /\ ChannelStep
  BY <1>7, RingsKept
<1>9. /\ TableInv' /\ IdleUp' /\ PcbTypes' /\ PcbInv'
      /\ ShellInv' /\ WaitInv' /\ HolderInv' /\ ActiveInv'
  <2>1. ShellWaiting => waiting_for_pid[Shell] # 0 /\ state[Shell] = "BLOCKED"
    BY DEF LineInv, WaitInv, ShellWaiting
  <2>2. UNCHANGED <<shell_pc, job, pipe_table>> /\ UNCHANGED active
    BY DEF pipeVars
  <2>3. \A q \in Pids : state[q] \notin {"NONE", "KILLED"} => Live(q)
    BY DEF Live
  <2>4. \A q \in Pids : waiting_for_pid[q] # 0 => q # p
    BY <1>3 DEF LineInv, WaitInv, WaitersSleep, SleepsInCall
  <2>5. WaitersOK(state, waiting_for_pid, cl, stopped)
    BY <1>2, <2>4, WaitersStay
  <2>6. PcbFields(cl) /\ Stopped(stopped) /\ stopped \in SUBSET Pids
    BY <1>3, TypesSplit DEF KeepPcbs, LineInv, PcbTypes
  <2> QED
    BY <1>4, <1>5, <2>1, <2>2, <2>3, <2>5, <2>6, Running, OthersStep
<1> QED
  BY <1>8, <1>9, LineParts

LEMMA StretchStep ==
  ASSUME LineInv, NEW g, NEW op, NEW n, NEW held, AtStretch(g, op, n, held),
         Stretch(g, op, n, held), UNCHANGED <<shell_pc, job, fg_pid>>
  PROVE  LineInv'
  BY StretchKeeps, StretchRings, LineParts

LEMMA WhoIsAsleep ==
  ASSUME LineInv, NEW G \in SUBSET Pages
  PROVE  \A q : q \in AsleepOn(G) <=>
           /\ q \in Pids /\ SleepsInCall(q)
           /\ call[q].op \in Ops /\ call[q].page \in G
<1>1. \A g \in Pages, op \in Ops : ToSet(blocked_pids[g][WaitsOn(op)]) = Asleep(g, op)
  BY DEF LineInv, QueueInv, QueuesAreSleepers, Asleep, Ops
<1>2. AsleepOn(G) = UNION {Asleep(g, op) : g \in G, op \in Ops}
  BY <1>1, SemOps DEF AsleepOn
<1> SUFFICES ASSUME NEW q
             PROVE  q \in AsleepOn(G) <=>
                      /\ q \in Pids /\ SleepsInCall(q)
                      /\ call[q].op \in Ops /\ call[q].page \in G
  OBVIOUS
<1>3. q \in AsleepOn(G) <=> \E g \in G, op \in Ops : q \in Asleep(g, op)
  BY <1>2
<1>4. \A g \in G, op \in Ops : q \in Asleep(g, op) <=>
        q \in Pids /\ SleepsInCall(q) /\ call[q].op = op /\ call[q].page = g
  BY DEF Asleep, Transferring, SleepsInCall
<1> QED
  BY <1>3, <1>4

\* The sleepers of the pages of G wake, and those of D, whose transfers are on
\* pages of G, die.
LEMMA TransfersClosed ==
  ASSUME LineInv, NEW G \in SUBSET Pages, NEW D \in SUBSET Pids,
         \A p \in D : call[p].op \in Ops => call[p].page \in G,
         \A p \in Pids : Live(p)' => Live(p) /\ call'[p] = call[p],
         \A p \in Pids \ D : Live(p) => Live(p)',
         \A p \in Pids : Live(p)' /\ call[p].op \in Ops =>
           (SleepsInCall(p)' <=> SleepsInCall(p) /\ p \notin AsleepOn(G))
  PROVE  \A g \in Pages, op \in Ops :
           IF g \in G THEN Asleep(g, op)' = {}
           ELSE /\ Transferring(g, op)' = Transferring(g, op)
                /\ Asleep(g, op)' = Asleep(g, op)
<1> SUFFICES ASSUME NEW g \in Pages, NEW op \in Ops
             PROVE  IF g \in G THEN Asleep(g, op)' = {}
                    ELSE /\ Transferring(g, op)' = Transferring(g, op)
                         /\ Asleep(g, op)' = Asleep(g, op)
  OBVIOUS
<1>1. /\ Transferring(g, op) =
           {q \in Pids : Live(q) /\ call[q].op = op /\ call[q].page = g}
      /\ Transferring(g, op)' =
           {q \in Pids : Live(q)' /\ call'[q].op = op /\ call'[q].page = g}
  BY DEF Transferring, Live
<1>2. \A q \in Transferring(g, op)' : q \in Transferring(g, op) /\ call[q].op \in Ops
  BY <1>1
<1>3. CASE g \in G
  <2>1. \A q \in Transferring(g, op)' : ~SleepsInCall(q)'
    BY <1>1, <1>2, <1>3, WhoIsAsleep
  <2> QED
    BY <1>3, <2>1 DEF Asleep
<1>4. CASE g \notin G
  <2>1. \A q \in Transferring(g, op) : q \notin D /\ q \notin AsleepOn(G)
    BY <1>1, <1>4, WhoIsAsleep
  <2>2. Transferring(g, op)' = Transferring(g, op)
    BY <1>1, <1>2, <2>1
  <2>3. \A q \in Transferring(g, op) : SleepsInCall(q)' <=> SleepsInCall(q)
    BY <1>1, <1>2, <2>1, <2>2
  <2> QED
    BY <1>4, <2>2, <2>3 DEF Asleep
<1> QED
  BY <1>3, <1>4

\* exit_process of p: by itself, by kill or by Ctrl+C.
LEMMA DeathStep ==
  ASSUME LineInv, NEW p \in Pids \ {1, Shell}, state[p] # "NONE",
         pipe_close(EndsOf(p)), KeepPcbs(call),
         UNCHANGED <<pipe_table, shell_pc, job>>, fg_pid' \in {fg_pid, 0},
         NEW st, st = exit_process(unblock_process(state, AsleepOn(EndsOf(p))), p),
         \/ schedule_tick(st, StopWaiting(p))
         \/ p # current_process /\ ReturnToCaller(st, StopWaiting(p))
  PROVE  LineInv' /\ ChannelStep
<1> DEFINE G == EndsOf(p)
           wf == StopWaiting(p)
<1>0. TableInv /\ G \in SUBSET Pages /\ CallsOK(call) /\ p \in Pids
  BY Running, SameCalls, TypesSplit DEF LineInv
<1>1. /\ HandlerTable(st, wf)
      /\ \A q \in Pids : st[q] =
           IF q = p THEN "KILLED"
           ELSE IF state[q] = "BLOCKED" /\ (q \in AsleepOn(G) \/ waiting_for_pid[q] = p)
           THEN "READY" ELSE state[q]
      /\ \A q \in Pids : wf[q] =
           IF waiting_for_pid[q] = p THEN 0 ELSE waiting_for_pid[q]
  BY <1>0, ThenExit
<1> HIDE DEF wf
<1>2. HandsOver(st, wf)
  <2>1. st[1] \notin {"NONE", "KILLED"}
    BY <1>1, Running
  <2>2. p # current_process => st[current_process] = "RUNNING"
    BY <1>1, Running
  <2> QED
    BY <1>1, <2>1, <2>2 DEF HandsOver, wf
<1>3. \A q \in Pids : /\ st[q] \notin {"NONE", "KILLED"} => Live(q)
                      /\ q # p /\ Live(q) => st[q] \notin {"NONE", "KILLED"}
  BY <1>1 DEF Live
<1>4. \A q \in Pids : /\ q # 1 => (SleepsInCall(q)' <=> st[q] = "BLOCKED" /\ q \notin stopped)
                      /\ Live(q)' <=> st[q] \notin {"NONE", "KILLED"}
                      /\ Live(q)' => call'[q] = call[q]
  BY <1>0, <1>2, StepKeeps
<1>5. RingTypes' /\ QueueInv' /\ RingConserved' /\ ChannelStep
  <2>1. call[p].op \in Ops => call[p].page \in G
    BY <1>0 DEF CallsOK, Ops
  <2>2. \A q \in Pids : Live(q)' => Live(q) /\ call'[q] = call[q]
    BY <1>3, <1>4
  <2>3. \A q \in Pids \ {p} : Live(q) => Live(q)'
    BY <1>3, <1>4
  <2>4. \A q \in Pids : Live(q)' /\ call[q].op \in Ops =>
          (SleepsInCall(q)' <=> SleepsInCall(q) /\ q \notin AsleepOn(G))
    <3> SUFFICES ASSUME NEW q \in Pids, Live(q)', call[q].op \in Ops
                 PROVE  SleepsInCall(q)' <=> SleepsInCall(q) /\ q \notin AsleepOn(G)
      OBVIOUS
    <3>1. q # 1 /\ waiting_for_pid[q] = 0
      BY Running DEF LineInv, WaitInv, WaitersSleep, Ops
    <3>2. q # p /\ p # 0
      BY <1>1, <1>4 DEF Pids
    <3> QED
      BY <1>1, <1>4, <3>1, <3>2 DEF SleepsInCall
  <2>5. \A g \in Pages, op \in Ops :
          IF g \in G THEN Asleep(g, op)' = {}
          ELSE /\ Transferring(g, op)' = Transferring(g, op)
               /\ Asleep(g, op)' = Asleep(g, op)
    <3>1. PICK D \in SUBSET Pids : D = {p}
      BY <1>0
    <3>2. \A q \in D : call[q].op \in Ops => call[q].page \in G
      BY <2>1, <3>1
    <3>3. \A q \in Pids \ D : Live(q) => Live(q)'
      BY <2>3, <3>1
    <3> HIDE DEF G
    <3> QED
      BY <1>0, <2>2, <2>4, <3>2, <3>3, TransfersClosed
  <2>6. pipe_table' \in [Ids -> Pages \union {0}]
    BY TypesSplit DEF LineInv, RingTypes
  <2> QED
    BY <1>0, <2>5, <2>6, RingsClosed
<1>6. /\ TableInv' /\ IdleUp' /\ PcbTypes' /\ PcbInv'
      /\ ShellInv' /\ WaitInv' /\ HolderInv' /\ ActiveInv'
  <2>1. \A g \in Pages : active'[g] => active[g]
    BY DEF pipe_close
  <2>2. st[Shell] \notin {"NONE", "KILLED"}
    BY <1>1, Running
  <2>3. ShellWaiting => \/ wf[Shell] # 0 /\ st[Shell] = "BLOCKED"
                        \/ wf[Shell] = 0 /\ st[waiting_for_pid[Shell]] = "KILLED"
    <3>1. Shell \notin AsleepOn(G) /\ Shell # p /\ p # 0 /\ Shell \in Pids
      BY <1>0, WhoIsAsleep, Running DEF Ops, Pids
    <3>2. ShellWaiting => waiting_for_pid[Shell] # 0 /\ state[Shell] = "BLOCKED"
      BY DEF LineInv, WaitInv, ShellWaiting
    <3> QED
      BY <1>1, <3>1, <3>2
  <2>4. wf[Shell] \in {waiting_for_pid[Shell], 0}
    BY <1>1, Running
  <2>5. UNCHANGED <<shell_pc, job, pipe_table>>
    OBVIOUS
  <2>6. WaitersOK(st, wf, call, stopped)
    <3>1. \A q \in Pids : waiting_for_pid[q] # 0 => q \notin AsleepOn(G)
      BY <1>0, WhoIsAsleep DEF LineInv, WaitInv, WaitersSleep, Ops
    <3>2. \A q \in Pids : wf[q] # 0 => /\ wf[q] = waiting_for_pid[q]
                                       /\ st[q] = state[q] \/ st[q] = "KILLED"
      BY <1>1, <3>1
    <3> QED
      BY <3>2, WaitersStay
  <2>7. PcbFields(call) /\ Stopped(stopped) /\ stopped \in SUBSET Pids
    BY TypesSplit DEF KeepPcbs, LineInv, PcbTypes
  <2> QED
    BY <1>0, <1>2, <1>3, <2>1, <2>2, <2>3, <2>4, <2>5, <2>6, <2>7, OthersStep
<1> QED
  BY <1>5, <1>6, LineParts

\* What create_process leaves to the other processes, and what it gives to the
\* new one; new is 0 when it fails.
AfterCreate(new, ends) ==
  /\ TableInv' /\ IdleUp' /\ PcbTypes' /\ PcbInv' /\ WaitersSleep'
  /\ RingTypes' /\ QueueInv' /\ RingConserved' /\ ChannelStep
  /\ new \notin {1, Shell} /\ (new # 0 => ~Live(new) /\ Live(new)')
  /\ \A p \in Pids :
       IF p = new THEN EndsOf(p)' = ends /\ waiting_for_pid'[p] = 0
       ELSE /\ Live(p)' <=> Live(p)
            /\ EndsOf(p)' = IF Live(p) THEN EndsOf(p) ELSE {}
            /\ waiting_for_pid'[p] = IF Live(p) THEN waiting_for_pid[p] ELSE 0
            /\ Live(p) => state'[p] = state[p]

LEMMA CreateSucceeds ==
  ASSUME LineInv, NEW in \in 0..MAX_PIPES, NEW out \in 0..MAX_PIPES,
         NEW new \in Pids, PipeCreateProcess(in, out, new)
  PROVE  AfterCreate(new, {pipe_table_get(in), pipe_table_get(out)} \ {0})
<1> DEFINE a == pipe_table_get(in)
           b == pipe_table_get(out)
<1>0. /\ TableInv /\ IdleInv /\ EndsOf(1) = {} /\ WaitersSleep
      /\ RingTypes /\ PcbTypes /\ PcbInv /\ 1 \in Pids /\ Shell \in Pids
      /\ stopped \in SUBSET Pids
  BY TypesSplit, TwoFirst DEF LineInv, IdleUp, WaitInv, PcbTypes
<1>1. a \in Pages \union {0} /\ b \in Pages \union {0}
  BY <1>0, PipeAssumption DEF pipe_table_get, RingTypes, Ids
<1>2. /\ TableInv' /\ IdleInv'
      /\ new \notin {1, current_process} /\ new # 0
      /\ \A p \in Pids : p # new =>
           /\ state'[p] = IF state[p] = "KILLED" THEN "NONE" ELSE state[p]
           /\ waiting_for_pid'[p] = IF Live(p) THEN waiting_for_pid[p] ELSE 0
      /\ ~Live(new) /\ state'[new] = "READY" /\ waiting_for_pid'[new] = 0
  <2>1. /\ InProgram /\ CreateIn(new) /\ idle_pcb' = ReapedIdle(state)
        /\ UNCHANGED <<current_process, last_run_index>> /\ new # 0
    BY DEF PipeCreateProcess, Pids
  <2> QED
    BY <1>0, <2>1, CreateKeeps
<1> HIDE DEF a, b
<1>3. \A p \in Pids :
        /\ pipe_in'[p] = IF p = new THEN a ELSE IF state'[p] = "NONE" THEN 0 ELSE pipe_in[p]
        /\ pipe_out'[p] = IF p = new THEN b ELSE IF state'[p] = "NONE" THEN 0 ELSE pipe_out[p]
        /\ call'[p] = IF p = new \/ state'[p] = "NONE" THEN NoCall ELSE call[p]
  BY DEF PipeCreateProcess, a, b
<1>4. NoCall \in Transfers /\ NoCall.op = "none" /\ NoCall.page = 0
  BY DEF NoCall, Transfers
<1>5. PcbTypes'
  <2>1. /\ pipe_in' \in [Pids -> Pages \union {0}]
        /\ pipe_out' \in [Pids -> Pages \union {0}]
    BY <1>0, <1>1 DEF PipeCreateProcess, PcbTypes, a, b
  <2>2. call' \in [Pids -> Transfers]
    BY <1>0, <1>4 DEF PipeCreateProcess, PcbTypes
  <2>3. stopped' \in SUBSET {p \in Pids : state'[p] = "BLOCKED"}
    BY <1>0 DEF PipeCreateProcess, Stopped
  <2> QED
    BY <2>1, <2>2, <2>3 DEF PcbTypes
<1>6. \A p \in Pids : EndsOf(p)' = IF p = new THEN {a, b} \ {0}
                                   ELSE IF state'[p] = "NONE" THEN {} ELSE EndsOf(p)
  BY <1>3 DEF EndsOf
<1>7. PcbInv'
  <2> SUFFICES ASSUME NEW p \in Pids
               PROVE  /\ state'[p] = "NONE" => EndsOf(p)' = {} /\ call'[p].op = "none"
                      /\ call'[p].op = "none" => call'[p].page = 0
                      /\ call'[p].op # "none" => /\ call'[p].page \in EndsOf(p)'
                                                 /\ call'[p].left > 0
    BY DEF PcbInv
  <2> QED
    BY <1>0, <1>2, <1>3, <1>4, <1>6 DEF PcbInv
<1>8. \A p \in Pids : p # new => (Live(p)' <=> Live(p))
  BY <1>2 DEF Live
<1>9. IdleUp'
  BY <1>0, <1>2, <1>6 DEF IdleUp
<1>13. \A p \in Pids : p \in stopped' <=> p \in stopped /\ state'[p] = "BLOCKED"
  BY DEF PipeCreateProcess, Stopped
<1>10. RingTypes' /\ QueueInv' /\ RingConserved' /\ ChannelStep
  <2>1. \A p \in Pids : Live(p) /\ call[p].op \in Ops =>
           /\ Live(p)' /\ call'[p] = call[p]
           /\ SleepsInCall(p)' <=> SleepsInCall(p)
    BY <1>2, <1>3, <1>8, <1>13 DEF Live, SleepsInCall
  <2>2. \A p \in Pids : Live(p)' /\ call'[p].op \in Ops => Live(p) /\ call[p].op \in Ops
    BY <1>3, <1>4, <1>8 DEF Live, Ops
  <2>3. UNCHANGED pipeVars
    BY DEF PipeCreateProcess
  <2>4. \A g \in Pages, op \in Ops : /\ Transferring(g, op)' = Transferring(g, op)
                                     /\ Asleep(g, op)' = Asleep(g, op)
    BY <2>1, <2>2, TransfersKept
  <2> QED
    BY <2>3, <2>4, RingsKept
<1>11. \A p \in Pids : p # new =>
         /\ EndsOf(p)' = IF Live(p) THEN EndsOf(p) ELSE {}
         /\ Live(p) => state'[p] = state[p]
  BY <1>2, <1>6 DEF Live, TableInv, TypeOK, States
<1>12. new # Shell /\ Live(new)'
  BY <1>2 DEF LineInv, ShellInv, Live
<1>14. WaitersSleep'
  <2> SUFFICES ASSUME NEW p \in Pids, waiting_for_pid'[p] # 0
               PROVE  /\ p # 1 /\ call'[p].op = "none"
                      /\ SleepsInCall(p)' \/ state'[p] = "KILLED"
    BY DEF WaitersSleep
  <2>1. p # new /\ Live(p) /\ state'[p] = state[p] /\ waiting_for_pid[p] # 0
    BY <1>2, <1>11
  <2>2. p # 1 /\ call[p].op = "none" /\ SleepsInCall(p)
    BY <1>0, <2>1 DEF WaitersSleep, Live
  <2> QED
    BY <1>3, <1>4, <1>13, <2>1, <2>2 DEF SleepsInCall
<1> QED
  BY <1>2, <1>5, <1>6, <1>7, <1>8, <1>9, <1>10, <1>11, <1>12, <1>14 DEF AfterCreate, a, b

LEMMA CreateGivesUp ==
  ASSUME LineInv, PipeCreateFails
  PROVE  AfterCreate(0, {})
<1>0. /\ TableInv /\ IdleInv /\ EndsOf(1) = {} /\ WaitersSleep
      /\ RingTypes /\ PcbTypes /\ PcbInv /\ 1 \in Pids /\ Shell \in Pids
      /\ stopped \in SUBSET Pids
  BY TypesSplit, TwoFirst DEF LineInv, IdleUp, WaitInv, PcbTypes
<1>1. /\ TableInv' /\ IdleInv'
      /\ \A p \in Pids : p # 0 =>
           /\ state'[p] = IF state[p] = "KILLED" THEN "NONE" ELSE state[p]
           /\ waiting_for_pid'[p] = IF Live(p) THEN waiting_for_pid[p] ELSE 0
  <2>1. /\ InProgram /\ CreateFails /\ idle_pcb' = ReapedIdle(state)
        /\ UNCHANGED <<current_process, last_run_index>>
    BY DEF PipeCreateFails
  <2>2. PICK new \in {0} : new = 0
    OBVIOUS
  <2> QED
    BY <1>0, <2>1, <2>2, CreateKeeps
<1>2. \A p \in Pids : p # 0
  BY DEF Pids
<1>3. /\ PcbTypes' /\ PcbInv'
      /\ \A p \in Pids :
           /\ EndsOf(p)' = IF state'[p] = "NONE" THEN {} ELSE EndsOf(p)
           /\ call'[p] = IF state'[p] = "NONE" THEN NoCall ELSE call[p]
  BY <1>0, SameCalls, PcbsKept DEF PipeCreateFails, KeepPcbs
<1>4. \A p \in Pids :
        /\ Live(p)' <=> Live(p)
        /\ Live(p) => state'[p] = state[p] /\ state'[p] # "NONE"
        /\ ~Live(p) => state'[p] = "NONE"
  BY <1>1, <1>2 DEF Live
<1>9. \A p \in Pids : p \in stopped' <=> p \in stopped /\ state'[p] = "BLOCKED"
  BY DEF PipeCreateFails, KeepPcbs, Stopped
<1>5. IdleUp'
  BY <1>0, <1>1, <1>3 DEF IdleUp
<1>6. RingTypes' /\ QueueInv' /\ RingConserved' /\ ChannelStep
  <2>1. \A p \in Pids : Live(p) /\ call[p].op \in Ops =>
           /\ Live(p)' /\ call'[p] = call[p]
           /\ SleepsInCall(p)' <=> SleepsInCall(p)
    BY <1>3, <1>4, <1>9 DEF SleepsInCall
  <2>2. \A p \in Pids : Live(p)' /\ call'[p].op \in Ops => Live(p) /\ call[p].op \in Ops
    BY <1>3, <1>4
  <2>3. UNCHANGED pipeVars
    BY DEF PipeCreateFails
  <2>4. \A g \in Pages, op \in Ops : /\ Transferring(g, op)' = Transferring(g, op)
                                     /\ Asleep(g, op)' = Asleep(g, op)
    BY <2>1, <2>2, TransfersKept
  <2> QED
    BY <2>3, <2>4, RingsKept
<1>7. 0 \notin {1, Shell}
  BY DEF Shell
<1>8. \A p \in Pids : p # 0 /\ EndsOf(p)' = (IF Live(p) THEN EndsOf(p) ELSE {})
  BY <1>2, <1>3, <1>4
<1>10. WaitersSleep'
  <2> SUFFICES ASSUME NEW p \in Pids, waiting_for_pid'[p] # 0
               PROVE  /\ p # 1 /\ call'[p].op = "none"
                      /\ SleepsInCall(p)' \/ state'[p] = "KILLED"
    BY DEF WaitersSleep
  <2>1. Live(p) /\ state'[p] = state[p] /\ waiting_for_pid[p] # 0
    BY <1>1, <1>2, <1>4
  <2>2. p # 1 /\ call[p].op = "none" /\ SleepsInCall(p)
    BY <1>0, <2>1 DEF WaitersSleep, Live
  <2> QED
    BY <1>3, <1>4, <1>9, <2>1, <2>2 DEF SleepsInCall
<1> QED
  BY <1>1, <1>3, <1>4, <1>5, <1>6, <1>7, <1>8, <1>10 DEF AfterCreate

\* A process that is no part of the pipeline, created or not.
LEMMA CreateOtherStep ==
  ASSUME LineInv, UNCHANGED <<shell_pc, job, fg_pid, pipe_table, active>>,
         NEW new, AfterCreate(new, {})
  PROVE  LineInv' /\ ChannelStep
<1>1. Live(Shell)' /\ EndsOf(Shell)' = {} /\ waiting_for_pid'[Shell] = waiting_for_pid[Shell]
      /\ state'[Shell] = state[Shell] /\ Shell \in Pids
  BY TwoFirst DEF AfterCreate, LineInv, ShellInv
<1>2. ShellWaiting => ShellWaiting' /\ state'[Shell] = "BLOCKED"
  BY <1>1 DEF ShellWaiting, LineInv, WaitInv
<1>3. \A p \in Pids : Live(p)' /\ EndsOf(p)' # {} => Live(p) /\ EndsOf(p)' = EndsOf(p)
  BY DEF AfterCreate
<1>4. WaitersSleep'
  BY DEF AfterCreate
<1>5. \A g \in Pages : active'[g] => active[g]
  OBVIOUS
<1>6. ShellInv' /\ WaitInv' /\ HolderInv' /\ ActiveInv'
  BY <1>1, <1>2, <1>3, <1>4, <1>5, OthersKeepLine
<1> QED
  BY <1>6, LineParts DEF AfterCreate

-----------------------------------------------------------------------------
(* A stretch, as the channels see it. *)

\* The n bytes of a ring from position r on.
Bytes(b, r, n) == [i \in 1..n |-> b[Advance(r, i - 1)]]

LEMMA BytesIs ==
  ASSUME NEW b \in [Slots -> Chars], NEW r \in Slots, NEW n \in 0..PIPE_BUFFER_SIZE
  PROVE  /\ Bytes(b, r, n) \in Seq(Chars) /\ Len(Bytes(b, r, n)) = n
         /\ \A i \in 1..n : Bytes(b, r, n)[i] = b[Advance(r, i - 1)]
<1>1. n \in Nat /\ n <= PIPE_BUFFER_SIZE
  BY PipeAssumption
<1>2. \A i \in 1..n : i - 1 \in 0..PIPE_BUFFER_SIZE
  BY <1>1, PipeAssumption
<1>3. \A i \in 1..n : b[Advance(r, i - 1)] \in Chars
  BY <1>2, AdvanceIs
<1>4. Bytes(b, r, n) \in Seq(Chars)
  BY <1>1, <1>3 DEF Bytes
<1>5. DOMAIN Bytes(b, r, n) = 1..n
  BY DEF Bytes
<1>6. Len(Bytes(b, r, n)) = n
  BY <1>1, <1>4, <1>5, LenProperties
<1> QED
  BY <1>4, <1>6 DEF Bytes

LEMMA PrefixIs ==
  ASSUME NEW S, NEW c \in Seq(S), NEW d \in Seq(S), Len(c) < Len(d),
         \A i \in 1..Len(c) : d[i] = c[i]
  PROVE  Channel!IsStrictPrefix(c, d)
<1>1. /\ Len(c) \in Nat /\ Len(d) \in Nat /\ c # d /\ Len(c) <= Len(d)
      /\ \A i \in 1..Len(c) : c[i] \in S /\ d[i] \in S
  BY LenProperties
<1> DEFINE x == SubSeq(c, 1, Len(c))
           y == SubSeq(d, 1, Len(c))
<1>2. /\ x \in Seq(S) /\ Len(x) = Len(c)
      /\ \A i \in 1..Len(c) : x[i] = c[i]
  BY <1>1, SubSeqProperties
<1>3. /\ y \in Seq(S) /\ Len(y) = Len(c)
      /\ \A i \in 1..Len(c) : y[i] = d[i]
  BY <1>1, SubSeqProperties
<1> HIDE DEF x, y
<1>4. x = y
  BY <1>2, <1>3, SeqEqual
<1> QED
  BY <1>1, <1>4 DEF Channel!IsStrictPrefix, Channel!IsPrefix, x, y

LEMMA ReverseIs ==
  ASSUME NEW S, NEW c \in Seq(S)
  PROVE  /\ Channel!Reverse(c) \in Seq(S) /\ Len(Channel!Reverse(c)) = Len(c)
         /\ \A i \in 1..Len(c) : Channel!Reverse(c)[i] = c[(Len(c) - i) + 1]
<1> DEFINE r == Channel!Reverse(c)
<1>1. Len(c) \in Nat /\ \A i \in 1..Len(c) : c[i] \in S
  BY LenProperties
<1>2. r = [i \in 1..Len(c) |-> c[(Len(c) - i) + 1]]
  BY DEF Channel!Reverse
<1>3. \A i \in 1..Len(c) : (Len(c) - i) + 1 \in 1..Len(c)
  BY <1>1
<1>4. r \in Seq(S) /\ DOMAIN r = 1..Len(c)
  BY <1>1, <1>2, <1>3
<1>5. Len(r) = Len(c)
  BY <1>1, <1>4, LenProperties
<1> QED
  BY <1>2, <1>4, <1>5

LEMMA SuffixIs ==
  ASSUME NEW S, NEW c \in Seq(S), NEW d \in Seq(S), Len(d) < Len(c),
         \A i \in 1..Len(d) : d[i] = c[Len(c) - Len(d) + i]
  PROVE  Channel!IsStrictSuffix(d, c)
<1> DEFINE x == Channel!Reverse(d)
           y == Channel!Reverse(c)
<1>1. Len(c) \in Nat /\ Len(d) \in Nat /\ c # d
  BY LenProperties
<1>2. /\ x \in Seq(S) /\ Len(x) = Len(d)
      /\ \A i \in 1..Len(d) : x[i] = d[(Len(d) - i) + 1]
  BY ReverseIs
<1>3. /\ y \in Seq(S) /\ Len(y) = Len(c)
      /\ \A i \in 1..Len(c) : y[i] = c[(Len(c) - i) + 1]
  BY ReverseIs
<1> HIDE DEF x, y
<1>4. ASSUME NEW i \in 1..Len(x)
      PROVE  y[i] = x[i]
  <2>1. /\ i \in 1..Len(d) /\ i \in 1..Len(c) /\ (Len(d) - i) + 1 \in 1..Len(d)
        /\ Len(c) - Len(d) + ((Len(d) - i) + 1) = (Len(c) - i) + 1
    BY <1>1, <1>2
  <2> QED
    BY <1>2, <1>3, <2>1
<1>5. Channel!IsStrictPrefix(x, y)
  BY <1>1, <1>2, <1>3, <1>4, PrefixIs
<1> QED
  BY <1>1, <1>5
     DEF Channel!IsStrictSuffix, Channel!IsSuffix, Channel!IsStrictPrefix, x, y

LEMMA AdvanceInjective ==
  ASSUME NEW a \in Slots, NEW i \in 0..(PIPE_BUFFER_SIZE - 1),
         NEW j \in 0..(PIPE_BUFFER_SIZE - 1), Advance(a, i) = Advance(a, j)
  PROVE  i = j
<1> DEFINE N == PIPE_BUFFER_SIZE
<1>1. N \in Nat \ {0} /\ a \in 0..(N - 1) /\ i \in 0..N /\ j \in 0..N
  BY PipeAssumption DEF Slots
<1>2. /\ Advance(a, i) = IF a + i < N THEN a + i ELSE a + i - N
      /\ Advance(a, j) = IF a + j < N THEN a + j ELSE a + j - N
  BY <1>1, AdvanceIs
<1>3. N \in Nat /\ a \in Nat /\ a < N /\ i \in Nat /\ i < N /\ j \in Nat /\ j < N
  BY <1>1
<1>4. (IF a + i < N THEN a + i ELSE a + i - N) =
        (IF a + j < N THEN a + j ELSE a + j - N)
  BY <1>2
<1> HIDE DEF N
<1> QED
  BY <1>3, <1>4

\* Writing leaves the bytes that are in the ring where they are.
LEMMA PutKeepsBytes ==
  ASSUME RingTypes, NEW g \in Pages, NEW n \in 0..PIPE_BUFFER_SIZE,
         NEW k \in 0..PIPE_BUFFER_SIZE, n + k <= PIPE_BUFFER_SIZE,
         write_pos[g] = Advance(read_pos[g], n), PutBytes(g, k)
  PROVE  \A i \in 1..n : buffer'[g][Advance(read_pos[g], i - 1)] =
                         buffer[g][Advance(read_pos[g], i - 1)]
<1> DEFINE r == read_pos[g]
           N == PIPE_BUFFER_SIZE
<1>1. N \in Nat \ {0} /\ r \in Slots /\ n \in Nat /\ k \in Nat
  BY PipeAssumption DEF RingTypes
<1>2. PICK bs \in [1..k -> Chars] :
        buffer' = [buffer EXCEPT ![g] = [i \in Slots |->
          IF \E d \in 1..k : i = Advance(write_pos[g], d - 1)
            THEN bs[CHOOSE d \in 1..k : i = Advance(write_pos[g], d - 1)]
            ELSE @[i]]]
  BY DEF PutBytes
<1>3. \A i \in Slots : (\A d \in 1..k : i # Advance(write_pos[g], d - 1))
                         => buffer'[g][i] = buffer[g][i]
  BY <1>2 DEF RingTypes
<1> SUFFICES ASSUME NEW i \in 1..n
             PROVE  buffer'[g][Advance(r, i - 1)] = buffer[g][Advance(r, i - 1)]
  OBVIOUS
<1>4. i - 1 \in 0..(N - 1) /\ i - 1 \in 0..N
  BY <1>1
<1>5. Advance(r, i - 1) \in Slots
  BY <1>1, <1>4, AdvanceIs
<1>6. ASSUME NEW d \in 1..k, Advance(r, i - 1) = Advance(write_pos[g], d - 1)
      PROVE  FALSE
  <2>1. /\ d - 1 \in 0..N /\ n + (d - 1) <= N /\ n + (d - 1) \in 0..(N - 1)
        /\ n + (d - 1) # i - 1
    BY <1>1
  <2>2. Advance(write_pos[g], d - 1) = Advance(r, n + (d - 1))
    BY <1>1, <2>1, AdvanceTwice
  <2> QED
    BY <1>1, <1>4, <1>6, <2>1, <2>2, AdvanceInjective
<1> HIDE DEF r
<1> QED
  BY <1>3, <1>5, <1>6

LEMMA StretchChannel ==
  ASSUME LineInv, NEW g, NEW op, NEW n, NEW held, AtStretch(g, op, n, held),
         Stretch(g, op, n, held), UNCHANGED <<shell_pc, job, fg_pid>>
  PROVE  ChannelStep
<1> DEFINE k == Moved(g, op, n, held)
           N == PIPE_BUFFER_SIZE
           S == Stored(g)
           old == Bytes(buffer[g], read_pos[g], S)
           S1 == Stored(g)'
           new == Bytes(buffer'[g], read_pos'[g], S1)
<1>1. /\ g \in Pages /\ active[g] /\ op \in Ops /\ RingTypes /\ RingConserved
  BY TypesSplit DEF AtStretch, LineInv
<1>2. /\ k \in 0..N /\ k <= Units(g, op)
      /\ UNCHANGED <<pipe_table, active>>
      /\ (op = "write" /\ PutBytes(g, k)) \/ (op = "read" /\ TakeBytes(g, k))
      /\ Units(g, op)' = Units(g, op) - k
      /\ Units(g, Other(op))' = Units(g, Other(op)) + k
      /\ \A h \in Pages \ {g}, o \in Ops : Units(h, o)' = Units(h, o)
  BY StretchKeeps
<1> HIDE DEF k
<1>3. /\ buffer' \in [Pages -> [Slots -> Chars]]
      /\ read_pos' \in [Pages -> Slots] /\ write_pos' \in [Pages -> Slots]
      /\ \A h \in Pages \ {g} : buffer'[h] = buffer[h] /\ read_pos'[h] = read_pos[h]
      /\ op = "write" => /\ read_pos'[g] = read_pos[g]
                         /\ write_pos'[g] = Advance(write_pos[g], k)
      /\ op = "read" => /\ buffer' = buffer
                        /\ read_pos'[g] = Advance(read_pos[g], k)
  BY <1>1, <1>2, StretchBytes
<1>4. RingTypes' /\ RingConserved'
  BY StretchRings
<1>5. /\ S \in 0..N /\ S1 \in 0..N /\ N \in Nat \ {0}
      /\ write_pos[g] = Advance(read_pos[g], S)
  BY <1>1, <1>2, <1>4, PipeAssumption DEF RingConserved
<1>6. S1 = IF op = "write" THEN S + k ELSE S - k
  BY <1>1, <1>2, OtherOp DEF Stored, Units, WaitsOn, Other, Ops
<1>7. /\ buffer[g] \in [Slots -> Chars] /\ read_pos[g] \in Slots
      /\ buffer'[g] \in [Slots -> Chars] /\ read_pos'[g] \in Slots
  BY <1>1, <1>3 DEF RingTypes
<1>8. /\ Content(g) = old /\ Content(g)' = new
  BY <1>1, <1>2 DEF Content, Bytes, Advance
<1>9. \A h \in Pages \ {g} : Content(h)' = Content(h)
  <2>1. \A h \in Pages \ {g} : Stored(h)' = Stored(h)
    BY <1>2 DEF Stored, Units, WaitsOn, Ops
  <2> QED
    BY <1>2, <1>3, <2>1 DEF Content
<1> HIDE DEF S1, S
<1>10. /\ old \in Seq(Chars) /\ Len(old) = S
       /\ \A i \in 1..S : old[i] = buffer[g][Advance(read_pos[g], i - 1)]
  BY <1>5, <1>7, BytesIs
<1>11. /\ new \in Seq(Chars) /\ Len(new) = S1
       /\ \A i \in 1..S1 : new[i] = buffer'[g][Advance(read_pos'[g], i - 1)]
  BY <1>5, <1>7, BytesIs
<1> HIDE DEF old, new
<1>12. CASE op = "write"
  <2>1. \A i \in 1..S : new[i] = old[i]
    <3>1. \A i \in 1..S : buffer'[g][Advance(read_pos[g], i - 1)] =
                          buffer[g][Advance(read_pos[g], i - 1)]
      BY <1>1, <1>2, <1>5, <1>6, <1>12, PutKeepsBytes DEF S
    <3>2. \A i \in 1..S : i \in 1..S1
      BY <1>2, <1>5, <1>6, <1>12
    <3> QED
      BY <1>3, <1>10, <1>11, <1>12, <3>1, <3>2
  <2>2. CASE k = 0
    <3>1. S1 = S
      BY <1>2, <1>5, <1>6, <1>12, <2>2
    <3>2. new = old
      BY <1>10, <1>11, <2>1, <3>1, SeqEqual
    <3>3. UNCHANGED Channel!channelVars
      BY <1>2, <1>8, <1>9, <3>2 DEF Channel!channelVars
    <3> QED
      BY <3>3 DEF ChannelStep
  <2>3. CASE k # 0
    <3>1. Len(old) < Len(new) /\ Len(new) <= N
      BY <1>2, <1>5, <1>6, <1>10, <1>11, <1>12, <2>3
    <3>2. Channel!IsStrictPrefix(old, new)
      BY <1>10, <1>11, <2>1, <3>1, PrefixIs
    <3>3. Channel!Write(g)
      BY <1>1, <1>2, <1>8, <1>9, <1>11, <3>1, <3>2 DEF Channel!Write
    <3> QED
      BY <1>1, <3>3 DEF ChannelStep, Channel!Next
  <2> QED
    BY <2>2, <2>3
<1>13. CASE op = "read"
  <2>1. /\ S1 = S - k /\ k \in 0..N /\ k + S1 = S
        /\ buffer' = buffer /\ read_pos'[g] = Advance(read_pos[g], k)
    BY <1>2, <1>3, <1>5, <1>6, <1>13
  <2>2. ASSUME NEW i \in 1..S1
        PROVE  new[i] = old[k + i]
    <3>1. /\ i - 1 \in 0..N /\ k + (i - 1) <= N /\ k + i \in 1..S
          /\ k + (i - 1) = (k + i) - 1
      BY <1>2, <1>5, <2>1
    <3>2. Advance(Advance(read_pos[g], k), i - 1) = Advance(read_pos[g], k + (i - 1))
      BY <1>7, <2>1, <3>1, AdvanceTwice
    <3> QED
      BY <1>10, <1>11, <2>1, <3>1, <3>2
  <2>3. CASE k = 0
    <3>1. S1 = S /\ \A i \in 1..S1 : k + i = i
      BY <1>5, <2>1, <2>3
    <3>2. new = old
      BY <1>10, <1>11, <2>2, <3>1, SeqEqual
    <3>3. UNCHANGED Channel!channelVars
      BY <1>2, <1>8, <1>9, <3>2 DEF Channel!channelVars
    <3> QED
      BY <3>3 DEF ChannelStep
  <2>4. CASE k # 0
    <3>1. Len(new) < Len(old) /\ Len(old) - Len(new) = k
      BY <1>2, <1>5, <1>10, <1>11, <2>1, <2>4
    <3>2. \A i \in 1..Len(new) : new[i] = old[Len(old) - Len(new) + i]
      BY <1>11, <2>2, <3>1
    <3>3. Channel!IsStrictSuffix(new, old)
      BY <1>10, <1>11, <3>1, <3>2, SuffixIs
    <3>4. Channel!Read(g)
      BY <1>1, <1>2, <1>8, <1>9, <3>3 DEF Channel!Read
    <3> QED
      BY <1>1, <3>4 DEF ChannelStep, Channel!Next
  <2> QED
    BY <2>3, <2>4
<1> QED
  BY <1>1, <1>12, <1>13 DEF Ops

-----------------------------------------------------------------------------
(* The actions of the commands and of the kernel. *)

LEMMA ATransfer ==
  ASSUME LineInv, InProgram, current_process # Shell,
         NEW g, NEW op \in Ops, NEW n \in Counts,
         g \in {pipe_in[current_process], pipe_out[current_process]},
         Transfer(g, op, n), UNCHANGED <<shell_pc, job, fg_pid>>
  PROVE  LineInv' /\ ChannelStep
<1>1. g \in EndsOf(current_process) /\ active[g] /\ Stretch(g, op, n, 0)
  BY DEF Transfer, EndsOf
<1>2. current_process \in Pids \ {1, Shell} /\ g \in Pages
  BY <1>1, Running DEF InProgram, ProgramRuns
<1>3. call[current_process].op = "none"
  BY <1>2 DEF InProgram, ProgramRuns, InCall
<1>4. n \in Nat \ {0}
  BY PipelineAssumption
<1>5. PICK held \in {0} : held = 0
  OBVIOUS
<1>6. AtStretch(g, op, n, held) /\ Stretch(g, op, n, held)
  BY <1>1, <1>2, <1>3, <1>4, <1>5 DEF AtStretch
<1> QED
  BY <1>6, StretchStep, StretchChannel

\* block on anybody who is not dead.
LEMMA BlockStep ==
  ASSUME BlocksFairly, LineInv, NEW p \in Pids, PipeBlock(p),
         UNCHANGED <<shell_pc, job, fg_pid>>
  PROVE  LineInv' /\ ChannelStep
<1> DEFINE st == block_process(state, p)
<1>0. /\ TableInv /\ TypeOK /\ stopped \in SUBSET {q \in Pids : state[q] = "BLOCKED"}
      /\ current_process \in Pids /\ state[current_process] = "RUNNING"
  BY Running, TypesSplit DEF LineInv, TableInv, PcbTypes
<1>1. PICK S \in SUBSET Pids :
        S = IF state[p] = "BLOCKED" THEN stopped ELSE stopped \union {p}
  BY <1>0
<1>2. PcbFields(call) /\ Stopped(S) /\ UNCHANGED pipeVars
  BY <1>1 DEF PipeBlock
<1>3. /\ Live(p) /\ state[p] # "NONE"
      /\ \/ schedule_tick(st, waiting_for_pid)
         \/ p # current_process /\ ReturnToCaller(st, waiting_for_pid)
  BY DEF PipeBlock, SysBlock, BlocksFairly, Live
<1>4. /\ HandlerTable(st, waiting_for_pid)
      /\ \A q \in Pids : st[q] = IF q = p THEN "BLOCKED" ELSE state[q]
  BY <1>0, <1>3, UnchangedTable, ThenBlock
<1> HIDE DEF st
<1>5. \A q \in Pids : /\ st[q] \notin {"NONE", "KILLED"} <=> Live(q)
                      /\ st[q] = "BLOCKED" /\ q \notin S <=> SleepsInCall(q)
  BY <1>0, <1>1, <1>3, <1>4 DEF Live, SleepsInCall
<1>6. HandsOver(st, waiting_for_pid)
  <2>1. st[1] \notin {"NONE", "KILLED"}
    BY <1>5, Running DEF Live
  <2> QED
    BY <1>0, <1>3, <1>4, <2>1 DEF HandsOver
<1>7. WaitersOK(st, waiting_for_pid, call, S)
  BY <1>4, <1>5, <1>3 DEF LineInv, WaitInv, WaitersSleep, WaitersOK, Live
<1>8. ShellWaiting => st[Shell] = "BLOCKED"
  BY <1>4, Running DEF LineInv, WaitInv
<1> QED
  BY <1>2, <1>5, <1>6, <1>7, <1>8, TableStep

\* waitpid by a command.
LEMMA WaitStep ==
  ASSUME LineInv, InProgram, current_process # Shell, NEW t \in Pids, SysWaitpid(t),
         KeepPcbs(call), UNCHANGED pipeVars, UNCHANGED <<shell_pc, job, fg_pid>>
  PROVE  LineInv' /\ ChannelStep
<1> DEFINE st == block_process(state, current_process)
           wf == [waiting_for_pid EXCEPT ![current_process] = t]
<1> PICK p \in Pids : p = current_process
  BY Running
<1>0. /\ TableInv /\ TypeOK /\ state[p] = "RUNNING" /\ call[p].op = "none"
      /\ p \notin {1, Shell} /\ Shell \in Pids
  BY Running DEF LineInv, TableInv, InProgram, ProgramRuns, InCall, Pids
<1>1. PICK S \in SUBSET Pids : S = stopped /\ p \notin S
  BY <1>0, TypesSplit DEF LineInv, PcbTypes
<1>2. PcbFields(call) /\ Stopped(S)
  BY <1>1 DEF KeepPcbs
<1>3. Live(t) /\ schedule_tick(st, wf)
  BY DEF SysWaitpid, Live
<1>4. HandlerTable(st, wf)
  BY <1>0, <1>3, WaitpidTable DEF Live, Pids
<1>5. \A q \in Pids : /\ st[q] = IF q = p THEN "BLOCKED" ELSE state[q]
                      /\ wf[q] = IF q = p THEN t ELSE waiting_for_pid[q]
  BY <1>0 DEF block_process, TypeOK
<1> HIDE DEF st, wf
<1>6. \A q \in Pids : /\ st[q] \notin {"NONE", "KILLED"} <=> Live(q)
                      /\ q # p => (st[q] = "BLOCKED" /\ q \notin S <=> SleepsInCall(q))
  BY <1>0, <1>1, <1>5 DEF Live, SleepsInCall
<1>7. HandsOver(st, wf)
  BY <1>3, <1>4, <1>6, Running DEF HandsOver, Live
<1>8. WaitersOK(st, wf, call, S)
  BY <1>0, <1>1, <1>5, <1>6 DEF LineInv, WaitInv, WaitersSleep, WaitersOK
<1>9. wf[Shell] = waiting_for_pid[Shell] /\ (ShellWaiting => st[Shell] = "BLOCKED")
  BY <1>0, <1>5 DEF LineInv, WaitInv
<1>10. \A q \in Pids : call[q].op \in Ops => q # p
  BY <1>0 DEF Ops
<1> QED
  BY <1>2, <1>6, <1>7, <1>8, <1>9, <1>10, TableStep

\* unblock of somebody who does not sleep in a transfer or in waitpid.
LEMMA UnblockStep ==
  ASSUME LineInv, NEW p \in Pids, SysUnblock(p), ~SleepsInCall(p),
         KeepPcbs(call), UNCHANGED pipeVars, UNCHANGED <<shell_pc, job, fg_pid>>
  PROVE  LineInv' /\ ChannelStep
<1> DEFINE st == unblock_process(state, {p})
<1>0. /\ TableInv /\ TypeOK
      /\ current_process \in Pids /\ state[current_process] = "RUNNING"
  BY Running DEF LineInv, TableInv
<1>1. PICK S \in SUBSET Pids : S = stopped
  BY TypesSplit DEF LineInv, PcbTypes
<1>2. PcbFields(call) /\ Stopped(S)
  BY <1>1 DEF KeepPcbs
<1>3. ReturnToCaller(st, waiting_for_pid)
  BY DEF SysUnblock
<1>4. HandlerTable(st, waiting_for_pid)
  BY <1>0, UnblockTable
<1>5. \A q \in Pids : st[q] =
        IF q = p /\ state[p] = "BLOCKED" THEN "READY" ELSE state[q]
  BY DEF unblock_process
<1> HIDE DEF st
<1>6. \A q \in Pids : /\ st[q] \notin {"NONE", "KILLED"} <=> Live(q)
                      /\ st[q] = "BLOCKED" /\ q \notin S <=> SleepsInCall(q)
  BY <1>1, <1>5 DEF Live, SleepsInCall
<1>7. HandsOver(st, waiting_for_pid)
  BY <1>0, <1>3, <1>4, <1>5, <1>6, Running DEF HandsOver, Live
<1>8. WaitersOK(st, waiting_for_pid, call, S)
  BY <1>5, <1>6 DEF LineInv, WaitInv, WaitersSleep, WaitersOK
<1>9. ShellWaiting => st[Shell] = "BLOCKED"
  BY <1>6, Running DEF LineInv, WaitInv, WaitersSleep, ShellWaiting
<1> QED
  BY <1>2, <1>6, <1>7, <1>8, <1>9, TableStep

\* nice touches no field that matters here.
LEMMA NiceStep ==
  ASSUME LineInv, NEW p \in Pids, NEW n \in Priorities, SysNice(p, n),
         KeepPcbs(call), UNCHANGED pipeVars, UNCHANGED <<shell_pc, job, fg_pid>>
  PROVE  LineInv' /\ ChannelStep
<1>1. TableInv'
  BY NextTable DEF LineInv, Next
<1>2. UNCHANGED <<state, waiting_for_pid, current_process, idle_pcb>>
  BY DEF SysNice
<1>3. PICK S \in SUBSET Pids : S = stopped
  BY TypesSplit DEF LineInv, PcbTypes
<1>4. PcbFields(call) /\ Stopped(S)
  BY <1>3 DEF KeepPcbs
<1>5. /\ PcbTypes' /\ PcbInv'
      /\ \A q \in Pids :
           /\ EndsOf(q)' = IF state'[q] = "NONE" THEN {} ELSE EndsOf(q)
           /\ call'[q] = IF state'[q] = "NONE" THEN NoCall ELSE call[q]
  BY <1>4, SameCalls, PcbsKept, TypesSplit DEF LineInv
<1>6. \A q \in Pids : /\ Live(q)' <=> Live(q)
                      /\ Live(q) => EndsOf(q)' = EndsOf(q) /\ call'[q] = call[q]
                      /\ SleepsInCall(q)' <=> SleepsInCall(q)
  BY <1>2, <1>3, <1>4, <1>5 DEF Live, SleepsInCall, Stopped
<1>7. RingTypes' /\ QueueInv' /\ RingConserved' /\ ChannelStep
  BY <1>6, TransfersKept, RingsKept
<1>8. IdleUp'
  BY <1>2, <1>5, Running DEF LineInv, IdleUp, IdleInv
<1>9. WaitersSleep'
  <2> SUFFICES ASSUME NEW q \in Pids, waiting_for_pid[q] # 0
               PROVE  /\ q # 1 /\ call'[q].op = "none"
                      /\ SleepsInCall(q)' \/ state'[q] = "KILLED"
    BY <1>2 DEF WaitersSleep
  <2> QED
    BY <1>2, <1>5, <1>6 DEF LineInv, WaitInv, WaitersSleep, NoCall
<1>10. /\ Live(Shell)' /\ EndsOf(Shell)' = {}
       /\ waiting_for_pid'[Shell] = waiting_for_pid[Shell]
       /\ ShellWaiting => ShellWaiting' /\ state'[Shell] = "BLOCKED"
  BY <1>2, <1>6, Running DEF LineInv, ShellInv, WaitInv, ShellWaiting
<1>11. UNCHANGED <<shell_pc, job, pipe_table>> /\ UNCHANGED active
  BY DEF pipeVars
<1>12. ShellInv' /\ WaitInv' /\ HolderInv' /\ ActiveInv'
  BY <1>6, <1>9, <1>10, <1>11, OthersKeepLine
<1> QED
  BY <1>1, <1>5, <1>7, <1>8, <1>12, LineParts

LEMMA CommandMoves ==
  ASSUME BlocksFairly, OwnPipes, LineInv, CommandStep
  PROVE  LineInv' /\ ChannelStep
<1>1. /\ InProgram /\ current_process # Shell
      /\ UNCHANGED <<shell_pc, job, fg_pid>>
  BY DEF CommandStep, OtherProgram
<1>2. current_process \in Pids \ {1, Shell}
  BY <1>1, Running DEF InProgram, ProgramRuns
<1>3. ASSUME NEW n \in Counts, SysRead(n) \/ SysWrite(n)
      PROVE  LineInv' /\ ChannelStep
  <2>1. CASE SysRead(n)
    BY <1>1, <1>3, <2>1, ATransfer DEF SysRead, Ops
  <2>2. CASE SysWrite(n)
    BY <1>1, <1>3, <2>2, ATransfer DEF SysWrite, Ops
  <2> QED
    BY <1>3, <2>1, <2>2
<1>4. ASSUME NEW id \in Ids, NEW n \in Counts, KnowsId(id),
             PipeReadId(id, n) \/ PipeWriteId(id, n)
      PROVE  LineInv' /\ ChannelStep
  <2>1. pipe_table[id] \in {pipe_in[current_process], pipe_out[current_process]}
    BY <1>4 DEF KnowsId, OwnPipes
  <2>2. CASE PipeReadId(id, n)
    BY <1>1, <1>4, <2>1, <2>2, ATransfer DEF PipeReadId, Ops
  <2>3. CASE PipeWriteId(id, n)
    BY <1>1, <1>4, <2>1, <2>3, ATransfer DEF PipeWriteId, Ops
  <2> QED
    BY <1>4, <2>2, <2>3
<1>5. CASE PipeExit
  <2>1. PICK p \in Pids \ {1, Shell} : p = current_process
    BY <1>2
  <2>2. state[p] # "NONE"
    BY <2>1, Running
  <2>3. PICK st : st = exit_process(unblock_process(state, AsleepOn(EndsOf(p))), p)
    OBVIOUS
  <2> QED
    BY <1>1, <1>5, <2>1, <2>2, <2>3, DeathStep DEF PipeExit
<1>6. ASSUME NEW p \in KillsIn, PipeKill(p)
      PROVE  LineInv' /\ ChannelStep
  <2>1. p \in Pids \ {1, Shell}
    BY PipelineAssumption
  <2>2. PICK st : st = exit_process(unblock_process(state, AsleepOn(EndsOf(p))), p)
    OBVIOUS
  <2> QED
    BY <1>1, <1>6, <2>1, <2>2, DeathStep DEF PipeKill
<1>7. ASSUME NEW new \in Pids, PipeCreateProcess(0, 0, new)
      PROVE  LineInv' /\ ChannelStep
  <2>1. PICK none \in 0..MAX_PIPES : none = 0
    BY PipeAssumption
  <2>2. {pipe_table_get(none), pipe_table_get(none)} \ {0} = {}
    BY <2>1 DEF pipe_table_get
  <2>3. AfterCreate(new, {pipe_table_get(none), pipe_table_get(none)} \ {0})
    BY <1>7, <2>1, CreateSucceeds
  <2>4. AfterCreate(new, {})
    BY <2>2, <2>3
  <2>5. UNCHANGED <<pipe_table, active>>
    BY <1>7 DEF PipeCreateProcess, pipeVars
  <2> QED
    BY <1>1, <2>4, <2>5, CreateOtherStep
<1>8. ASSUME NEW p \in BlockTargets, PipeBlock(p)
      PROVE  LineInv' /\ ChannelStep
  <2>1. p \in Pids
    BY TargetsAssumption
  <2> QED
    BY <1>1, <1>8, <2>1, BlockStep
<1>9. CASE PipeCall
  <2>1. KeepPcbs(call) /\ UNCHANGED pipeVars
    BY <1>9 DEF PipeCall
  <2>2. CASE SysYield
    BY <1>1, <2>1, <2>2, TickStep DEF SysYield
  <2>3. ASSUME NEW p \in WaitsIn, SysWaitpid(p)
        PROVE  LineInv' /\ ChannelStep
    <3>1. p \in Pids
      BY PipeAssumption
    <3> QED
      BY <1>1, <2>1, <2>3, <3>1, WaitStep
  <2>4. ASSUME NEW p \in Pids, NEW n \in Nices, SysNice(p, n)
        PROVE  LineInv' /\ ChannelStep
    <3>1. n \in Priorities
      BY PipeAssumption
    <3> QED
      BY <1>1, <2>1, <2>4, <3>1, NiceStep
  <2>5. ASSUME NEW p \in BlockTargets, SysUnblock(p), SleepsInCall(p) => UnblocksSleepers
        PROVE  LineInv' /\ ChannelStep
    <3>1. p \in Pids /\ ~SleepsInCall(p)
      BY <2>5, TargetsAssumption DEF BlocksFairly
    <3> QED
      BY <1>1, <2>1, <2>5, <3>1, UnblockStep
  <2> QED
    BY <1>9, <2>2, <2>3, <2>4, <2>5 DEF PipeCall
<1> QED
  BY <1>3, <1>4, <1>5, <1>6, <1>7, <1>8, <1>9 DEF CommandStep

LEMMA CtrlCMoves ==
  ASSUME LineInv, CtrlC
  PROVE  LineInv' /\ ChannelStep
<1>1. fg_pid \in Jobs /\ fg_pid # 0
  BY DEF LineInv, ShellInv, CtrlC
<1>2. PICK p \in Pids \ {1, Shell} : p = fg_pid
  BY <1>1 DEF Jobs
<1>3. PICK st : st = exit_process(unblock_process(state, AsleepOn(EndsOf(p))), p)
  OBVIOUS
<1> QED
  BY <1>2, <1>3, DeathStep DEF CtrlC

LEMMA KernelMoves ==
  ASSUME LineInv, KernelStep
  PROVE  LineInv' /\ ChannelStep
<1>1. UNCHANGED <<shell_pc, job, fg_pid>>
  BY DEF KernelStep
<1>2. CASE PipeTimer
  BY <1>1, <1>2, TimerStep
<1>3. CASE PipeResume
  <2> PICK p \in Pids : p = current_process
    BY Running
  <2>1. InCall /\ call[p].op # "none"
    BY <1>3 DEF PipeResume, InCall
  <2>2. call[p].op \in Ops /\ p \in Pids \ {1, Shell}
    BY <2>1, Running
  <2>3. call[p].page \in EndsOf(p) /\ call[p].left > 0 /\ call[p].left \in Nat
    BY <2>1 DEF LineInv, PcbInv, PipeTypeOK
  <2>4. call[p].page \in Pages
    BY <2>3, Running
  <2>5. CASE active[call[p].page]
    <3>1. PICK held \in {1} : held = 1
      OBVIOUS
    <3>2. PICK g \in Pages, op \in Ops, n \in Nat \ {0} :
            g = call[p].page /\ op = call[p].op /\ n = call[p].left
      BY <2>2, <2>3, <2>4
    <3>3. Stretch(g, op, n, held)
      BY <1>3, <2>5, <3>1, <3>2 DEF PipeResume
    <3>4. AtStretch(g, op, n, held)
      BY <2>2, <2>3, <2>5, <3>1, <3>2 DEF AtStretch
    <3> QED
      BY <1>1, <3>3, <3>4, StretchStep, StretchChannel
  <2>6. CASE ~active[call[p].page]
    <3>1. /\ ReturnToCaller(state, waiting_for_pid)
          /\ KeepPcbs([call EXCEPT ![current_process] = NoCall])
          /\ UNCHANGED pipeVars
      BY <1>3, <2>6 DEF PipeResume
    <3> QED
      BY <1>1, <2>1, <2>6, <3>1, LeaveStep
  <2> QED
    BY <2>5, <2>6
<1> QED
  BY <1>2, <1>3 DEF KernelStep

-----------------------------------------------------------------------------
(* The actions of the shell. *)

\* The shell is not waiting while it runs.
LEMMA ShellRuns ==
  ASSUME LineInv, NEW pc, ShellAt(pc)
  PROVE  /\ current_process = Shell /\ state[Shell] = "RUNNING" /\ shell_pc = pc
         /\ Shell \in Pids /\ CallsOK(call) /\ ~ShellWaiting
         /\ waiting_for_pid[Shell] = 0
<1>1. current_process = Shell /\ shell_pc = pc
  BY DEF ShellAt
<1>2. state[Shell] = "RUNNING" /\ Shell \in Pids
  BY <1>1, Running
<1>3. ~ShellWaiting
  BY <1>2 DEF LineInv, WaitInv
<1>4. waiting_for_pid[Shell] = 0
  BY <1>3 DEF ShellWaiting
<1> QED
  BY <1>1, <1>2, <1>3, <1>4, SameCalls, TypesSplit DEF LineInv

\* A step of the shell that only returns to it.
LEMMA ShellReturns ==
  ASSUME LineInv, NEW pc, ShellAt(pc),
         ReturnToCaller(state, waiting_for_pid), KeepPcbs(call)
  PROVE  /\ HandsOver(state, waiting_for_pid)
         /\ TableInv' /\ IdleUp' /\ PcbTypes' /\ PcbInv' /\ WaitInv'
         /\ Live(Shell)' /\ EndsOf(Shell)' = {} /\ ~ShellWaiting'
         /\ \A p \in Pids : /\ Live(p)' <=> Live(p)
                            /\ Live(p) => EndsOf(p)' = EndsOf(p)
<1>1. /\ current_process = Shell /\ state[Shell] = "RUNNING" /\ CallsOK(call)
      /\ waiting_for_pid[Shell] = 0
  BY ShellRuns
<1>2. HandsOver(state, waiting_for_pid)
  BY <1>1, UnchangedTable, Running DEF HandsOver, LineInv
<1>3. /\ TableInv' /\ IdleUp' /\ PcbTypes' /\ PcbInv'
      /\ \A p \in Pids : /\ Live(p)' <=> Live(p)
                         /\ Live(p) => EndsOf(p)' = EndsOf(p)
                         /\ waiting_for_pid'[p] \in {waiting_for_pid[p], 0}
  BY <1>1, <1>2, StepKeeps DEF Live
<1>4. Live(Shell)' /\ EndsOf(Shell)' = {} /\ ~ShellWaiting'
  BY <1>1, <1>3, Running DEF LineInv, ShellInv, ShellWaiting
<1>5. WaitInv'
  <2>1. WaitersOK(state, waiting_for_pid, call, stopped)
    BY WaitersStay
  <2>2. PcbFields(call) /\ Stopped(stopped) /\ stopped \in SUBSET Pids
    BY TypesSplit DEF KeepPcbs, LineInv, PcbTypes
  <2>3. WaitersSleep'
    BY <1>1, <1>2, <2>1, <2>2, WaitersKept
  <2> QED
    BY <1>4, <2>3 DEF WaitInv
<1> QED
  BY <1>2, <1>3, <1>4, <1>5

LEMMA TableKept ==
  ASSUME UNCHANGED <<pipe_table, active>>
  PROVE  PagesInTable' = PagesInTable /\ (ActiveInv => ActiveInv')
  BY DEF PagesInTable, ActiveInv

\* While no command is alive nobody is at a pipe.
LEMMA NobodyTransfers ==
  ASSUME LineInv, ~LeftMayLive, ~RightMayLive
  PROVE  /\ \A p \in Pids : Live(p) => EndsOf(p) = {} /\ call[p].op = "none"
         /\ \A g : \A op \in Ops : Transferring(g, op) = {} /\ Asleep(g, op) = {}
<1>1. \A p \in Pids : Live(p) => EndsOf(p) = {}
  BY DEF LineInv, HolderInv
<1>2. \A p \in Pids : Live(p) => call[p].op = "none"
  BY <1>1 DEF LineInv, PcbInv
<1>3. \A g : \A op \in Ops : Transferring(g, op) = {}
  BY <1>2 DEF Transferring, Live, Ops
<1> QED
  BY <1>1, <1>2, <1>3 DEF Asleep

LEMMA ShellAllocatesStep ==
  ASSUME Foreground, LineInv, ShellAllocates
  PROVE  LineInv' /\ ChannelStep
<1>1. PICK id \in Ids, m \in Modes :
        AllocPipe(id) /\ job' = [NoJob EXCEPT !.pipe = id, !.mode = m]
  BY DEF ShellAllocates
<1>2. ShellAt("prompt") /\ shell_pc' = "left" /\ UNCHANGED fg_pid /\ m = "fg"
  BY DEF ShellAllocates, ShellGoes, Foreground
<1>3. PICK g \in FreePages :
        pipe_table' = [pipe_table EXCEPT ![id] = g] /\ PipeCreate(g)
  BY <1>1 DEF AllocPipe, CreatePipeId
<1>4. ReturnToCaller(state, waiting_for_pid) /\ KeepPcbs(call)
  BY <1>1 DEF AllocPipe, CreatePipeId
<1>5. /\ TableInv' /\ IdleUp' /\ PcbTypes' /\ PcbInv' /\ WaitInv'
      /\ Live(Shell)' /\ EndsOf(Shell)' = {}
      /\ \A p \in Pids : /\ Live(p)' <=> Live(p)
                         /\ Live(p) => EndsOf(p)' = EndsOf(p)
  BY <1>2, <1>4, ShellReturns
<1>6. shell_pc = "prompt" /\ job.pipe = 0 /\ ~LeftMayLive /\ ~RightMayLive
  BY <1>2, ShellRuns DEF LineInv, ShellInv, LeftMayLive, RightMayLive
<1>7. PagesInTable = {} /\ g \in Pages /\ g # 0 /\ id # 0
  BY <1>6, PipeAssumption DEF LineInv, ShellInv, PagesInTable, FreePages, Ids
<1>8. \A h \in Pages : ~active[h]
  BY <1>7 DEF LineInv, ActiveInv
<1>9. \A p \in Pids : /\ Live(p)' => EndsOf(p)' = {}
                      /\ Live(p)' => call'[p].op = "none"
  BY <1>5, <1>6, NobodyTransfers DEF PcbInv
<1>10. pipe_table' \in [Ids -> Pages \union {0}]
  BY <1>3, <1>7, TypesSplit DEF LineInv, RingTypes
<1>11. RingTypes' /\ QueueInv' /\ RingConserved' /\ ChannelStep
  <2>1. \A h : \A op \in Ops : Transferring(h, op)' = {} /\ Asleep(h, op)' = {}
    BY <1>9 DEF Transferring, Asleep, Live, Ops
  <2>2. \A h \in Pages \ {g}, op \in Ops :
           /\ active[h] => Transferring(h, op)' = Transferring(h, op)
           /\ Asleep(h, op)' = Asleep(h, op)
    BY <1>6, <1>8, <2>1, NobodyTransfers
  <2> QED
    BY <1>3, <1>7, <1>8, <1>10, <2>1, <2>2, RingOpened
<1>12. \A i \in Ids : pipe_table'[i] = IF i = id THEN g ELSE pipe_table[i]
  BY <1>3, TypesSplit DEF LineInv, RingTypes
<1>13. ShellInv'
  <2>1. /\ job' \in [pipe : 0..MAX_PIPES, l : Jobs, r : Jobs, mode : {"fg"}]
        /\ job'.pipe = id
    <3>1. job' = [pipe |-> id, l |-> 0, r |-> 0, mode |-> "fg"]
      BY <1>1, <1>2 DEF NoJob
    <3>2. id \in 0..MAX_PIPES /\ 0 \in Jobs
      BY PipeAssumption DEF Ids, Jobs
    <3> QED
      BY <3>1, <3>2
  <2>2. \A i \in Ids : pipe_table'[i] # 0 <=> i = id
    BY <1>6, <1>7, <1>12 DEF LineInv, ShellInv, Ids
  <2>3. fg_pid' \in Jobs
    BY <1>2 DEF LineInv, ShellInv
  <2> QED
    BY <1>2, <1>5, <1>7, <2>1, <2>2, <2>3 DEF ShellInv, Labels
<1>14. HolderInv'
  BY <1>9 DEF HolderInv
<1>15. ActiveInv'
  <2>1. \A h \in Pages : active'[h] => h = g
    BY <1>3, <1>8, TypesSplit DEF PipeCreate, LineInv, RingTypes
  <2>2. g \in PagesInTable'
    BY <1>7, <1>12 DEF PagesInTable
  <2> QED
    BY <2>1, <2>2 DEF ActiveInv
<1> QED
  BY <1>5, <1>11, <1>13, <1>14, <1>15, LineParts

\* The page of the shell's pipe is in the table.
LEMMA ShellPage ==
  ASSUME LineInv, shell_pc # "prompt"
  PROVE  /\ job.pipe \in Ids /\ job.pipe # 0 /\ job.pipe \in 0..MAX_PIPES
         /\ pipe_table[job.pipe] \in Pages /\ pipe_table[job.pipe] # 0
         /\ PagesInTable = {pipe_table[job.pipe]}
         /\ pipe_table_get(job.pipe) = pipe_table[job.pipe]
<1>1. job.pipe \in Ids /\ job.pipe # 0 /\ job.pipe \in 0..MAX_PIPES
  BY PipeAssumption DEF LineInv, ShellInv, Ids
<1>2. pipe_table[job.pipe] \in Pages /\ pipe_table[job.pipe] # 0
  BY <1>1, TypesSplit DEF LineInv, ShellInv, RingTypes
<1>3. PagesInTable = {pipe_table[job.pipe]}
  BY <1>1, <1>2 DEF LineInv, ShellInv, PagesInTable
<1> QED
  BY <1>1, <1>2, <1>3 DEF pipe_table_get

\* create_process, as seen by the shell's line.
LEMMA ShellCreated ==
  ASSUME LineInv, NEW pc, ShellAt(pc), NEW new, NEW ends, AfterCreate(new, ends),
         UNCHANGED <<pipe_table, active>>
  PROVE  /\ Live(Shell)' /\ EndsOf(Shell)' = {} /\ WaitInv' /\ ActiveInv'
         /\ PagesInTable' = PagesInTable
         /\ \A p \in Pids : Live(p)' /\ p # new => Live(p) /\ EndsOf(p)' = EndsOf(p)
<1>1. /\ Shell # new
      /\ waiting_for_pid'[Shell] = 0 /\ WaitersSleep'
      /\ \A p \in Pids : Live(p)' /\ p # new => Live(p) /\ EndsOf(p)' = EndsOf(p)
  BY ShellRuns DEF AfterCreate
<1>2. Live(Shell)' /\ EndsOf(Shell)' = {}
  BY <1>1, Running DEF AfterCreate, LineInv, ShellInv
<1>3. WaitInv'
  BY <1>1, TwoFirst DEF WaitInv, ShellWaiting
<1> QED
  BY <1>1, <1>2, <1>3, TableKept DEF LineInv

LEMMA ShellCreatesLeftStep ==
  ASSUME LineInv, ShellCreatesLeft
  PROVE  LineInv' /\ ChannelStep
<1>1. ShellAt("left") /\ UNCHANGED fg_pid
  BY DEF ShellCreatesLeft
<1>2. /\ shell_pc = "left" /\ ~LeftMayLive /\ ~RightMayLive
      /\ fg_pid \in Jobs
      /\ job \in [pipe : 0..MAX_PIPES, l : Jobs, r : Jobs, mode : {"fg"}]
      /\ \A id \in Ids : pipe_table[id] # 0 <=> id = job.pipe
  BY <1>1, ShellRuns DEF LineInv, ShellInv, LeftMayLive, RightMayLive
<1>3. \A p \in Pids : Live(p) => EndsOf(p) = {}
  BY <1>2, NobodyTransfers
<1>4. ASSUME NEW new \in Pids, PipeCreateProcess(0, job.pipe, new),
             job' = [job EXCEPT !.l = new], ShellGoes("right")
      PROVE  LineInv' /\ ChannelStep
  <2> DEFINE ends == {pipe_table[job.pipe]}
  <2>1. PICK none \in 0..MAX_PIPES : none = 0
    BY PipeAssumption
  <2>2. {pipe_table_get(none), pipe_table_get(job.pipe)} \ {0} = ends
    BY <1>2, <2>1, ShellPage DEF pipe_table_get
  <2>3. AfterCreate(new, {pipe_table_get(none), pipe_table_get(job.pipe)} \ {0})
    BY <1>2, <1>4, <2>1, ShellPage, CreateSucceeds
  <2>4. AfterCreate(new, ends)
    BY <2>2, <2>3
  <2>5. UNCHANGED <<pipe_table, active>>
    BY <1>4 DEF PipeCreateProcess, pipeVars
  <2>6. ends = PagesInTable
    BY <1>2, ShellPage
  <2> HIDE DEF ends
  <2>7. /\ Live(Shell)' /\ EndsOf(Shell)' = {} /\ WaitInv' /\ ActiveInv'
        /\ PagesInTable' = PagesInTable
        /\ \A p \in Pids : Live(p)' /\ p # new => Live(p) /\ EndsOf(p)' = EndsOf(p)
    BY <1>1, <2>4, <2>5, ShellCreated
  <2>8. new \in Jobs /\ EndsOf(new)' = ends
    BY <2>4 DEF AfterCreate, Jobs
  <2>9. ShellInv'
    BY <1>1, <1>2, <1>4, <2>5, <2>7, <2>8, ShellPage DEF ShellInv, Labels, ShellGoes
  <2>10. HolderInv'
    <3>1. job'.l = new /\ LeftMayLive'
      BY <1>2, <1>4 DEF LeftMayLive, ShellGoes
    <3>2. \A p \in Pids : Live(p)' /\ EndsOf(p)' # {} => p = new
      BY <1>3, <2>7
    <3> QED
      BY <2>6, <2>7, <2>8, <3>1, <3>2 DEF HolderInv
  <2> QED
    BY <2>4, <2>7, <2>9, <2>10, LineParts DEF AfterCreate
<1>5. ASSUME PipeCreateFails, UNCHANGED job, ShellGoes("close")
      PROVE  LineInv' /\ ChannelStep
  <2>1. AfterCreate(0, {}) /\ UNCHANGED <<pipe_table, active>>
    BY <1>5, CreateGivesUp DEF PipeCreateFails, pipeVars
  <2>2. /\ Live(Shell)' /\ EndsOf(Shell)' = {} /\ WaitInv' /\ ActiveInv'
        /\ PagesInTable' = PagesInTable
        /\ \A p \in Pids : Live(p)' /\ p # 0 => Live(p) /\ EndsOf(p)' = EndsOf(p)
    BY <1>1, <2>1, ShellCreated
  <2>3. ShellInv'
    BY <1>1, <1>2, <1>5, <2>1, <2>2, ShellPage DEF ShellInv, Labels, ShellGoes
  <2>4. HolderInv'
    BY <1>3, <2>2 DEF HolderInv, Pids
  <2> QED
    BY <2>1, <2>2, <2>3, <2>4, LineParts DEF AfterCreate
<1> QED
  BY <1>4, <1>5 DEF ShellCreatesLeft

LEMMA ShellCreatesRightStep ==
  ASSUME LineInv, ShellCreatesRight
  PROVE  LineInv' /\ ChannelStep
<1>1. ShellAt("right") /\ UNCHANGED fg_pid
  BY DEF ShellCreatesRight
<1>2. /\ shell_pc = "right" /\ ~RightMayLive /\ fg_pid \in Jobs
      /\ job \in [pipe : 0..MAX_PIPES, l : Jobs, r : Jobs, mode : {"fg"}]
      /\ \A id \in Ids : pipe_table[id] # 0 <=> id = job.pipe
  BY <1>1, ShellRuns DEF LineInv, ShellInv, RightMayLive
<1>3. shell_pc' = "fg_left" /\ LeftMayLive' /\ RightMayLive'
  BY <1>2 DEF ShellCreatesRight, ShellGoes, AfterRight, LeftMayLive, RightMayLive
<1>4. \A p \in Pids : Live(p) /\ EndsOf(p) # {} =>
        EndsOf(p) \subseteq PagesInTable /\ p = job.l
  BY <1>2 DEF LineInv, HolderInv
<1>5. ASSUME NEW new \in Pids, PipeCreateProcess(job.pipe, 0, new),
             job' = [job EXCEPT !.r = new]
      PROVE  LineInv' /\ ChannelStep
  <2> DEFINE ends == {pipe_table[job.pipe]}
  <2>1. PICK none \in 0..MAX_PIPES : none = 0
    BY PipeAssumption
  <2>2. {pipe_table_get(job.pipe), pipe_table_get(none)} \ {0} = ends
    BY <1>2, <2>1, ShellPage DEF pipe_table_get
  <2>3. AfterCreate(new, {pipe_table_get(job.pipe), pipe_table_get(none)} \ {0})
    BY <1>2, <1>5, <2>1, ShellPage, CreateSucceeds
  <2>4. AfterCreate(new, ends)
    BY <2>2, <2>3
  <2>5. UNCHANGED <<pipe_table, active>>
    BY <1>5 DEF PipeCreateProcess, pipeVars
  <2>6. ends = PagesInTable
    BY <1>2, ShellPage
  <2> HIDE DEF ends
  <2>7. /\ Live(Shell)' /\ EndsOf(Shell)' = {} /\ WaitInv' /\ ActiveInv'
        /\ PagesInTable' = PagesInTable
        /\ \A p \in Pids : Live(p)' /\ p # new => Live(p) /\ EndsOf(p)' = EndsOf(p)
    BY <1>1, <2>4, <2>5, ShellCreated
  <2>8. new \in Jobs /\ EndsOf(new)' = ends
    BY <2>4 DEF AfterCreate, Jobs
  <2>9. ShellInv'
    BY <1>1, <1>2, <1>3, <1>5, <2>5, <2>7, <2>8, ShellPage DEF ShellInv, Labels
  <2>10. HolderInv'
    <3>1. job'.r = new /\ job'.l = job.l
      BY <1>2, <1>5
    <3>2. \A p \in Pids : Live(p)' /\ EndsOf(p)' # {} /\ p # new =>
            EndsOf(p)' \subseteq PagesInTable /\ p = job.l
      BY <1>4, <2>7
    <3> QED
      BY <1>3, <2>6, <2>7, <2>8, <3>1, <3>2 DEF HolderInv
  <2> QED
    BY <2>4, <2>7, <2>9, <2>10, LineParts DEF AfterCreate
<1>6. ASSUME PipeCreateFails, UNCHANGED job
      PROVE  LineInv' /\ ChannelStep
  <2>1. AfterCreate(0, {}) /\ UNCHANGED <<pipe_table, active>>
    BY <1>6, CreateGivesUp DEF PipeCreateFails, pipeVars
  <2>2. /\ Live(Shell)' /\ EndsOf(Shell)' = {} /\ WaitInv' /\ ActiveInv'
        /\ PagesInTable' = PagesInTable
        /\ \A p \in Pids : Live(p)' /\ p # 0 => Live(p) /\ EndsOf(p)' = EndsOf(p)
    BY <1>1, <2>1, ShellCreated
  <2>3. ShellInv'
    BY <1>1, <1>2, <1>3, <1>6, <2>1, <2>2, ShellPage DEF ShellInv, Labels
  <2>4. HolderInv'
    BY <1>3, <1>4, <1>6, <2>2 DEF HolderInv, Pids
  <2> QED
    BY <2>1, <2>2, <2>3, <2>4, LineParts DEF AfterCreate
<1> QED
  BY <1>5, <1>6 DEF ShellCreatesRight

LEMMA ShellSetsFgStep ==
  ASSUME LineInv, NEW pc, ShellAt(pc), NEW p \in Jobs, ShellSetsFg(p), NEW next,
         ShellGoes(next),
         \/ pc = "fg_left" /\ next = "wait_left"
         \/ pc = "fg_right" /\ next = "wait_right"
         \/ pc = "fg_none" /\ next = "close"
  PROVE  LineInv' /\ ChannelStep
<1>1. /\ ReturnToCaller(state, waiting_for_pid) /\ KeepPcbs(call)
      /\ fg_pid' = p /\ UNCHANGED <<pipe_table, active, job>> /\ UNCHANGED pipeVars
      /\ shell_pc' = next
  BY DEF ShellSetsFg, pipeVars, ShellGoes
<1>2. shell_pc = pc /\ ~ShellWaiting
  BY ShellRuns
<1>3. /\ HandsOver(state, waiting_for_pid)
      /\ TableInv' /\ IdleUp' /\ PcbTypes' /\ PcbInv' /\ WaitInv'
      /\ Live(Shell)' /\ EndsOf(Shell)' = {}
      /\ \A q \in Pids : /\ Live(q)' <=> Live(q)
                         /\ Live(q) => EndsOf(q)' = EndsOf(q)
  BY <1>1, ShellReturns
<1>4. RingTypes' /\ QueueInv' /\ RingConserved' /\ ChannelStep
  <2>1. /\ PcbFields(call) /\ Stopped(stopped) /\ stopped \in SUBSET Pids
        /\ \A q \in Pids : state[q] = "BLOCKED" /\ q \notin stopped <=> SleepsInCall(q)
    BY <1>1, TypesSplit DEF KeepPcbs, LineInv, PcbTypes, SleepsInCall
  <2>2. \A q \in Pids : state[q] \notin {"NONE", "KILLED"} <=> Live(q)
    BY DEF Live
  <2> QED
    BY <1>1, <1>3, <2>1, <2>2, TableOnlyStep
<1>5. ShellInv'
  BY <1>1, <1>2, <1>3 DEF LineInv, ShellInv, Labels
<1>6. (LeftMayLive => LeftMayLive') /\ (RightMayLive => RightMayLive')
  BY <1>1, <1>2 DEF LeftMayLive, RightMayLive
<1>7. HolderInv' /\ ActiveInv'
  BY <1>1, <1>3, <1>6, TableKept DEF LineInv, HolderInv
<1> QED
  BY <1>3, <1>4, <1>5, <1>7, LineParts

\* waitpid of one of the two commands.
LEMMA ShellWaitsStep ==
  ASSUME LineInv, NEW pc, ShellAt(pc), NEW t \in Jobs, ShellWaits(t), NEW next,
         ShellGoes(next),
         \/ pc = "wait_left" /\ next = "fg_right" /\ t = job.l
         \/ pc = "wait_right" /\ next = "fg_none" /\ t = job.r
  PROVE  LineInv' /\ ChannelStep
<1>1. /\ KeepPcbs(call) /\ UNCHANGED <<fg_pid, pipe_table, active, job>>
      /\ UNCHANGED pipeVars /\ shell_pc' = next
  BY DEF ShellWaits, pipeVars, ShellGoes
<1>2. /\ current_process = Shell /\ state[Shell] = "RUNNING" /\ shell_pc = pc
      /\ Shell \in Pids /\ CallsOK(call) /\ ~ShellWaiting
      /\ waiting_for_pid[Shell] = 0
  BY ShellRuns
<1>5. /\ PcbFields(call) /\ Stopped(stopped) /\ stopped \in SUBSET Pids
      /\ Shell \notin stopped
      /\ \A p \in Pids : state[p] = "BLOCKED" /\ p \notin stopped <=> SleepsInCall(p)
  BY <1>1, <1>2, TypesSplit DEF KeepPcbs, LineInv, PcbTypes, SleepsInCall
<1>3. CASE t # 0 /\ SysWaitpid(t)
  <2> DEFINE st == block_process(state, current_process)
             wf == [waiting_for_pid EXCEPT ![current_process] = t]
  <2>1. t \in Pids /\ Live(t) /\ schedule_tick(st, wf)
    BY <1>3 DEF SysWaitpid, Jobs, Live
  <2>2. HandlerTable(st, wf)
    BY <2>1, <1>2, WaitpidTable DEF Live, LineInv, Shell
  <2>3. /\ \A p \in Pids : st[p] = IF p = Shell THEN "BLOCKED" ELSE state[p]
        /\ \A p \in Pids : wf[p] = IF p = Shell THEN t ELSE waiting_for_pid[p]
    BY <1>2 DEF block_process, LineInv, TableInv, TypeOK
  <2> HIDE DEF st, wf
  <2>4. HandsOver(st, wf)
    BY <2>1, <2>2, <2>3, Running DEF HandsOver
  <2>5. /\ TableInv' /\ IdleUp' /\ PcbTypes' /\ PcbInv'
        /\ \A p \in Pids :
              /\ p # 1 => (state'[p] = "BLOCKED" <=> st[p] = "BLOCKED")
              /\ Live(p)' <=> st[p] \notin {"NONE", "KILLED"}
              /\ waiting_for_pid'[p] \in {wf[p], 0}
              /\ EndsOf(p)' \subseteq EndsOf(p)
              /\ Live(p)' => /\ waiting_for_pid'[p] = wf[p]
                             /\ EndsOf(p)' = EndsOf(p)
    BY <1>1, <1>2, <2>4, StepKeeps
  <2>6. RingTypes' /\ QueueInv' /\ RingConserved' /\ ChannelStep
    <3>1. \A p \in Pids : st[p] \notin {"NONE", "KILLED"} <=> Live(p)
      BY <1>2, <2>3 DEF Live
    <3>2. \A p \in Pids : call[p].op \in Ops =>
            (st[p] = "BLOCKED" /\ p \notin stopped <=> SleepsInCall(p))
      BY <1>5, <2>3, Running DEF Ops
    <3> QED
      BY <1>1, <1>5, <2>4, <3>1, <3>2, TableOnlyStep
  <2>7. /\ \A p \in Pids : Live(p)' <=> Live(p)
        /\ Live(Shell)' /\ EndsOf(Shell)' = {} /\ state'[Shell] = "BLOCKED"
        /\ waiting_for_pid'[Shell] = t
    BY <1>2, <2>3, <2>5, Running DEF Live, LineInv, ShellInv
  <2>8. ShellWaiting' /\ WaitInv'
    <3>1. WaitersOK(st, wf, call, stopped)
      BY <1>5, <2>3, Running DEF LineInv, WaitInv, WaitersSleep, WaitersOK, SleepsInCall
    <3>2. WaitersSleep'
      BY <1>2, <1>5, <2>4, <3>1, WaitersKept
    <3> QED
      BY <1>1, <1>2, <1>3, <2>7, <3>2 DEF WaitInv, ShellWaiting
  <2>9. ShellInv'
    BY <1>1, <1>2, <2>7 DEF LineInv, ShellInv, Labels
  <2>10. (LeftMayLive => LeftMayLive') /\ (RightMayLive => RightMayLive')
    BY <1>1, <1>2, <2>8 DEF LeftMayLive, RightMayLive
  <2>11. HolderInv' /\ ActiveInv'
    BY <1>1, <2>5, <2>7, <2>10, TableKept DEF LineInv, HolderInv
  <2> QED
    BY <2>5, <2>6, <2>8, <2>9, <2>11, LineParts
<1>4. CASE (t # 0 => state[t] \in {"NONE", "KILLED"}) /\ ReturnToCaller(state, waiting_for_pid)
  <2>1. /\ HandsOver(state, waiting_for_pid)
        /\ TableInv' /\ IdleUp' /\ PcbTypes' /\ PcbInv' /\ WaitInv'
        /\ Live(Shell)' /\ EndsOf(Shell)' = {}
        /\ \A q \in Pids : /\ Live(q)' <=> Live(q)
                           /\ Live(q) => EndsOf(q)' = EndsOf(q)
    BY <1>1, <1>4, ShellReturns
  <2>2. RingTypes' /\ QueueInv' /\ RingConserved' /\ ChannelStep
    BY <1>1, <1>5, <2>1, TableOnlyStep DEF Live
  <2>3. ShellInv'
    BY <1>1, <1>2, <2>1 DEF LineInv, ShellInv, Labels
  <2>4. \A q \in Pids : Live(q) => q # t
    BY <1>4 DEF Live, Pids
  <2>5. /\ LeftMayLive => LeftMayLive' \/ t = job.l
        /\ RightMayLive => RightMayLive' \/ t = job.r
    BY <1>1, <1>2 DEF LeftMayLive, RightMayLive
  <2>6. HolderInv' /\ ActiveInv'
    BY <1>1, <2>1, <2>4, <2>5, TableKept DEF LineInv, HolderInv
  <2> QED
    BY <2>1, <2>2, <2>3, <2>6, LineParts
<1> QED
  BY <1>3, <1>4 DEF ShellWaits

LEMMA ShellClosesStep ==
  ASSUME LineInv, ShellCloses
  PROVE  LineInv' /\ ChannelStep
<1> DEFINE g == pipe_table[job.pipe]
<1>1. ShellAt("close") /\ job' = NoJob /\ shell_pc' = "prompt" /\ UNCHANGED fg_pid
  BY DEF ShellCloses, ShellGoes
<1>2. /\ pipe_close({g}) /\ pipe_table' = [pipe_table EXCEPT ![job.pipe] = 0]
      /\ ReturnToCaller(unblock_process(state, AsleepOn({g})), waiting_for_pid)
      /\ KeepPcbs(call)
  BY DEF ShellCloses, ClosePipeId
<1>3. shell_pc = "close" /\ ~LeftMayLive /\ ~RightMayLive
  BY <1>1, ShellRuns DEF LeftMayLive, RightMayLive
<1>4. /\ job.pipe \in Ids /\ g \in Pages /\ g # 0 /\ PagesInTable = {g}
      /\ {g} \in SUBSET Pages
  BY <1>3, ShellPage
<1> HIDE DEF g
<1>5. \A p \in Pids : Live(p) => EndsOf(p) = {} /\ call[p].op = "none"
  BY <1>3, NobodyTransfers
<1>6. AsleepOn({g}) = {}
  <2>1. \A q : q \in AsleepOn({g}) =>
          q \in Pids /\ state[q] = "BLOCKED" /\ call[q].op \in Ops
    BY <1>4, WhoIsAsleep DEF SleepsInCall
  <2> QED
    BY <1>5, <2>1 DEF Live, Ops
<1>7. unblock_process(state, AsleepOn({g})) = state
  BY <1>6 DEF unblock_process, LineInv, TableInv, TypeOK
<1>8. ReturnToCaller(state, waiting_for_pid)
  BY <1>2, <1>7
<1>9. /\ TableInv' /\ IdleUp' /\ PcbTypes' /\ PcbInv' /\ WaitInv'
      /\ Live(Shell)' /\ EndsOf(Shell)' = {}
      /\ \A p \in Pids : /\ Live(p)' <=> Live(p)
                         /\ Live(p) => EndsOf(p)' = EndsOf(p)
  BY <1>1, <1>2, <1>8, ShellReturns
<1>10. \A p \in Pids : Live(p)' => EndsOf(p)' = {} /\ call'[p].op = "none"
  BY <1>5, <1>9 DEF PcbInv
<1>11. pipe_table' \in [Ids -> Pages \union {0}]
  BY <1>2, TypesSplit DEF LineInv, RingTypes
<1>12. RingTypes' /\ QueueInv' /\ RingConserved' /\ ChannelStep
  <2>1. \A h : \A op \in Ops : Transferring(h, op) = {} /\ Asleep(h, op) = {}
    BY <1>3, NobodyTransfers
  <2>2. \A h : \A op \in Ops : Transferring(h, op)' = {} /\ Asleep(h, op)' = {}
    BY <1>10 DEF Transferring, Asleep, Live, Ops
  <2>3. \A h \in Pages, op \in Ops :
           IF h \in {g} THEN Asleep(h, op)' = {}
           ELSE /\ Transferring(h, op)' = Transferring(h, op)
                /\ Asleep(h, op)' = Asleep(h, op)
    BY <2>1, <2>2
  <2> QED
    BY <1>2, <1>4, <1>11, <2>3, RingsClosed
<1>13. \A id \in Ids : pipe_table'[id] = 0
  BY <1>2, TypesSplit DEF LineInv, ShellInv, RingTypes
<1>14. ShellInv'
  <2>1. job' \in [pipe : 0..MAX_PIPES, l : Jobs, r : Jobs, mode : {"fg"}]
    BY <1>1, PipeAssumption DEF NoJob, Jobs
  <2>2. job'.pipe = 0 /\ \A id \in Ids : id # 0
    BY <1>1 DEF NoJob, Ids
  <2> QED
    BY <1>1, <1>9, <1>13, <2>1, <2>2 DEF LineInv, ShellInv, Labels
<1>15. HolderInv'
  BY <1>10 DEF HolderInv
<1>16. ActiveInv'
  BY <1>2, <1>4 DEF LineInv, ActiveInv, pipe_close
<1> QED
  BY <1>9, <1>12, <1>14, <1>15, <1>16, LineParts

LEMMA ShellMoves ==
  ASSUME Foreground, LineInv, ShellStep
  PROVE  LineInv' /\ ChannelStep
<1>1. /\ job.l \in Jobs /\ job.r \in Jobs /\ fg_pid \in Jobs
      /\ \E none \in Jobs : none = 0
  BY DEF LineInv, ShellInv, Jobs
<1>2. CASE ShellWaitsLeft
  BY <1>1, <1>2, ShellSetsFgStep, ShellWaitsStep DEF ShellWaitsLeft
<1>3. CASE ShellWaitsRight
  <2>1. (IF job.r = 0 THEN fg_pid ELSE job.r) \in Jobs
    BY <1>1
  <2> QED
    BY <1>1, <1>3, <2>1, ShellSetsFgStep, ShellWaitsStep DEF ShellWaitsRight
<1>4. CASE ShellClearsFg
  BY <1>1, <1>4, ShellSetsFgStep DEF ShellClearsFg
<1> QED
  BY <1>2, <1>3, <1>4, ShellAllocatesStep, ShellCreatesLeftStep,
     ShellCreatesRightStep, ShellClosesStep DEF ShellStep

-----------------------------------------------------------------------------
(* The theorems. *)

LEMMA InitLine == LineInit => LineInv /\ Channel!Init
<1> SUFFICES ASSUME LineInit
             PROVE  LineInv /\ Channel!Init
  OBVIOUS
<1>1. Init /\ shell_pc = "prompt" /\ job = NoJob /\ fg_pid = 0
  BY DEF LineInit, PipeInit
<1>2. /\ pipe_table = [id \in Ids |-> 0]
      /\ buffer \in [Pages -> {[i \in Slots |-> c] : c \in Chars}]
      /\ read_pos = [g \in Pages |-> 0]
      /\ write_pos = [g \in Pages |-> 0]
      /\ active = [g \in Pages |-> FALSE]
      /\ status = [g \in Pages |-> [s \in Sems |-> 0]]
      /\ blocked_pids = [g \in Pages |-> [s \in Sems |-> <<>>]]
      /\ pipe_in = [p \in Pids |-> 0]
      /\ pipe_out = [p \in Pids |-> 0]
      /\ call = [p \in Pids |-> NoCall]
      /\ stopped = {}
  BY DEF LineInit, PipeInit
<1>3. /\ \A p \in Pids : /\ EndsOf(p) = {}
                         /\ call[p].op = "none" /\ call[p].page = 0
      /\ NoCall \in Transfers
  BY <1>2 DEF EndsOf, NoCall, Transfers
<1>4. /\ state[1] = "READY" /\ state[Shell] = "RUNNING"
      /\ \A p \in Pids : waiting_for_pid[p] = 0
      /\ current_process = 2 /\ idle_pcb = 1 /\ 1 \in Pids /\ Shell \in Pids
  BY <1>1, TwoFirst DEF Init, Shell
<1>5. TableInv
  BY <1>1, InitTable
<1>6. IdleUp
  BY <1>3, <1>4 DEF IdleUp, IdleInv
<1>7. 0 \in Slots
  BY PipeAssumption DEF Slots
<1>8. RingTypes
  <2>1. buffer \in [Pages -> [Slots -> Chars]]
    <3>1. {[i \in Slots |-> c] : c \in Chars} \subseteq [Slots -> Chars]
      OBVIOUS
    <3> QED
      BY <1>2, <3>1
  <2>2. /\ status \in [Pages -> [Sems -> Int]]
        /\ blocked_pids \in [Pages -> [Sems -> Seq(Pids)]]
    BY <1>2
  <2> QED
    BY <1>2, <1>7, <2>1, <2>2 DEF RingTypes
<1>9. PcbTypes
  BY <1>2, <1>3 DEF PcbTypes
<1>10. PcbInv
  BY <1>3 DEF PcbInv
<1>11. ShellInv
  <2>1. job \in [pipe : 0..MAX_PIPES, l : Jobs, r : Jobs, mode : {"fg"}]
    BY <1>1, PipeAssumption DEF NoJob, Jobs
  <2>2. job.pipe = 0 /\ \A id \in Ids : id # 0
    BY <1>1 DEF NoJob, Ids
  <2> QED
    BY <1>1, <1>2, <1>3, <1>4, <2>1, <2>2 DEF ShellInv, Live, Labels, Jobs
<1>12. WaitInv
  BY <1>4 DEF WaitInv, WaitersSleep, ShellWaiting
<1>13. HolderInv /\ ActiveInv
  BY <1>2, <1>3 DEF HolderInv, ActiveInv
<1>14. RingConserved
  BY <1>2 DEF RingConserved
<1>15. QueueInv
  <2>1. \A g, op : op \in Ops => Transferring(g, op) = {}
    BY <1>3 DEF Transferring, Ops
  <2>2. \A g \in Pages, s \in Sems :
          /\ status[g][s] = 0 /\ blocked_pids[g][s] = <<>>
          /\ Sleepers(g, s) = 0
    BY <1>2 DEF Sleepers
  <2>3. ToSet(<<>>) = {} /\ Len(<<>>) = 0
    BY DEF ToSet
  <2>4. QueuesAreSleepers
    BY <2>1, <2>2, <2>3, SemOps DEF QueuesAreSleepers, Ops
  <2>5. \A g \in Pages, s \in Sems : NoRepeats(blocked_pids[g][s])
    BY <2>2, <2>3 DEF NoRepeats
  <2> QED
    BY <2>4, <2>5 DEF QueueInv
<1>16. Channel!Init
  <2>1. \A g \in Pages : Content(g) = <<>>
    BY <1>2 DEF Content
  <2> QED
    BY <1>2, <2>1 DEF Channel!Init
<1>17. PipeTypeOK
  BY <1>5, <1>8, <1>9, TypesSplit DEF TableInv
<1> QED
  BY <1>5, <1>6, <1>10, <1>11, <1>12, <1>13, <1>14, <1>15, <1>16, <1>17 DEF LineInv

LEMMA StutterLine ==
  ASSUME LineInv, UNCHANGED lineVars
  PROVE  LineInv' /\ ChannelStep
<1>1. UNCHANGED <<vars, pipeVars, pcbVars, shell_pc, job, fg_pid>>
  BY DEF lineVars, allPipeVars
<1>2. \A p \in Pids : /\ Live(p)' <=> Live(p)
                      /\ EndsOf(p)' = EndsOf(p)
  BY <1>1 DEF vars, pcbVars, Live, EndsOf
<1>3. UNCHANGED <<call, state, stopped>>
  BY <1>1 DEF vars, pcbVars
<1>4. \A g \in Pages, op \in Ops : /\ Transferring(g, op)' = Transferring(g, op)
                                   /\ Asleep(g, op)' = Asleep(g, op)
  BY <1>3 DEF Transferring, Asleep, SleepsInCall
<1>5. RingTypes' /\ QueueInv' /\ RingConserved' /\ ChannelStep
  BY <1>1, <1>4, RingsKept
<1>6. TableInv' /\ IdleUp'
  BY <1>1, UnchangedTable DEF LineInv, IdleUp, IdleInv, TableInv, TypeOK,
     OnlyCurrentRuns, WaitTargetAlive, vars, pcbVars, EndsOf
<1>7. PcbTypes' /\ PcbInv'
  BY <1>1, TypesSplit DEF LineInv, PcbTypes, PcbInv, vars, pcbVars, EndsOf
<1>8. ShellInv' /\ WaitInv' /\ HolderInv' /\ ActiveInv'
  BY <1>1 DEF LineInv, ShellInv, WaitInv, WaitersSleep, SleepsInCall, HolderInv,
     ActiveInv, Live, EndsOf, PagesInTable, LeftMayLive, RightMayLive, ShellWaiting, vars, pipeVars, pcbVars
<1> QED
  BY <1>5, <1>6, <1>7, <1>8, LineParts

LEMMA NextLine ==
  ASSUME Foreground, BlocksFairly, OwnPipes, LineInv, [LineNext]_lineVars
  PROVE  LineInv' /\ ChannelStep
  BY ShellMoves, CommandMoves, CtrlCMoves, KernelMoves, StutterLine DEF LineNext

LEMMA LineInvariant ==
  ASSUME Foreground, BlocksFairly, OwnPipes
  PROVE  LineSpec => []LineInv
<1>1. LineInit => LineInv
  BY InitLine
<1>2. LineInv /\ [LineNext]_lineVars => LineInv'
  BY NextLine
<1> QED
  BY <1>1, <1>2, PTL DEF LineSpec

\* In foreground pipelines, if programs never unblock a process asleep in the
\* kernel, block a dead one nor use a pipe they are not an end of, every variable of
\* the pipes and of the processes that use them keeps its type, whatever else the
\* commands call (syscalls.c) and wherever the timer and Ctrl+C interrupt them.
THEOREM PipesTyped ==
  ASSUME Foreground, BlocksFairly, OwnPipes
  PROVE  LineSpec => []PipeTypeOK
<1>1. LineInv => PipeTypeOK
  BY DEF LineInv
<1> QED
  BY <1>1, LineInvariant, PTL

\* Under the same three assumptions pipe_read and pipe_write lose no slot and count
\* no byte twice, for every size of the ring, through partial transfers, wake-ups
\* and deaths.
THEOREM RingsConserve ==
  ASSUME Foreground, BlocksFairly, OwnPipes
  PROVE  LineSpec => []RingConserved
<1>1. LineInv => RingConserved
  BY DEF LineInv
<1> QED
  BY <1>1, LineInvariant, PTL

\* Under the same three assumptions who sleeps in a transfer is in the queue of its
\* semaphore, once, and the queues hold nobody else: no wake-up of a pipe is lost
\* or goes astray.
THEOREM QueuesSleep ==
  ASSUME Foreground, BlocksFairly, OwnPipes
  PROVE  LineSpec => []QueuesAreSleepers
<1>1. LineInv => QueuesAreSleepers
  BY DEF LineInv, QueueInv
<1> QED
  BY <1>1, LineInvariant, PTL

\* Under the same three assumptions the ring of pipe.c, its semaphores and all their
\* sleeps and wake-ups are a bounded FIFO channel that can be closed.
THEOREM PipesImplementChannel ==
  ASSUME Foreground, BlocksFairly, OwnPipes
  PROVE  LineSpec => ImplementsChannel
<1>1. LineInit => Channel!Init
  BY InitLine
<1>2. LineInv /\ [LineNext]_lineVars => [Channel!Next]_(Channel!channelVars)
  BY NextLine DEF ChannelStep
<1> QED
  BY <1>1, <1>2, LineInvariant, PTL DEF LineSpec, ImplementsChannel, Channel!Spec

-----------------------------------------------------------------------------
(* No pointer outlives its page.  When the shell frees the page its two     *)
(* commands are dead, but a PCB keeps its pointers until it is reaped.      *)

\* With turns of one tick every call of schedule_tick runs the scheduler.
LEMMA TickReaps ==
  ASSUME MIN_PRIORITY = 1, LineInv, OneTick, NEW st, NEW wf, schedule_tick(st, wf)
  PROVE  OneTick' /\ \A p \in Pids : state'[p] # "KILLED"
<1>1. \A p \in Pids : ticks_remaining[p] = 1 /\ priority[p] = 1
  BY DEF OneTick
<1>2. scheduler(st, wf)
  BY <1>1, Running DEF schedule_tick, KeepRunning, QuantumLeft
<1>3. PICK p, quantum : /\ p \in Pids => quantum = 1
                        /\ \/ Dispatch(p, st, quantum)
                           \/ /\ state' = Reaped(Preempted(st))
                              /\ ticks_remaining' =
                                   ReapedField(ticks_remaining, st, MIN_PRIORITY)
  <2>1. CASE RunNext(st)
    BY <1>1, <2>1 DEF RunNext, Candidates
  <2>2. CASE RunIdle(st)
    BY <2>2 DEF RunIdle
  <2>3. CASE RunNobody(st)
    BY <2>3 DEF RunNobody
  <2> QED
    BY <1>2, <2>1, <2>2, <2>3 DEF scheduler
<1>4. \A q \in Pids : Reaped(Preempted(st))[q] # "KILLED"
  BY DEF Reaped
<1>5. \A q \in Pids : state'[q] # "KILLED"
  BY <1>3, <1>4 DEF Dispatch, Reaped
<1>6. PICK reaped \in [Pids -> {1}] :
        reaped = ReapedField(ticks_remaining, st, MIN_PRIORITY)
  BY <1>1 DEF ReapedField
<1>7. \A q \in Pids : ticks_remaining'[q] = 1
  <2>1. ticks_remaining' = reaped \/ ticks_remaining' = [reaped EXCEPT ![p] = quantum]
    BY <1>3, <1>6 DEF Dispatch
  <2> QED
    BY <1>3, <1>6, <2>1
<1>8. \A q \in Pids : priority'[q] = 1
  BY <1>1, <1>2 DEF scheduler, ReapedField
<1> QED
  BY <1>5, <1>7, <1>8 DEF OneTick

\* A step that frees no page and hands out no pointer.
LEMMA DeadKept ==
  ASSUME MIN_PRIORITY = 1, LineInv, OneTick, DeadInv, UNCHANGED pipe_table,
         NEW cl, PcbFields(cl), NEW st, NEW wf,
         \/ schedule_tick(st, wf)
         \/ /\ ReturnToCaller(st, wf)
            /\ current_process # Shell \/ \A p \in Pids : st[p] # "KILLED"
  PROVE  OneTick' /\ DeadInv'
<1>1. \A p \in Pids : EndsOf(p)' \subseteq PagesInTable'
  BY DEF DeadInv, PcbFields, EndsOf, PagesInTable
<1>2. CASE schedule_tick(st, wf)
  BY <1>1, <1>2, TickReaps DEF DeadInv
<1>3. CASE ReturnToCaller(st, wf)
           /\ (current_process # Shell \/ \A p \in Pids : st[p] # "KILLED")
  BY <1>1, <1>3 DEF ReturnToCaller, OneTick, DeadInv
<1> QED
  BY <1>2, <1>3

LEMMA DeadStretch ==
  ASSUME MIN_PRIORITY = 1, LineInv, OneTick, DeadInv, current_process # Shell,
         NEW g, NEW op, NEW n, NEW held, Stretch(g, op, n, held)
  PROVE  OneTick' /\ DeadInv'
<1>1. PICK k, w, W, rest :
        /\ k = Moved(g, op, n, held) /\ w = Woken(g, op, k)
        /\ W = ToSet(SubSeq(blocked_pids[g][Posts(op)], 1, w))
        /\ rest = SubSeq(blocked_pids[g][Posts(op)], w + 1,
                         Len(blocked_pids[g][Posts(op)]))
  OBVIOUS
<1>2. /\ UNCHANGED pipe_table
      /\ Completes(g, op, k, held, W, rest) \/ FallsAsleep(g, op, n, k, held, W, rest)
  BY <1>1, StretchEnds
<1> QED
  BY <1>2, DeadKept DEF Completes, FallsAsleep, KeepPcbs

LEMMA DeadCreate ==
  ASSUME MIN_PRIORITY = 1, LineInv, OneTick, DeadInv,
         \/ PipeCreateFails
         \/ \E in, out \in {0, job.pipe}, new \in Pids : PipeCreateProcess(in, out, new)
  PROVE  OneTick' /\ DeadInv'
<1>1. CASE PipeCreateFails
  <2>1. OneTick' /\ \A p \in Pids : state'[p] # "KILLED"
    BY <1>1 DEF PipeCreateFails, CreateFails, OneTick, ReapedField, Reaped
  <2>2. \A p \in Pids : EndsOf(p)' \subseteq PagesInTable'
    BY <1>1 DEF PipeCreateFails, pipeVars, DeadInv, KeepPcbs, PcbFields, EndsOf, PagesInTable
  <2> QED
    BY <2>1, <2>2 DEF DeadInv
<1>2. ASSUME NEW in \in {0, job.pipe}, NEW out \in {0, job.pipe}, NEW new \in Pids,
             PipeCreateProcess(in, out, new)
      PROVE  OneTick' /\ DeadInv'
  <2>1. OneTick' /\ \A p \in Pids : state'[p] # "KILLED"
    BY <1>2 DEF PipeCreateProcess, CreateIn, OneTick, ReapedField, Reaped
  <2>2. job.pipe = 0 \/ job.pipe \in Ids
    BY PipeAssumption DEF LineInv, ShellInv, Ids
  <2>3. /\ pipe_table_get(in) \in PagesInTable \union {0}
        /\ pipe_table_get(out) \in PagesInTable \union {0}
    BY <2>2 DEF pipe_table_get, PagesInTable
  <2>4. \A p \in Pids : /\ pipe_in'[p] \in {pipe_in[p], 0, pipe_table_get(in)}
                        /\ pipe_out'[p] \in {pipe_out[p], 0, pipe_table_get(out)}
    BY <1>2 DEF PipeCreateProcess
  <2>5. PagesInTable' = PagesInTable
    BY <1>2 DEF PipeCreateProcess, pipeVars, PagesInTable
  <2>6. \A p \in Pids : EndsOf(p)' \subseteq PagesInTable
    BY <2>3, <2>4 DEF DeadInv, EndsOf
  <2> QED
    BY <2>1, <2>5, <2>6 DEF DeadInv
<1> QED
  BY <1>1, <1>2

LEMMA DeadShell ==
  ASSUME MIN_PRIORITY = 1, LineInv, OneTick, DeadInv, ShellStep
  PROVE  OneTick' /\ DeadInv'
<1>1. ASSUME NEW pc, ShellAt(pc)
      PROVE  \A p \in Pids : state[p] # "KILLED"
  BY <1>1, ShellRuns DEF DeadInv
<1>2. CASE ShellAllocates
  <2>1. /\ ShellAt("prompt") /\ KeepPcbs(call)
        /\ ReturnToCaller(state, waiting_for_pid)
    BY <1>2 DEF ShellAllocates, AllocPipe, CreatePipeId
  <2>2. PagesInTable = {}
    BY <2>1, ShellRuns DEF LineInv, ShellInv, PagesInTable, Ids
  <2>3. \A p \in Pids : EndsOf(p)' = {}
    BY <2>1, <2>2 DEF DeadInv, KeepPcbs, PcbFields, EndsOf
  <2> QED
    BY <1>1, <2>1, <2>3 DEF ReturnToCaller, OneTick, DeadInv
<1>3. CASE ShellCreatesLeft
  BY <1>3, DeadCreate DEF ShellCreatesLeft
<1>4. CASE ShellCreatesRight
  BY <1>4, DeadCreate DEF ShellCreatesRight
<1>5. ASSUME NEW pc, ShellAt(pc), NEW p, ShellSetsFg(p) \/ ShellWaits(p)
      PROVE  OneTick' /\ DeadInv'
  <2>1. UNCHANGED pipe_table /\ PcbFields(call)
    BY <1>5 DEF ShellSetsFg, ShellWaits, KeepPcbs, pipeVars
  <2>2. \/ ReturnToCaller(state, waiting_for_pid)
        \/ schedule_tick(block_process(state, current_process),
                         [waiting_for_pid EXCEPT ![current_process] = p])
    BY <1>5 DEF ShellSetsFg, ShellWaits, SysWaitpid
  <2> QED
    BY <1>1, <1>5, <2>1, <2>2, DeadKept
<1>6. CASE ShellWaitsLeft
  BY <1>5, <1>6 DEF ShellWaitsLeft
<1>7. CASE ShellWaitsRight
  BY <1>5, <1>7 DEF ShellWaitsRight
<1>8. CASE ShellClearsFg
  BY <1>5, <1>8 DEF ShellClearsFg
<1>9. CASE ShellCloses
  <2>1. PICK S : /\ ShellAt("close") /\ KeepPcbs(call)
                 /\ ReturnToCaller(unblock_process(state, S), waiting_for_pid)
    BY <1>9 DEF ShellCloses, ClosePipeId
  <2>2. ~LeftMayLive /\ ~RightMayLive
    BY <2>1, ShellRuns DEF LeftMayLive, RightMayLive
  <2>3. \A p \in Pids : EndsOf(p) = {}
    <3>1. \A p \in Pids : Live(p) => EndsOf(p) = {}
      BY <2>2, NobodyTransfers
    <3> QED
      BY <1>1, <2>1, <3>1 DEF Live, LineInv, PcbInv
  <2>4. \A p \in Pids : EndsOf(p)' = {}
    BY <2>1, <2>3 DEF KeepPcbs, PcbFields, EndsOf
  <2>5. \A p \in Pids : state'[p] # "KILLED"
    BY <1>1, <2>1 DEF ReturnToCaller, unblock_process
  <2> QED
    BY <2>1, <2>4, <2>5 DEF ReturnToCaller, OneTick, DeadInv
<1> QED
  BY <1>2, <1>3, <1>4, <1>6, <1>7, <1>8, <1>9 DEF ShellStep

LEMMA DeadOthers ==
  ASSUME MIN_PRIORITY = 1, Nices \subseteq {1}, LineInv, OneTick, DeadInv, CommandStep \/ CtrlC \/ KernelStep
  PROVE  OneTick' /\ DeadInv'
<1>1. ASSUME NEW p, NEW st,
             KeepPcbs(call), UNCHANGED pipe_table,
             \/ schedule_tick(st, StopWaiting(p))
             \/ ReturnToCaller(st, StopWaiting(p)) /\ current_process # Shell
      PROVE  OneTick' /\ DeadInv'
  BY <1>1, DeadKept DEF KeepPcbs
<1>2. CASE CommandStep
  <2>1. current_process # Shell
    BY <1>2 DEF CommandStep, OtherProgram
  <2>2. ASSUME NEW g, NEW op, NEW n, Transfer(g, op, n)
        PROVE  OneTick' /\ DeadInv'
    BY <2>1, <2>2, DeadStretch DEF Transfer
  <2>3. CASE \E n \in Counts : SysRead(n) \/ SysWrite(n)
    BY <2>2, <2>3 DEF SysRead, SysWrite
  <2>4. CASE \E id \in Ids, n \in Counts :
               KnowsId(id) /\ (PipeReadId(id, n) \/ PipeWriteId(id, n))
    BY <2>2, <2>4 DEF PipeReadId, PipeWriteId
  <2>5. CASE PipeExit
    BY <1>1, <2>5 DEF PipeExit
  <2>6. CASE \E p \in KillsIn : PipeKill(p)
    BY <1>1, <2>1, <2>6 DEF PipeKill
  <2>7. CASE \E new \in Pids : PipeCreateProcess(0, 0, new)
    BY <2>7, DeadCreate
  <2>8. CASE \E p \in BlockTargets : PipeBlock(p)
    <3>1. PICK p, st : /\ PcbFields(call) /\ UNCHANGED pipe_table
                       /\ \/ schedule_tick(st, waiting_for_pid)
                          \/ ReturnToCaller(st, waiting_for_pid)
      BY <2>8 DEF PipeBlock, SysBlock, pipeVars
    <3> QED
      BY <2>1, <3>1, DeadKept
  <2>9. CASE PipeCall
    <3>1. PcbFields(call) /\ UNCHANGED pipe_table
      BY <2>9 DEF PipeCall, KeepPcbs, pipeVars
    <3>2. CASE \E p \in Pids, n \in Nices : SysNice(p, n)
      <4>1. PICK p \in Pids, n \in Nices : SysNice(p, n)
        BY <3>2
      <4>2. n = 1 /\ UNCHANGED <<state, ticks_remaining, current_process>>
        BY <4>1 DEF SysNice
      <4>3. OneTick'
        BY <4>1, <4>2 DEF SysNice, OneTick, LineInv, TableInv, TypeOK
      <4>4. \A q \in Pids : EndsOf(q)' \subseteq PagesInTable'
        BY <3>1 DEF DeadInv, PcbFields, EndsOf, PagesInTable
      <4> QED
        BY <2>1, <4>2, <4>3, <4>4 DEF DeadInv
    <3>3. CASE ~\E p \in Pids, n \in Nices : SysNice(p, n)
      <4>1. PICK st, wf : schedule_tick(st, wf) \/ ReturnToCaller(st, wf)
        BY <2>9, <3>3 DEF PipeCall, SysYield, SysWaitpid, SysUnblock
      <4> QED
        BY <2>1, <3>1, <4>1, DeadKept
    <3> QED
      BY <3>2, <3>3
  <2> QED
    BY <1>2, <2>3, <2>4, <2>5, <2>6, <2>7, <2>8, <2>9 DEF CommandStep
<1>3. CASE CtrlC
  BY <1>1, <1>3 DEF CtrlC
<1>4. CASE KernelStep
  <2>1. CASE PipeTimer
    BY <2>1, DeadKept DEF PipeTimer, TimerTick, pipeVars, KeepPcbs
  <2>2. CASE PipeResume
    <3>1. current_process # Shell
      BY <2>2, Running DEF PipeResume, InCall
    <3>2. PICK cl : \/ /\ ReturnToCaller(state, waiting_for_pid)
                       /\ KeepPcbs(cl) /\ UNCHANGED pipe_table
                    \/ \E g, op, n, held : Stretch(g, op, n, held)
      BY <2>2 DEF PipeResume, pipeVars
    <3> QED
      BY <3>1, <3>2, DeadKept, DeadStretch DEF KeepPcbs
  <2> QED
    BY <1>4, <2>1, <2>2 DEF KernelStep
<1> QED
  BY <1>2, <1>3, <1>4

LEMMA DeadStutter ==
  ASSUME OneTick, DeadInv, UNCHANGED lineVars
  PROVE  OneTick' /\ DeadInv'
  BY DEF OneTick, DeadInv, EndsOf, PagesInTable, lineVars, allPipeVars, vars,
         pipeVars, pcbVars

LEMMA InitDead ==
  ASSUME MIN_PRIORITY = 1, LineInit
  PROVE  OneTick /\ DeadInv
  BY DEF LineInit, PipeInit, Init, OneTick, DeadInv, EndsOf, Pids

\* Under the same assumptions, and with the turn of one tick that create_process
\* gives to everybody and that nice may give, no standard input or output and no
\* transfer under way, not even of a dead process, points to a page that the shell
\* freed.  Turns of two ticks are enough to break it.
THEOREM NoPipeDangles ==
  ASSUME Foreground, BlocksFairly, OwnPipes, MIN_PRIORITY = 1, Nices \subseteq {1}
  PROVE  LineSpec => []NoDanglingPipe
<1>1. LineInit => LineInv /\ OneTick /\ DeadInv
  BY InitLine, InitDead
<1>2. LineInv /\ OneTick /\ DeadInv /\ [LineNext]_lineVars =>
        (LineInv /\ OneTick /\ DeadInv)'
  <2> SUFFICES ASSUME LineInv, OneTick, DeadInv, [LineNext]_lineVars
               PROVE  LineInv' /\ OneTick' /\ DeadInv'
    OBVIOUS
  <2>1. LineInv'
    BY NextLine
  <2>2. OneTick' /\ DeadInv'
    BY DeadShell, DeadOthers, DeadStutter DEF LineNext
  <2> QED
    BY <2>1, <2>2
<1>3. LineInv /\ DeadInv => NoDanglingPipe
  <2> SUFFICES ASSUME LineInv, DeadInv, NEW p \in Pids, NEW g \in Holding(p)
               PROVE  \E id \in Ids : pipe_table[id] = g
    BY DEF NoDanglingPipe
  <2>1. g \in EndsOf(p)
    BY DEF Holding, EndsOf, LineInv, PcbInv
  <2> QED
    BY <2>1 DEF DeadInv, PagesInTable
<1> QED
  BY <1>1, <1>2, <1>3, PTL DEF LineSpec

=============================================================================
