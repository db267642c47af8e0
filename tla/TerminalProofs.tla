--------------------------- MODULE TerminalProofs ---------------------------
(***************************************************************************)
(* Safety of the keyboard and of the foreground job for every number of    *)
(* processes, every keyboard and every length of the ring and of a line,   *)
(* as long as a program that is not the job neither reads nor creates; and *)
(* of the text that sys_write puts on the screen, for every screen, font   *)
(* and string.                                                             *)
(***************************************************************************)
EXTENDS Terminal, SchedulerProofs, Screen, FiniteSetTheorems,
        WellFoundedInduction

Dead == {"NONE", "KILLED"}
Live(p) == state[p] \notin Dead

IdleUp == current_process # 0 /\ idle_pcb = 1 /\ state[1] \in {"READY", "RUNNING"}

\* Where the shell is in run_as_process_fg, and what its variables say there.
ShellInv ==
  /\ shell_pc # "exit" => Live(Shell)
  /\ job = 0 <=> shell_pc \in {"read", "execute", "exit"}
  /\ job \notin {1, Shell}
  /\ fg_pid # 0 => fg_pid = job /\ shell_pc \in {"wait", "clear_fg"}
  /\ waiting_for_pid[Shell] # 0 =>
       waiting_for_pid[Shell] = job /\ shell_pc = "clear_fg"

ShellAwaits ==
  shell_pc = "clear_fg" /\ state[Shell] = "BLOCKED" /\ waiting_for_pid[Shell] = job

\* The job the shell created is the only live one, and it is dead before the
\* shell clears the foreground.
JobInv ==
  \A p \in Pids : Live(p) =>
    /\ kind[p] = "job" => p = job /\ (shell_pc \in {"set_fg", "wait"} \/ ShellAwaits)
    /\ p = job => kind[p] = "job"

\* The job and the shell never read at the same time.
ReaderInv ==
  /\ \A p \in Pids : reading[p] /\ Live(p) =>
       (p = Shell /\ shell_pc = "read") \/ kind[p] = "job"
  /\ Live(Shell) /\ kbd_waiting_pid = Shell => AsleepReading(Shell)
  /\ SleepingReaderIsHeard

\* The inductive invariant.
TermInv ==
  /\ TermTypeOK /\ OnlyCurrentRuns /\ WaitTargetAlive
  /\ IdleUp /\ ShellInv /\ JobInv /\ ReaderInv

\* What the scheduler may do to the table a handler leaves.
Effect(st, wf) ==
  \A p \in Pids :
    /\ state'[p] = "BLOCKED" <=> st[p] = "BLOCKED"
    /\ state'[p] \in Dead <=> st[p] \in Dead
    /\ waiting_for_pid'[p] \in {wf[p], 0}
    /\ st[p] \notin Dead => waiting_for_pid'[p] = wf[p]

-----------------------------------------------------------------------------
(* The table. *)

LEMMA PidFacts == 1 \in Pids /\ Shell \in Pids /\ Shell # 1 /\ 0 \notin Pids
  BY TableAssumption DEF Pids, Shell

LEMMA CurrentFacts ==
  ASSUME TermInv
  PROVE  /\ TableInv /\ TypeOK
         /\ current_process \in Pids /\ state[current_process] = "RUNNING"
  BY DEF TermInv, TermTypeOK, TableInv, TypeOK, OnlyCurrentRuns, IdleUp, Pids

\* The scheduler blocks, wakes and kills nobody, and ends no wait of the living.
LEMMA TickEffect ==
  ASSUME TableInv, IdleUp, NEW st, NEW wf, HandlerTable(st, wf),
         st[1] \in {"READY", "RUNNING"}, schedule_tick(st, wf)
  PROVE  TableInv' /\ IdleUp' /\ Effect(st, wf)
<1> TypeOK /\ current_process \in Pids
  BY DEF TableInv, TypeOK, IdleUp, Pids
<1>1. TableInv'
  BY ScheduleTickTable DEF IdleUp
<1>2. CASE KeepRunning(st, wf)
  BY <1>1, <1>2 DEF KeepRunning, Effect, IdleUp
<1>3. CASE scheduler(st, wf)
  <2>1. ReapedIdle(st) = 1 /\ idle_pcb' = 1
    BY <1>3 DEF scheduler, ReapedIdle, IdleUp
  <2>2. /\ Preempted(st) \in [Pids -> States]
        /\ \A p \in Pids : Preempted(st)[p] = "BLOCKED" <=> st[p] = "BLOCKED"
        /\ Preempted(st)[1] = "READY"
    BY PidFacts DEF Preempted, HandlerTable, States
  <2>3. PICK p \in Pids : /\ \E quantum : Dispatch(p, st, quantum)
                          /\ Preempted(st)[p] = "READY"
    <3>1. ~RunNobody(st)
      BY <2>1 DEF RunNobody
    <3>2. CASE RunNext(st)
      BY <3>2 DEF RunNext, Candidates
    <3>3. CASE RunIdle(st)
      BY <2>1, <2>2, <3>3, PidFacts DEF RunIdle
    <3> QED
      BY <1>3, <3>1, <3>2, <3>3 DEF scheduler
  <2>4. /\ state' = [Reaped(Preempted(st)) EXCEPT ![p] = "RUNNING"]
        /\ current_process' = p
    BY <2>3 DEF Dispatch
  <2>5. ASSUME NEW q \in Pids
        PROVE  /\ state'[q] = "BLOCKED" <=> st[q] = "BLOCKED"
               /\ state'[q] \in Dead <=> st[q] \in Dead
    <3>1. Reaped(Preempted(st))[q] =
            IF Preempted(st)[q] = "KILLED" THEN "NONE" ELSE Preempted(st)[q]
      BY DEF Reaped
    <3>2. Preempted(st)[q] \in Dead <=> st[q] \in Dead
      BY DEF Preempted, HandlerTable, Dead
    <3> QED
      BY <2>2, <2>3, <2>4, <3>1, <3>2, ReapedTable DEF Dead
  <2>6. ASSUME NEW q \in Pids
        PROVE  /\ waiting_for_pid'[q] \in {wf[q], 0}
               /\ st[q] \notin Dead => waiting_for_pid'[q] = wf[q]
    BY <1>3 DEF scheduler, ReapedField, Dead
  <2>7. IdleUp'
    <3>1. state'[1] \in {"READY", "RUNNING"}
      BY <2>2, <2>4, PidFacts, ReapedTable DEF Reaped, States
    <3> QED
      BY <2>1, <2>4, <3>1, PidFacts DEF IdleUp
  <2> QED
    BY <1>1, <2>5, <2>6, <2>7 DEF Effect
<1> QED
  BY <1>2, <1>3 DEF schedule_tick

LEMMA ReturnEffect ==
  ASSUME TableInv, IdleUp, NEW st, NEW wf, HandlerTable(st, wf),
         st[1] \in {"READY", "RUNNING"}, st[current_process] = "RUNNING",
         ReturnToCaller(st, wf)
  PROVE  TableInv' /\ IdleUp' /\ Effect(st, wf)
<1>1. TableInv'
  BY ReturnTable DEF TableInv
<1> QED
  BY <1>1 DEF ReturnToCaller, IdleUp, Effect

-----------------------------------------------------------------------------
(* The jobs and the readers, when the shell stays where it is. *)

SlotsKept ==
  \A p \in Pids : Live(p)' => reading'[p] = reading[p] /\ kind'[p] = kind[p]

LEMMA KeepSlotsKeeps ==
  ASSUME TermTypeOK, KeepSlots
  PROVE  SlotsKept /\ reading' \in [Pids -> BOOLEAN]
                   /\ kind' \in [Pids -> {"shell", "job", "other"}]
  BY DEF TermTypeOK, KeepSlots, SlotsKept, Live, Dead

\* The table gets the process new of kind k, or none if new is 0, and is
\* otherwise what it was.
Quiet(new, k) ==
  /\ \A q \in Pids \ {new} :
       /\ state'[q] = "BLOCKED" <=> state[q] = "BLOCKED"
       /\ Live(q)' <=> Live(q)
       /\ waiting_for_pid'[q] \in {waiting_for_pid[q], 0}
       /\ Live(q) => waiting_for_pid'[q] = waiting_for_pid[q]
       /\ Live(q) => reading'[q] = reading[q] /\ kind'[q] = kind[q]
  /\ new \in Pids =>
       /\ ~Live(new) /\ state'[new] = "READY" /\ waiting_for_pid'[new] = 0
       /\ ~reading'[new] /\ kind'[new] = k

LEMMA EffectIsQuiet ==
  ASSUME Effect(state, waiting_for_pid), SlotsKept, NEW k
  PROVE  Quiet(0, k)
  BY PidFacts DEF Effect, SlotsKept, Quiet, Live, Dead

\* The shell stays where it is or gets back to its prompt, and no job is made.
LEMMA QuietStep ==
  ASSUME TermInv, NEW new \in Pids \union {0}, Quiet(new, "other"),
         UNCHANGED <<keyboard_buffer, kbd_waiting_pid, fg_pid, job>>,
         new # 0 => Live(Shell) /\ (job # 0 => Live(job)),
         \/ UNCHANGED shell_pc
         \/ shell_pc = "execute" /\ shell_pc' \in {"read", "exit"}
  PROVE  ShellInv' /\ JobInv' /\ ReaderInv'
<1>1. /\ UNCHANGED <<keyboard_buffer, kbd_waiting_pid, fg_pid, job>>
      /\ new # Shell
      /\ new # 0 => new # job
      /\ job # 0 => job \in Pids
  <2>1. job # 0 => job \in Pids
    BY DEF TermInv, TermTypeOK, Pids
  <2> QED
    BY <2>1, PidFacts DEF Quiet
<1>2. ShellInv'
  BY <1>1, PidFacts DEF TermInv, ShellInv, Quiet
<1>3. ShellAwaits => ShellAwaits'
  BY <1>1, PidFacts DEF ShellAwaits, Quiet, Live, Dead
<1>4. JobInv'
  <2> SUFFICES ASSUME NEW p \in Pids, Live(p)'
               PROVE  /\ kind'[p] = "job" => p = job /\ (shell_pc' \in {"set_fg", "wait"}
                                                       \/ ShellAwaits')
                      /\ p = job => kind'[p] = "job"
    BY <1>1 DEF JobInv
  <2>1. CASE p = new
    BY <1>1, <2>1, PidFacts DEF Quiet
  <2>2. CASE p # new
    <3>1. Live(p) /\ kind'[p] = kind[p]
      BY <2>2 DEF Quiet
    <3>2. /\ kind[p] = "job" => p = job /\ (shell_pc \in {"set_fg", "wait"} \/ ShellAwaits)
          /\ p = job => kind[p] = "job"
      BY <3>1 DEF TermInv, JobInv
    <3> QED
      BY <1>3, <3>1, <3>2 DEF ShellAwaits
  <2> QED
    BY <2>1, <2>2
<1>5. ASSUME Live(Shell)', kbd_waiting_pid' = Shell PROVE AsleepReading(Shell)'
  BY <1>1, <1>5, PidFacts DEF TermInv, ReaderInv, Quiet, AsleepReading
<1>6. SleepingReaderIsHeard'
  <2> SUFFICES ASSUME NEW p \in Pids, AsleepReading(p)'
               PROVE  AsleepReading(p)
    BY <1>1 DEF TermInv, ReaderInv, SleepingReaderIsHeard
  <2> QED
    BY DEF AsleepReading, Quiet, Live, Dead
<1>7. ASSUME NEW p \in Pids, reading'[p], Live(p)'
      PROVE  (p = Shell /\ shell_pc' = "read") \/ kind'[p] = "job"
  BY <1>1, <1>7, PidFacts DEF TermInv, ReaderInv, Quiet
<1> QED
  BY <1>2, <1>4, <1>5, <1>6, <1>7 DEF ReaderInv

\* A process other than idle and the shell dies, at the keyboard or not.
LEMMA DeathStep ==
  ASSUME TermInv, SlotsKept, NEW p \in Pids, p \notin {1, Shell},
         Effect(exit_process(state, p), StopWaiting(p)),
         UNCHANGED <<keyboard_buffer, kbd_waiting_pid, shellVars>>,
         fg_pid' \in {fg_pid, 0}
  PROVE  ShellInv' /\ JobInv' /\ ReaderInv'
<1> DEFINE st == exit_process(state, p)
           wf == StopWaiting(p)
<1>1. /\ st[p] = "KILLED"
      /\ \A q \in Pids : q # p => (st[q] \in Dead <=> state[q] \in Dead)
      /\ \A q \in Pids : st[q] = "BLOCKED" => q # p /\ state[q] = "BLOCKED"
      /\ \A q \in Pids : q # p /\ state[q] = "BLOCKED" /\ st[q] # "BLOCKED"
            => waiting_for_pid[q] = p
      /\ \A q \in Pids : wf[q] \in {waiting_for_pid[q], 0}
      /\ \A q \in Pids : waiting_for_pid[q] # p => wf[q] = waiting_for_pid[q]
  BY DEF TermInv, TermTypeOK, TypeOK, exit_process, unblock_process, Waiters,
         StopWaiting, Dead
<1> HIDE DEF st, wf
<1>2. /\ UNCHANGED <<keyboard_buffer, kbd_waiting_pid, shell_pc, job>>
      /\ ~Live(p)'
      /\ \A q \in Pids : q # p => (Live(q)' <=> Live(q))
      /\ \A q \in Pids : state'[q] = "BLOCKED" => state[q] = "BLOCKED"
      /\ \A q \in Pids : q # p /\ state[q] = "BLOCKED" /\ state'[q] # "BLOCKED"
            => waiting_for_pid[q] = p
      /\ \A q \in Pids : waiting_for_pid'[q] \in {waiting_for_pid[q], 0}
      /\ \A q \in Pids : q # p /\ Live(q) /\ waiting_for_pid[q] # p
            => waiting_for_pid'[q] = waiting_for_pid[q]
  BY <1>1 DEF Effect, Live, Dead, st, wf, shellVars
<1>3. ShellInv'
  BY <1>2, PidFacts DEF TermInv, ShellInv
<1>4. ASSUME ShellAwaits, job # p PROVE ShellAwaits'
  BY <1>2, <1>4, PidFacts DEF ShellAwaits, Live, Dead
<1>5. JobInv'
  BY <1>2, <1>4 DEF TermInv, JobInv, SlotsKept
<1>6. ASSUME Live(Shell)', kbd_waiting_pid' = Shell PROVE AsleepReading(Shell)'
  <2>1. Live(Shell) /\ AsleepReading(Shell)
    BY <1>2, <1>6, PidFacts DEF TermInv, ReaderInv
  <2>2. shell_pc = "read"
    BY <2>1, PidFacts DEF TermInv, ReaderInv, JobInv, ShellInv, AsleepReading
  <2>3. waiting_for_pid[Shell] = 0
    BY <2>2 DEF TermInv, ShellInv
  <2> QED
    BY <1>2, <1>6, <2>1, <2>3, PidFacts DEF AsleepReading, SlotsKept
<1>7. ReaderInv'
  BY <1>2, <1>6, PidFacts
     DEF TermInv, ReaderInv, SlotsKept, SleepingReaderIsHeard, AsleepReading,
         Live, Dead
<1> QED
  BY <1>3, <1>5, <1>7

\* create_process adds one process at most and leaves the others alone.
LEMMA CreateQuiet ==
  ASSUME TermInv, ProgramRuns, NEW k \in {"shell", "job", "other"},
         CreatesNothing \/ \E p \in Pids : Creates(k, p)
  PROVE  /\ TableInv' /\ IdleUp'
         /\ reading' \in [Pids -> BOOLEAN]
         /\ kind' \in [Pids -> {"shell", "job", "other"}]
         /\ UNCHANGED kbdVars
         /\ CreatesNothing => Quiet(0, k)
         /\ \A p \in Pids : Creates(k, p) => Quiet(p, k)
<1>1. SysCreate /\ UNCHANGED <<current_process, last_run_index, kbdVars>>
      /\ idle_pcb' = ReapedIdle(state)
  BY DEF SysCreate, CreatesNothing, Creates, CreateKind
<1>2. TableInv'
  BY <1>1, CurrentFacts, SysCreateTable
<1>3. ReapedIdle(state) = 1
  BY DEF ReapedIdle, TermInv, IdleUp
<1>4. /\ Reaped(state)[1] = state[1]
      /\ \A q \in Pids : /\ Reaped(state)[q] = "BLOCKED" <=> state[q] = "BLOCKED"
                         /\ Reaped(state)[q] \in Dead <=> state[q] \in Dead
                         /\ Reaped(state)[q] = "NONE" <=> state[q] \in Dead
      /\ Reaped(state) \in [Pids -> States]
      /\ \A q \in Pids :
           /\ ReapedField(waiting_for_pid, state, 0)[q] \in {waiting_for_pid[q], 0}
           /\ state[q] \notin Dead =>
                ReapedField(waiting_for_pid, state, 0)[q] = waiting_for_pid[q]
           /\ state[q] \in Dead => ReapedField(waiting_for_pid, state, 0)[q] = 0
  BY PidFacts DEF TermInv, IdleUp, TermTypeOK, TypeOK, Reaped, ReapedField, Dead,
     States
<1>5. CASE CreatesNothing
  <2>1. state' = Reaped(state) /\ waiting_for_pid' = ReapedField(waiting_for_pid, state, 0)
    BY <1>5 DEF CreatesNothing, CreateFails
  <2>2. IdleUp'
    BY <1>1, <1>3, <1>4, <2>1 DEF IdleUp, TermInv
  <2>3. SlotsKept /\ reading' \in [Pids -> BOOLEAN]
                  /\ kind' \in [Pids -> {"shell", "job", "other"}]
    BY <1>5, KeepSlotsKeeps DEF CreatesNothing, TermInv
  <2>4. Quiet(0, k)
    BY <1>4, <2>1, <2>3, PidFacts DEF Quiet, SlotsKept, Live
  <2>5. ASSUME NEW p \in Pids PROVE ~Creates(k, p)
    BY <1>4, <2>1 DEF Creates, CreateKind, CreateIn
  <2> QED
    BY <1>1, <1>2, <2>2, <2>3, <2>4, <2>5
<1>6. ASSUME NEW p \in Pids, Creates(k, p)
      PROVE  /\ IdleUp' /\ Quiet(p, k)
             /\ reading' \in [Pids -> BOOLEAN]
             /\ kind' \in [Pids -> {"shell", "job", "other"}]
             /\ ~CreatesNothing
  <2>1. /\ state[p] \in Dead
        /\ state' = [Reaped(state) EXCEPT ![p] = "READY"]
        /\ waiting_for_pid' = ReapedField(waiting_for_pid, state, 0)
        /\ reading' = [q \in Pids |-> q # p /\ state'[q] # "NONE" /\ reading[q]]
        /\ kind' = [q \in Pids |-> IF q = p THEN k
                                   ELSE IF state'[q] = "NONE" THEN "other" ELSE kind[q]]
    BY <1>4, <1>6 DEF Creates, CreateKind, CreateIn
  <2>2. p # 1
    BY <2>1, PidFacts DEF TermInv, IdleUp, Dead
  <2>3. IdleUp'
    BY <1>1, <1>3, <1>4, <2>1, <2>2, PidFacts DEF IdleUp, TermInv
  <2>4. /\ reading' \in [Pids -> BOOLEAN]
        /\ kind' \in [Pids -> {"shell", "job", "other"}]
    BY <2>1 DEF TermInv, TermTypeOK
  <2>5. Quiet(p, k)
    BY <1>4, <2>1, PidFacts DEF Quiet, Live, Dead, TermInv, TermTypeOK
  <2>6. ~CreatesNothing
    BY <1>4, <2>1 DEF CreatesNothing, CreateFails, Dead
  <2> QED
    BY <2>3, <2>4, <2>5, <2>6
<1> QED
  BY <1>1, <1>2, <1>5, <1>6

-----------------------------------------------------------------------------
(* The keyboard. *)

Chars == (Keys \union {"etx", "eot"}) \X BOOLEAN

\* The process that loadCharToBuffer wakes is nobody else's: the shell that waits
\* for its job is not the one kbd_waiting_pid names.
LEMMA LoadStep ==
  ASSUME TermInv, SlotsKept, NEW c \in Chars, loadCharToBuffer(c),
         UNCHANGED shellVars
  PROVE  /\ TableInv' /\ IdleUp' /\ ShellInv' /\ JobInv' /\ ReaderInv'
         /\ keyboard_buffer' \in Seq(Chars)
         /\ Len(keyboard_buffer') <= KEYBOARD_BUFFER_SIZE
         /\ kbd_waiting_pid' \in 0..MAX_PROCESSES
         /\ fg_pid' = fg_pid
         /\ \A p \in Pids : Live(p) => Live(p)'
<1>1. /\ keyboard_buffer \in Seq(Chars) /\ Len(keyboard_buffer) <= KEYBOARD_BUFFER_SIZE
      /\ kbd_waiting_pid \in 0..MAX_PROCESSES
      /\ fg_pid' = fg_pid /\ UNCHANGED <<shell_pc, job>>
      /\ IdleUp /\ TableInv /\ state[current_process] = "RUNNING"
  BY CurrentFacts DEF TermInv, TermTypeOK, Chars, loadCharToBuffer, shellVars
<1>2. CASE Len(keyboard_buffer) = KEYBOARD_BUFFER_SIZE
  <2>1. ReturnToCaller(state, waiting_for_pid)
        /\ UNCHANGED <<keyboard_buffer, kbd_waiting_pid>>
    BY <1>1, <1>2 DEF loadCharToBuffer
  <2>2. TableInv' /\ IdleUp' /\ Effect(state, waiting_for_pid)
    BY <1>1, <2>1, UnchangedTable, ReturnEffect DEF IdleUp
  <2>3. Quiet(0, "other")
    BY <2>2, EffectIsQuiet
  <2>4. ShellInv' /\ JobInv' /\ ReaderInv'
    BY <1>1, <2>1, <2>3, QuietStep
  <2>5. \A p \in Pids : Live(p) => Live(p)'
    BY <2>2 DEF Effect, Live
  <2> QED
    BY <1>1, <2>1, <2>2, <2>4, <2>5
<1>3. CASE Len(keyboard_buffer) # KEYBOARD_BUFFER_SIZE
  <2> DEFINE st == unblock_process(state, {kbd_waiting_pid})
  <2>1. /\ Len(keyboard_buffer) < KEYBOARD_BUFFER_SIZE
        /\ keyboard_buffer' = Append(keyboard_buffer, c)
        /\ kbd_waiting_pid' = 0
        /\ ReturnToCaller(st, waiting_for_pid)
    BY <1>3 DEF loadCharToBuffer
  <2>2. /\ st[1] \in {"READY", "RUNNING"}
        /\ st[current_process] = "RUNNING"
        /\ \A p \in Pids : st[p] \in Dead <=> state[p] \in Dead
        /\ \A p \in Pids : st[p] = "BLOCKED"
                             <=> state[p] = "BLOCKED" /\ p # kbd_waiting_pid
    BY <1>1, PidFacts, CurrentFacts DEF unblock_process, IdleUp, Dead
  <2> HIDE DEF st
  <2>3. TableInv' /\ IdleUp'
    BY <1>1, <2>1, <2>2, UnblockTable, ReturnEffect DEF st
  <2>4. state' = st /\ waiting_for_pid' = waiting_for_pid
    BY <2>1 DEF ReturnToCaller
  <2>5. ShellInv'
    BY <1>1, <2>2, <2>4, PidFacts DEF TermInv, ShellInv, Live
  <2>6. ShellAwaits => ShellAwaits'
    <3>1. ShellAwaits => kbd_waiting_pid # Shell
      BY PidFacts
         DEF TermInv, ReaderInv, JobInv, ShellInv, AsleepReading, ShellAwaits, Live, Dead
    <3> QED
      BY <1>1, <2>2, <2>4, <3>1, PidFacts DEF ShellAwaits
  <2>7. JobInv'
    BY <1>1, <2>2, <2>4, <2>6 DEF TermInv, JobInv, SlotsKept, Live
  <2>8. ReaderInv'
    <3>1. \A p \in Pids : ~AsleepReading(p)'
      BY <2>2, <2>4 DEF TermInv, ReaderInv, SleepingReaderIsHeard, AsleepReading,
                        SlotsKept, Live, Dead
    <3> QED
      BY <1>1, <2>1, <2>2, <2>4, <3>1
         DEF TermInv, ReaderInv, SleepingReaderIsHeard, SlotsKept, Live, Shell
  <2>9. keyboard_buffer' \in Seq(Chars) /\ Len(keyboard_buffer') <= KEYBOARD_BUFFER_SIZE
    BY <1>1, <2>1, TerminalAssumption
  <2>10. kbd_waiting_pid' \in 0..MAX_PROCESSES
    BY <2>1, TableAssumption
  <2>11. \A p \in Pids : Live(p) => Live(p)'
    BY <2>2, <2>4 DEF Live
  <2> QED
    BY <1>1, <2>3, <2>5, <2>7, <2>8, <2>9, <2>10, <2>11
<1> QED
  BY <1>2, <1>3

\* Ctrl+C kills the job and nobody else.
LEMMA CtrlCStep ==
  ASSUME TermInv, SlotsKept, CtrlCKills, UNCHANGED shellVars
  PROVE  /\ TableInv' /\ IdleUp' /\ ShellInv' /\ JobInv' /\ ReaderInv'
         /\ fg_pid' = 0 /\ UNCHANGED <<keyboard_buffer, kbd_waiting_pid>>
         /\ \A p \in Pids : Live(p) /\ ~Live(p)' => p = job
<1>1. fg_pid \in Pids /\ fg_pid = job /\ fg_pid \notin {1, Shell}
  BY DEF TermInv, TermTypeOK, ShellInv, CtrlCKills, ForegroundExists, Pids
<1> DEFINE st == exit_process(state, fg_pid)
           wf == StopWaiting(fg_pid)
<1>2. /\ HandlerTable(st, wf) /\ schedule_tick(st, wf) /\ TableInv /\ IdleUp
      /\ fg_pid' = 0 /\ UNCHANGED <<keyboard_buffer, kbd_waiting_pid>>
  BY <1>1, CurrentFacts, ExitTable DEF CtrlCKills, ForegroundExists, TermInv
<1>3. /\ st[1] \in {"READY", "RUNNING"}
      /\ \A p \in Pids : p # fg_pid => (st[p] \in Dead <=> state[p] \in Dead)
  BY <1>1, PidFacts
     DEF exit_process, unblock_process, TermInv, IdleUp, TermTypeOK, TypeOK, Dead
<1> HIDE DEF st, wf
<1>4. TableInv' /\ IdleUp' /\ Effect(st, wf)
  BY <1>2, <1>3, TickEffect
<1>5. ShellInv' /\ JobInv' /\ ReaderInv'
  BY <1>1, <1>2, <1>4, DeathStep DEF st, wf
<1>6. \A p \in Pids : Live(p) /\ ~Live(p)' => p = job
  BY <1>1, <1>3, <1>4 DEF Effect, Live
<1> QED
  BY <1>2, <1>4, <1>5, <1>6

LEMMA KeyStep ==
  ASSUME TermInv, KeyPress
  PROVE  /\ TermInv'
         /\ \A p \in Pids : Live(p) /\ ~Live(p)' => p = job
<1>1. PICK k \in Keys, press \in BOOLEAN : keyboard_handler(k, press)
  BY DEF KeyPress
<1>2. /\ SlotsKept /\ UNCHANGED shellVars
      /\ UNCHANGED <<shell_pc, typed, job>>
      /\ reading' \in [Pids -> BOOLEAN]
      /\ kind' \in [Pids -> {"shell", "job", "other"}]
  BY <1>1, KeepSlotsKeeps DEF keyboard_handler, TermInv, shellVars
<1>3. modifiers' \subseteq Modifiers
  BY <1>1 DEF keyboard_handler, ModifiersAfter, Modifiers, TermInv, TermTypeOK
<1>4. /\ TableInv' /\ IdleUp' /\ ShellInv' /\ JobInv' /\ ReaderInv'
      /\ keyboard_buffer' \in Seq(Chars) /\ Len(keyboard_buffer') <= KEYBOARD_BUFFER_SIZE
      /\ kbd_waiting_pid' \in 0..MAX_PROCESSES
      /\ fg_pid' \in 0..MAX_PROCESSES
      /\ \A p \in Pids : Live(p) /\ ~Live(p)' => p = job
  <2>1. /\ keyboard_buffer \in Seq(Chars) /\ Len(keyboard_buffer) <= KEYBOARD_BUFFER_SIZE
        /\ kbd_waiting_pid \in 0..MAX_PROCESSES
        /\ fg_pid \in 0..MAX_PROCESSES /\ 0 \in 0..MAX_PROCESSES
        /\ IdleUp /\ TableInv /\ state[current_process] = "RUNNING"
    BY CurrentFacts, TableAssumption DEF TermInv, TermTypeOK, Chars
  <2>2. ASSUME ReturnToCaller(state, waiting_for_pid),
               UNCHANGED <<keyboard_buffer, kbd_waiting_pid, fg_pid>>
        PROVE  <1>4!:
    <3>1. TableInv' /\ IdleUp' /\ Effect(state, waiting_for_pid)
      BY <2>1, <2>2, UnchangedTable, ReturnEffect DEF IdleUp
    <3>2. Quiet(0, "other")
      BY <1>2, <3>1, EffectIsQuiet
    <3>3. ShellInv' /\ JobInv' /\ ReaderInv'
      BY <1>2, <2>2, <3>2, QuietStep
    <3>4. \A p \in Pids : Live(p) => Live(p)'
      BY <3>1 DEF Effect, Live
    <3> QED
      BY <2>1, <2>2, <3>1, <3>3, <3>4
  <2>3. ASSUME CtrlCKills
        PROVE  <1>4!:
    BY <1>2, <2>1, <2>3, CtrlCStep
  <2>4. ASSUME NEW c \in Chars, loadCharToBuffer(c)
        PROVE  <1>4!:
    BY <1>2, <2>1, <2>4, LoadStep
  <2>5. /\ CTRL_C \in Chars /\ CTRL_D \in Chars
        /\ <<k, Shifted(k)>> \in Chars
    BY DEF CTRL_C, CTRL_D, Chars, Shifted
  <2> QED
    BY <1>1, <2>2, <2>3, <2>4, <2>5 DEF keyboard_handler
<1> QED
  BY <1>2, <1>3, <1>4 DEF TermInv, TermTypeOK, TableInv, Chars

-----------------------------------------------------------------------------
(* sys_read *)

\* Who may read: the shell at its prompt, or the job.
MayRead ==
  /\ current_process # 1
  /\ \/ current_process = Shell /\ shell_pc = "read"
     \/ kind[current_process] = "job"

\* No other process sleeps at the keyboard when one that may read does so.
LEMMA ReaderIsAlone ==
  ASSUME TermInv, MayRead, NEW p \in Pids, AsleepReading(p)
  PROVE  p = current_process
<1>1. /\ Live(p) /\ reading[p]
      /\ current_process \in Pids /\ Live(current_process)
      /\ state[current_process] = "RUNNING" /\ state[p] = "BLOCKED"
  BY CurrentFacts DEF AsleepReading, Live, Dead
<1>2. (p = Shell /\ shell_pc = "read") \/ kind[p] = "job"
  BY <1>1 DEF TermInv, ReaderInv
<1>3. shell_pc = "read" => kind[p] # "job" /\ kind[current_process] # "job"
  BY <1>1 DEF TermInv, JobInv, ShellAwaits
<1>4. kind[p] = "job" /\ kind[current_process] = "job" => p = current_process
  BY <1>1 DEF TermInv, JobInv
<1> QED
  BY <1>2, <1>3, <1>4 DEF MayRead

LEMMA SleepStep == ASSUME TermInv, MayRead, ReadSleeps PROVE TermInv'
<1> DEFINE st == block_process(state, current_process)
<1>1. /\ current_process \in Pids /\ state[current_process] = "RUNNING"
      /\ Live(current_process) /\ current_process # 1
      /\ TableInv /\ IdleUp /\ state \in [Pids -> States]
  BY CurrentFacts DEF Live, Dead, MayRead, TermInv, TypeOK
<1>2. /\ st[1] \in {"READY", "RUNNING"}
      /\ st[current_process] = "BLOCKED"
      /\ \A p \in Pids : p # current_process => st[p] = state[p]
  BY <1>1, PidFacts DEF block_process, IdleUp
<1>3. HandlerTable(st, waiting_for_pid) /\ schedule_tick(st, waiting_for_pid)
  BY <1>1, BlockTable DEF ReadSleeps
<1> HIDE DEF st
<1>4. TableInv' /\ IdleUp' /\ Effect(st, waiting_for_pid)
  BY <1>1, <1>2, <1>3, TickEffect
<1>5. /\ \A p \in Pids : Live(p)' <=> Live(p)
      /\ \A p \in Pids : p # current_process =>
           (state'[p] = "BLOCKED" <=> state[p] = "BLOCKED")
      /\ state'[current_process] = "BLOCKED"
      /\ \A p \in Pids : waiting_for_pid'[p] \in {waiting_for_pid[p], 0}
      /\ \A p \in Pids : Live(p) => waiting_for_pid'[p] = waiting_for_pid[p]
  BY <1>1, <1>2, <1>4 DEF Effect, Live, Dead
<1>6. /\ keyboard_buffer = <<>> /\ kbd_waiting_pid' = current_process
      /\ UNCHANGED <<modifiers, keyboard_buffer, fg_pid, shell_pc, typed, job>>
      /\ reading' \in [Pids -> BOOLEAN]
      /\ kind' \in [Pids -> {"shell", "job", "other"}]
      /\ reading'[current_process]
      /\ \A p \in Pids : Live(p) =>
           /\ kind'[p] = kind[p]
           /\ p # current_process => reading'[p] = reading[p]
  BY <1>1, <1>5 DEF ReadSleeps, shellVars, TermInv, TermTypeOK, Live, Dead
<1>7. ShellInv'
  BY <1>5, <1>6, PidFacts DEF TermInv, ShellInv
<1>8. JobInv'
  <2>1. ShellAwaits => ShellAwaits'
    BY <1>1, <1>5, <1>6, PidFacts DEF ShellAwaits, Live, Dead
  <2> QED
    BY <1>5, <1>6, <2>1 DEF TermInv, JobInv
<1>9. ReaderInv'
  <2>1. ASSUME NEW p \in Pids, AsleepReading(p)'
        PROVE  kbd_waiting_pid' = p /\ keyboard_buffer' = <<>>
    <3>1. p # current_process => AsleepReading(p)
      BY <1>1, <1>5, <1>6, <2>1 DEF AsleepReading, Live, Dead
    <3> QED
      BY <1>6, <3>1, ReaderIsAlone
  <2>2. ASSUME NEW p \in Pids, reading'[p], Live(p)'
        PROVE  (p = Shell /\ shell_pc' = "read") \/ kind'[p] = "job"
    BY <1>1, <1>5, <1>6, <2>2 DEF TermInv, ReaderInv, MayRead
  <2>3. kbd_waiting_pid' = Shell => AsleepReading(Shell)'
    BY <1>1, <1>5, <1>6 DEF AsleepReading
  <2> QED
    BY <2>1, <2>2, <2>3 DEF ReaderInv, SleepingReaderIsHeard
<1>10. kbd_waiting_pid' \in 0..MAX_PROCESSES
  BY <1>1, <1>6, TableAssumption DEF Pids
<1> QED
  BY <1>4, <1>6, <1>7, <1>8, <1>9, <1>10 DEF TermInv, TermTypeOK, TableInv

LEMMA TakeStep ==
  ASSUME TermInv, MayRead, ReadTakes,
         \/ current_process = Shell /\ readInput(Head(keyboard_buffer))
         \/ current_process # Shell /\ UNCHANGED shellVars
  PROVE  TermInv'
<1>1. /\ current_process \in Pids /\ state[current_process] = "RUNNING"
      /\ TableInv /\ IdleUp
      /\ keyboard_buffer \in Seq(Chars)
  BY CurrentFacts DEF MayRead, TermInv, TermTypeOK, Chars
<1>2. /\ keyboard_buffer # <<>> /\ keyboard_buffer' = Tail(keyboard_buffer)
      /\ UNCHANGED <<modifiers, kbd_waiting_pid, fg_pid, kind>>
      /\ reading' = [reading EXCEPT ![current_process] = FALSE]
      /\ state' = state /\ waiting_for_pid' = waiting_for_pid
  BY DEF ReadTakes, ReturnToCaller
<1>3. TableInv' /\ IdleUp'
  BY <1>1, UnchangedTable, ReturnEffect DEF ReadTakes, IdleUp
<1>4. /\ keyboard_buffer' \in Seq(Chars)
      /\ Len(keyboard_buffer') <= KEYBOARD_BUFFER_SIZE
  BY <1>1, <1>2, TerminalAssumption DEF TermInv, TermTypeOK
<1>5. \A p \in Pids : ~AsleepReading(p)
  BY <1>2 DEF TermInv, ReaderInv, SleepingReaderIsHeard
<1>6. /\ job' = job /\ typed' \in 0..BUFFER
      /\ \/ shell_pc' = shell_pc
         \/ /\ current_process = Shell /\ shell_pc = "read"
            /\ shell_pc' \in {"read", "execute", "exit"}
  <2>1. CASE current_process = Shell /\ readInput(Head(keyboard_buffer))
    <3>1. shell_pc = "read"
      <4>1. kind[Shell] # "job"
        BY <1>1, <2>1 DEF TermInv, JobInv, ShellInv, Live, Dead
      <4> QED
        BY <2>1, <4>1 DEF MayRead
    <3>2. typed \in 0..BUFFER /\ BUFFER \in Nat \ {0}
      BY TerminalAssumption DEF TermInv, TermTypeOK
    <3>3. typed' \in 0..BUFFER
      BY <2>1, <3>2 DEF readInput
    <3> QED
      BY <2>1, <3>1, <3>3 DEF readInput
  <2>2. CASE UNCHANGED shellVars
    BY <2>2 DEF shellVars, TermInv, TermTypeOK
  <2> QED
    BY <2>1, <2>2
<1>8. ShellInv'
  BY <1>2, <1>6 DEF TermInv, ShellInv, Live
<1>9. JobInv'
  BY <1>2, <1>6 DEF TermInv, JobInv, ShellAwaits, Live
<1>10. ReaderInv'
  <2>1. \A p \in Pids : ~AsleepReading(p)'
    BY <1>1, <1>2, <1>5 DEF AsleepReading, TermInv, TermTypeOK
  <2>2. ASSUME NEW p \in Pids, reading'[p], Live(p)'
        PROVE  (p = Shell /\ shell_pc' = "read") \/ kind'[p] = "job"
    BY <1>1, <1>2, <1>6, <2>2 DEF TermInv, ReaderInv, TermTypeOK, Live
  <2>3. ~(Live(Shell)' /\ kbd_waiting_pid' = Shell)
    BY <1>2, <1>5, PidFacts DEF TermInv, ReaderInv, Live
  <2> QED
    BY <2>1, <2>2, <2>3 DEF ReaderInv, SleepingReaderIsHeard
<1> QED
  BY <1>2, <1>3, <1>4, <1>6, <1>8, <1>9, <1>10
     DEF TermInv, TermTypeOK, TableInv, Chars

LEMMA ReadStepKeeps == ASSUME TermInv, MayRead, ReadStep PROVE TermInv'
  BY SleepStep, TakeStep DEF ReadStep

-----------------------------------------------------------------------------
(* The shell. *)

\* The shell runs, so it is awake.
LEMMA ShellRuns ==
  ASSUME TermInv, NEW pc, ShellAt(pc)
  PROVE  /\ current_process = Shell /\ shell_pc = pc /\ ProgramRuns
         /\ state[Shell] = "RUNNING" /\ Live(Shell)
         /\ TableInv /\ IdleUp /\ state[1] = "READY"
  BY CurrentFacts, PidFacts
     DEF ShellAt, InProgram, TermInv, Live, Dead, IdleUp, OnlyCurrentRuns, TableInv

\* The types that a step of the shell outside sys_read leaves alone.
LEMMA KeyboardTypes ==
  ASSUME TermInv, UNCHANGED <<modifiers, keyboard_buffer, kbd_waiting_pid, typed>>
  PROVE  /\ modifiers' \subseteq Modifiers
         /\ keyboard_buffer' \in Seq((Keys \union {"etx", "eot"}) \X BOOLEAN)
         /\ Len(keyboard_buffer') <= KEYBOARD_BUFFER_SIZE
         /\ kbd_waiting_pid' \in 0..MAX_PROCESSES
         /\ typed' \in 0..BUFFER
  BY DEF TermInv, TermTypeOK

LEMMA ReturnsQuietly ==
  ASSUME TermInv, ReturnToCaller(state, waiting_for_pid), UNCHANGED <<reading, kind>>
  PROVE  /\ TableInv' /\ IdleUp' /\ Quiet(0, "other") /\ Effect(state, waiting_for_pid)
         /\ reading' \in [Pids -> BOOLEAN]
         /\ kind' \in [Pids -> {"shell", "job", "other"}]
<1>1. TableInv /\ IdleUp /\ state[current_process] = "RUNNING"
  BY CurrentFacts DEF TermInv
<1>2. TableInv' /\ IdleUp' /\ Effect(state, waiting_for_pid)
  BY <1>1, UnchangedTable, ReturnEffect DEF IdleUp
<1>3. SlotsKept
  BY DEF SlotsKept
<1> QED
  BY <1>2, <1>3, EffectIsQuiet DEF TermInv, TermTypeOK

LEMMA BuiltinStep ==
  ASSUME TermInv, ShellRunsBuiltin \/ ShellRunsExit PROVE TermInv'
<1>1. /\ ReturnToCaller(state, waiting_for_pid)
      /\ UNCHANGED <<kbdVars, reading, kind, job, typed>>
      /\ shell_pc = "execute" /\ shell_pc' \in {"read", "exit"}
  BY DEF ShellRunsBuiltin, ShellRunsExit, ShellAt, ShellGoes
<1>2. UNCHANGED <<modifiers, keyboard_buffer, kbd_waiting_pid, fg_pid, job, typed>>
  BY <1>1 DEF kbdVars
<1>3. ShellInv' /\ JobInv' /\ ReaderInv'
  BY <1>1, <1>2, ReturnsQuietly, QuietStep
<1> QED
  BY <1>1, <1>2, <1>3, ReturnsQuietly, KeyboardTypes DEF TermInv, TermTypeOK, TableInv

\* From here on the shell has a job, and that job is the only one.
LEMMA RunJobStep == ASSUME TermInv, ShellRunsJob PROVE TermInv'
<1>1. /\ current_process = Shell /\ shell_pc = "execute" /\ ProgramRuns
      /\ state[Shell] = "RUNNING" /\ Live(Shell)
      /\ typed' = typed
  BY ShellRuns DEF ShellRunsJob, ShellGoes
<1>2. /\ TableInv' /\ IdleUp' /\ UNCHANGED kbdVars
      /\ reading' \in [Pids -> BOOLEAN]
      /\ kind' \in [Pids -> {"shell", "job", "other"}]
  BY <1>1, CreateQuiet DEF ShellRunsJob
<1>3. UNCHANGED <<modifiers, keyboard_buffer, kbd_waiting_pid, fg_pid>>
  BY <1>2 DEF kbdVars
<1>4. CASE CreatesNothing /\ UNCHANGED job /\ ShellGoes("read")
  <2>1. Quiet(0, "other")
    BY <1>1, <1>4, CreateQuiet
  <2>2. ShellInv' /\ JobInv' /\ ReaderInv'
    BY <1>1, <1>3, <1>4, <2>1, QuietStep DEF ShellGoes
  <2> QED
    BY <1>1, <1>2, <1>3, <1>4, <2>2, KeyboardTypes
       DEF TermInv, TermTypeOK, TableInv, ShellGoes
<1>5. ASSUME NEW new \in Pids, Creates("job", new), job' = new, ShellGoes("set_fg")
      PROVE  TermInv'
  <2>1. Quiet(new, "job")
    BY <1>1, <1>5, CreateQuiet
  <2>2. /\ shell_pc' = "set_fg" /\ job' = new /\ fg_pid = 0
        /\ new \notin {0, 1, Shell}
        /\ waiting_for_pid[Shell] = 0
    BY <1>1, <1>5, <2>1, PidFacts
       DEF ShellGoes, Quiet, TermInv, ShellInv, IdleUp, Live, Dead
  <2>3. ASSUME NEW p \in Pids, Live(p)
        PROVE  kind[p] # "job" /\ ~reading[p]
    <3>1. kind[p] # "job"
      BY <1>1, <2>3 DEF TermInv, JobInv, ShellAwaits
    <3> QED
      BY <1>1, <2>3, <3>1 DEF TermInv, ReaderInv
  <2>4. \A p \in Pids : Live(p)' =>
          IF p = new THEN kind'[p] = "job" /\ ~reading'[p]
                     ELSE kind'[p] # "job" /\ ~reading'[p]
    BY <2>1, <2>3 DEF Quiet
  <2>5. ShellInv'
    BY <1>1, <1>3, <2>1, <2>2, PidFacts DEF ShellInv, Quiet
  <2>6. JobInv'
    BY <2>2, <2>4 DEF JobInv
  <2>7. \A p \in Pids : ~AsleepReading(p)'
    BY <2>4 DEF AsleepReading, Live, Dead
  <2>8. ~(kbd_waiting_pid' = Shell)
    BY <1>1, <1>3 DEF TermInv, ReaderInv, AsleepReading
  <2>9. ReaderInv'
    BY <2>4, <2>7, <2>8 DEF ReaderInv, SleepingReaderIsHeard
  <2>10. job' \in 0..MAX_PROCESSES
    BY <2>2, TableAssumption DEF Pids
  <2> QED
    BY <1>1, <1>2, <1>3, <2>2, <2>5, <2>6, <2>9, <2>10, KeyboardTypes
       DEF TermInv, TermTypeOK, TableInv
<1> QED
  BY <1>4, <1>5 DEF ShellRunsJob

LEMMA BackgroundStep == ASSUME TermInv, ShellRunsInBackground PROVE TermInv'
<1>1. /\ current_process = Shell /\ shell_pc = "execute" /\ ProgramRuns
      /\ Live(Shell) /\ shell_pc' = "read" /\ typed' = typed /\ job' = job /\ job = 0
  BY ShellRuns DEF ShellRunsInBackground, ShellGoes, TermInv, ShellInv
<1>2. /\ TableInv' /\ IdleUp' /\ UNCHANGED kbdVars
      /\ reading' \in [Pids -> BOOLEAN]
      /\ kind' \in [Pids -> {"shell", "job", "other"}]
      /\ \E new \in Pids \union {0} : Quiet(new, "other")
  BY <1>1, CreateQuiet DEF ShellRunsInBackground
<1>3. UNCHANGED <<modifiers, keyboard_buffer, kbd_waiting_pid, fg_pid>>
  BY <1>2 DEF kbdVars
<1>4. ShellInv' /\ JobInv' /\ ReaderInv'
  BY <1>1, <1>2, <1>3, QuietStep
<1> QED
  BY <1>1, <1>2, <1>3, <1>4, KeyboardTypes DEF TermInv, TermTypeOK, TableInv

LEMMA SetFgStep == ASSUME TermInv, ShellSetsFg PROVE TermInv'
<1>1. /\ shell_pc = "set_fg" /\ shell_pc' = "wait" /\ fg_pid' = job
      /\ ReturnToCaller(state, waiting_for_pid)
      /\ UNCHANGED <<modifiers, keyboard_buffer, kbd_waiting_pid, reading, kind,
                     job, typed>>
  BY DEF ShellSetsFg, ShellAt, ShellGoes
<1>2. state' = state /\ waiting_for_pid' = waiting_for_pid
  BY <1>1 DEF ReturnToCaller
<1>3. ShellInv'
  BY <1>1, <1>2 DEF TermInv, ShellInv, Live
<1>4. JobInv'
  BY <1>1, <1>2 DEF TermInv, JobInv, Live
<1>5. ReaderInv'
  BY <1>1, <1>2 DEF TermInv, ReaderInv, SleepingReaderIsHeard, AsleepReading, Live
<1> QED
  BY <1>1, <1>3, <1>4, <1>5, ReturnsQuietly, KeyboardTypes
     DEF TermInv, TermTypeOK, TableInv

\* The shell sleeps until the job is dead, or finds it dead.
LEMMA WaitStep == ASSUME TermInv, ShellWaits PROVE TermInv'
<1>1. /\ current_process = Shell /\ shell_pc = "wait" /\ shell_pc' = "clear_fg"
      /\ state[Shell] = "RUNNING" /\ Live(Shell) /\ TableInv /\ IdleUp
      /\ UNCHANGED <<modifiers, keyboard_buffer, kbd_waiting_pid, fg_pid, job, typed>>
      /\ job # 0 /\ job \in Pids
  BY ShellRuns DEF ShellWaits, ShellGoes, kbdVars, TermInv, TermTypeOK, ShellInv, Pids
<1>2. /\ SlotsKept /\ reading' \in [Pids -> BOOLEAN]
      /\ kind' \in [Pids -> {"shell", "job", "other"}]
  BY KeepSlotsKeeps DEF ShellWaits, TermInv
<1>3. ~reading[Shell]
  BY <1>1, PidFacts DEF TermInv, ReaderInv, JobInv, ShellInv
<1>4. /\ TableInv' /\ IdleUp'
      /\ \A p \in Pids : Live(p)' <=> Live(p)
      /\ \A p \in Pids \ {Shell} : state'[p] = "BLOCKED" => state[p] = "BLOCKED"
      /\ waiting_for_pid'[Shell] \in {job, 0}
      /\ Live(job) => state'[Shell] = "BLOCKED" /\ waiting_for_pid'[Shell] = job
  <2>1. CASE SysWaitpid(job)
    <3> DEFINE st == block_process(state, current_process)
               wf == [waiting_for_pid EXCEPT ![current_process] = job]
    <3>1. /\ st[1] \in {"READY", "RUNNING"} /\ st[Shell] = "BLOCKED"
          /\ \A p \in Pids : p # Shell => st[p] = state[p]
          /\ wf[Shell] = job
      BY <1>1, PidFacts
         DEF block_process, IdleUp, TableInv, TypeOK
    <3>2. HandlerTable(st, wf) /\ schedule_tick(st, wf)
      BY <1>1, <2>1, WaitpidTable DEF SysWaitpid, IdleUp
    <3> HIDE DEF st, wf
    <3>3. TableInv' /\ IdleUp' /\ Effect(st, wf)
      BY <1>1, <3>1, <3>2, TickEffect
    <3> QED
      BY <1>1, <3>1, <3>3, PidFacts DEF Effect, Live, Dead
  <2>2. CASE ~Live(job) /\ ReturnToCaller(state, waiting_for_pid)
    <3>1. TableInv' /\ IdleUp'
      BY <1>1, <2>2, UnchangedTable, ReturnEffect DEF IdleUp
    <3> QED
      BY <1>1, <2>2, <3>1 DEF ReturnToCaller, TermInv, ShellInv, Live
  <2> QED
    BY <2>1, <2>2 DEF ShellWaits, Live, Dead
<1>5. ShellInv'
  BY <1>1, <1>4, PidFacts DEF TermInv, ShellInv
<1>6. JobInv'
  BY <1>1, <1>2, <1>4 DEF TermInv, JobInv, SlotsKept, ShellAwaits
<1>7. ASSUME NEW p \in Pids, AsleepReading(p)' PROVE AsleepReading(p)
  BY <1>1, <1>2, <1>3, <1>4, <1>7 DEF AsleepReading, SlotsKept, Live, Dead
<1>8. kbd_waiting_pid' # Shell
  BY <1>1, <1>3 DEF TermInv, ReaderInv, AsleepReading
<1>9. ReaderInv'
  BY <1>1, <1>2, <1>4, <1>7, <1>8
     DEF TermInv, ReaderInv, SleepingReaderIsHeard, SlotsKept
<1> QED
  BY <1>1, <1>2, <1>4, <1>5, <1>6, <1>9, KeyboardTypes
     DEF TermInv, TermTypeOK, TableInv

\* The shell runs again, so the job is dead.
LEMMA ClearFgStep == ASSUME TermInv, ShellClearsFg PROVE TermInv'
<1>1. /\ shell_pc = "clear_fg" /\ shell_pc' = "read" /\ fg_pid' = 0 /\ job' = 0
      /\ ReturnToCaller(state, waiting_for_pid)
      /\ UNCHANGED <<modifiers, keyboard_buffer, kbd_waiting_pid, reading, kind, typed>>
      /\ state[Shell] = "RUNNING"
  BY ShellRuns DEF ShellClearsFg, ShellAt, ShellGoes
<1>2. state' = state /\ waiting_for_pid' = waiting_for_pid
  BY <1>1 DEF ReturnToCaller
<1>3. \A p \in Pids : Live(p) => kind[p] # "job" /\ p # job
  BY <1>1 DEF TermInv, JobInv, ShellAwaits
<1>4. waiting_for_pid[Shell] = 0
  <2>1. waiting_for_pid[Shell] # 0 => job \in Pids
    BY DEF TermInv, ShellInv, TermTypeOK, Pids
  <2>2. waiting_for_pid[Shell] # 0 => Live(job) /\ waiting_for_pid[Shell] = job
    BY PidFacts DEF TermInv, ShellInv, WaitTargetAlive, Live, Dead
  <2> QED
    BY <1>3, <2>1, <2>2
<1>5. ShellInv'
  BY <1>1, <1>2, <1>4, PidFacts DEF TermInv, ShellInv, Live
<1>6. JobInv'
  BY <1>1, <1>2, <1>3, PidFacts DEF JobInv, Live
<1>7. ReaderInv'
  BY <1>1, <1>2 DEF TermInv, ReaderInv, SleepingReaderIsHeard, AsleepReading, Live
<1>8. 0 \in 0..MAX_PROCESSES
  BY TableAssumption
<1> QED
  BY <1>1, <1>5, <1>6, <1>7, <1>8, ReturnsQuietly, KeyboardTypes
     DEF TermInv, TermTypeOK, TableInv

LEMMA ShellExitStep == ASSUME TermInv, ShellExits PROVE TermInv'
<1> DEFINE st == exit_process(state, Shell)
           wf == StopWaiting(Shell)
<1>1. /\ current_process = Shell /\ shell_pc = "exit" /\ state[1] = "READY"
      /\ state[Shell] = "RUNNING" /\ TableInv /\ IdleUp
      /\ UNCHANGED <<modifiers, keyboard_buffer, kbd_waiting_pid, fg_pid,
                     shell_pc, job, typed>>
      /\ schedule_tick(st, wf)
  BY ShellRuns DEF ShellExits, SysExit, kbdVars, shellVars
<1>2. /\ SlotsKept /\ reading' \in [Pids -> BOOLEAN]
      /\ kind' \in [Pids -> {"shell", "job", "other"}]
  BY KeepSlotsKeeps DEF ShellExits, TermInv
<1>3. /\ st[1] \in {"READY", "RUNNING"} /\ st[Shell] = "KILLED"
      /\ \A p \in Pids : p # Shell => (st[p] \in Dead <=> state[p] \in Dead)
      /\ wf[Shell] \in {waiting_for_pid[Shell], 0}
  BY <1>1, PidFacts
     DEF exit_process, unblock_process, StopWaiting, TableInv, TypeOK, Dead
<1>4. HandlerTable(st, wf)
  BY <1>1, PidFacts, ExitTable
<1> HIDE DEF st, wf
<1>5. TableInv' /\ IdleUp' /\ Effect(st, wf)
  BY <1>1, <1>3, <1>4, TickEffect
<1>6. /\ ~Live(Shell)' /\ waiting_for_pid'[Shell] = 0
      /\ \A p \in Pids : Live(p)' => Live(p) /\ p # Shell
  <2>1. waiting_for_pid[Shell] = 0
    BY <1>1 DEF TermInv, ShellInv
  <2> QED
    BY <1>3, <1>5, <2>1, PidFacts DEF Effect, Live, Dead
<1>7. \A p \in Pids : Live(p)' => kind'[p] # "job" /\ ~reading'[p] /\ p # job
  <2> TAKE p \in Pids
  <2> HAVE Live(p)'
  <2>1. Live(p) /\ kind'[p] = kind[p] /\ reading'[p] = reading[p] /\ p # Shell
    BY <1>2, <1>6 DEF SlotsKept
  <2>2. kind[p] # "job"
    BY <1>1, <2>1 DEF TermInv, JobInv, ShellAwaits
  <2>3. ~reading[p]
    BY <1>1, <2>1, <2>2 DEF TermInv, ReaderInv
  <2> QED
    BY <1>1, <2>1, <2>2, <2>3, PidFacts DEF TermInv, ShellInv
<1>8. ShellInv'
  BY <1>1, <1>6 DEF TermInv, ShellInv
<1>9. JobInv'
  BY <1>1, <1>7 DEF JobInv
<1>10. ReaderInv'
  BY <1>6, <1>7 DEF ReaderInv, SleepingReaderIsHeard, AsleepReading, Live, Dead
<1> QED
  BY <1>1, <1>2, <1>5, <1>8, <1>9, <1>10, KeyboardTypes
     DEF TermInv, TermTypeOK, TableInv

LEMMA ShellKeeps == ASSUME TermInv, ShellStep PROVE TermInv'
<1>1. CASE ShellReads
  <2>1. MayRead
    BY <1>1, ShellRuns, PidFacts DEF ShellReads, MayRead
  <2> QED
    BY <1>1, <2>1, ReadStepKeeps DEF ShellReads
<1> QED
  BY <1>1, BuiltinStep, RunJobStep, SetFgStep, WaitStep, ClearFgStep,
     BackgroundStep, ShellExitStep DEF ShellStep

-----------------------------------------------------------------------------
(* The other programs, the kernel and the invariant. *)

LEMMA CommandFacts ==
  ASSUME TermInv, CommandStep
  PROVE  /\ current_process \in Pids /\ current_process \notin {1, Shell}
         /\ state[current_process] = "RUNNING" /\ ProgramRuns
         /\ TableInv /\ IdleUp /\ state[1] = "READY"
  BY CurrentFacts, PidFacts
     DEF CommandStep, InProgram, ProgramRuns, TermInv, IdleUp, OnlyCurrentRuns

\* A program that exits or is killed by another one.
LEMMA ProgramDies ==
  ASSUME TermInv, CommandStep, KeepSlots, UNCHANGED <<kbdVars, shellVars>>,
         NEW p \in Pids, p \notin {1, Shell}, state[p] # "NONE",
         \/ schedule_tick(exit_process(state, p), StopWaiting(p))
         \/ /\ p # current_process
            /\ ReturnToCaller(exit_process(state, p), StopWaiting(p))
  PROVE  TermInv'
<1> DEFINE st == exit_process(state, p)
           wf == StopWaiting(p)
<1>1. /\ st[1] \in {"READY", "RUNNING"}
      /\ p # current_process => st[current_process] = "RUNNING"
  BY CommandFacts, PidFacts DEF exit_process, unblock_process, TableInv, TypeOK
<1>2. HandlerTable(st, wf) /\ (schedule_tick(st, wf)
                                \/ (p # current_process /\ ReturnToCaller(st, wf)))
  BY CommandFacts, ExitTable
<1> HIDE DEF st, wf
<1>3. TableInv' /\ IdleUp' /\ Effect(st, wf)
  BY <1>1, <1>2, CommandFacts, TickEffect, ReturnEffect
<1>4. /\ SlotsKept /\ reading' \in [Pids -> BOOLEAN]
      /\ kind' \in [Pids -> {"shell", "job", "other"}]
  BY KeepSlotsKeeps DEF TermInv
<1>5. UNCHANGED <<modifiers, keyboard_buffer, kbd_waiting_pid, fg_pid,
                  shell_pc, typed, job>>
  BY DEF kbdVars, shellVars
<1>6. ShellInv' /\ JobInv' /\ ReaderInv'
  BY <1>3, <1>4, <1>5, DeathStep DEF st, wf
<1> QED
  BY <1>3, <1>4, <1>5, <1>6, KeyboardTypes DEF TermInv, TermTypeOK, TableInv

\* The job creates a process; the shell, who waits for the job, is alive.
LEMMA JobCreates ==
  ASSUME TermInv, CommandStep, IsJob, UNCHANGED shellVars,
         CreatesNothing \/ \E new \in Pids : Creates("other", new)
  PROVE  TermInv'
<1>1. /\ TableInv' /\ IdleUp' /\ UNCHANGED kbdVars
      /\ reading' \in [Pids -> BOOLEAN]
      /\ kind' \in [Pids -> {"shell", "job", "other"}]
      /\ \E new \in Pids \union {0} : Quiet(new, "other")
  BY CommandFacts, CreateQuiet
<1>2. Live(job) /\ shell_pc # "exit" /\ Live(Shell)
  <2>1. Live(current_process)
    BY CommandFacts DEF Live, Dead
  <2> QED
    BY <2>1, CommandFacts DEF IsJob, TermInv, JobInv, ShellInv, ShellAwaits
<1>3. UNCHANGED <<modifiers, keyboard_buffer, kbd_waiting_pid, fg_pid,
                  shell_pc, typed, job>>
  BY <1>1 DEF kbdVars, shellVars
<1>4. ShellInv' /\ JobInv' /\ ReaderInv'
  BY <1>1, <1>2, <1>3, QuietStep
<1> QED
  BY <1>1, <1>3, <1>4, KeyboardTypes DEF TermInv, TermTypeOK, TableInv

LEMMA CommandKeeps ==
  ASSUME BgReads = FALSE, BgCreates = FALSE, TermInv, CommandStep
  PROVE  TermInv'
<1>1. CASE IsJob /\ ReadStep
  BY <1>1, CommandFacts, ReadStepKeeps DEF IsJob, MayRead
<1>2. CASE /\ IsJob /\ UNCHANGED shellVars
           /\ CreatesNothing \/ \E new \in Pids : Creates("other", new)
  BY <1>2, JobCreates
<1>3. CASE SysExit /\ KeepSlots /\ UNCHANGED <<kbdVars, shellVars>>
  BY <1>3, CommandFacts, ProgramDies DEF SysExit
<1>4. CASE /\ \E p \in Victims : SysKill(p)
           /\ KeepSlots /\ UNCHANGED <<kbdVars, shellVars>>
  <2>1. PICK p \in Victims : SysKill(p)
    BY <1>4
  <2>2. p \in Pids /\ p \notin {1, Shell}
    BY TerminalAssumption
  <2> QED
    BY <1>4, <2>1, <2>2, ProgramDies DEF SysKill
<1> QED
  BY <1>1, <1>2, <1>3, <1>4 DEF CommandStep

LEMMA KernelKeeps == ASSUME TermInv, KernelStep PROVE TermInv'
<1>1. CASE ReadResumes
  <2>1. MayRead
    BY <1>1, CurrentFacts, PidFacts
       DEF ReadResumes, InRead, MayRead, TermInv, ReaderInv, JobInv, ShellInv, Live, Dead
  <2> QED
    BY <1>1, <2>1, ReadStepKeeps DEF ReadResumes
<1>2. CASE TermTimer
  <2>1. TableInv' /\ IdleUp' /\ Effect(state, waiting_for_pid)
    BY <1>2, CurrentFacts, UnchangedTable, TickEffect
       DEF TermTimer, TimerTick, TermInv, IdleUp
  <2>2. /\ SlotsKept /\ reading' \in [Pids -> BOOLEAN]
        /\ kind' \in [Pids -> {"shell", "job", "other"}]
    BY <1>2, KeepSlotsKeeps DEF TermTimer, TermInv
  <2>3. UNCHANGED <<modifiers, keyboard_buffer, kbd_waiting_pid, fg_pid,
                    shell_pc, typed, job>>
    BY <1>2 DEF TermTimer, kbdVars, shellVars
  <2>4. ShellInv' /\ JobInv' /\ ReaderInv'
    BY <2>1, <2>2, <2>3, EffectIsQuiet, QuietStep
  <2> QED
    BY <2>1, <2>2, <2>3, <2>4, KeyboardTypes DEF TermInv, TermTypeOK, TableInv
<1> QED
  BY <1>1, <1>2 DEF KernelStep

LEMMA StutterKeeps == ASSUME TermInv, UNCHANGED termVars PROVE TermInv'
  BY DEF termVars, vars, kbdVars, shellVars, TermInv, TermTypeOK, TypeOK,
         OnlyCurrentRuns, WaitTargetAlive, IdleUp, ShellInv, JobInv, ShellAwaits,
         ReaderInv, SleepingReaderIsHeard, AsleepReading, Live

LEMMA TermStep ==
  ASSUME BgReads = FALSE, BgCreates = FALSE, TermInv, [TermNext]_termVars
  PROVE  TermInv'
  BY KeyStep, ShellKeeps, CommandKeeps, KernelKeeps, StutterKeeps DEF TermNext

LEMMA TermStart == ASSUME TermInit PROVE TermInv
<1>1. TableInv /\ IdleUp
  BY InitTable, PidFacts DEF TermInit, Init, IdleUp
<1>2. ShellInv /\ JobInv /\ ReaderInv
  BY PidFacts
     DEF TermInit, Init, ShellInv, JobInv, ReaderInv, SleepingReaderIsHeard,
         AsleepReading, Live, Dead, Shell, Pids
<1>3. TermTypeOK
  BY <1>1, TerminalAssumption, TableAssumption DEF TermInit, TermTypeOK, TableInv
<1> QED
  BY <1>1, <1>2, <1>3 DEF TermInv, TableInv

-----------------------------------------------------------------------------
\* The keyboard, the foreground and the shell keep their types: the ring never
\* holds more than its size and a line never more than BUFFER characters.
THEOREM TermTypeCorrect ==
  ASSUME BgReads = FALSE, BgCreates = FALSE
  PROVE  TermSpec => []TermTypeOK
<1>1. TermInv => TermTypeOK
  BY DEF TermInv
<1> QED
  BY <1>1, TermStart, TermStep, PTL DEF TermSpec

\* Nobody sleeps at the keyboard unheard: kbd_waiting_pid names whoever sleeps in
\* sys_read, and nobody sleeps there beside a character.
THEOREM ReadersAreHeard ==
  ASSUME BgReads = FALSE, BgCreates = FALSE
  PROVE  TermSpec => []SleepingReaderIsHeard
<1>1. TermInv => SleepingReaderIsHeard
  BY DEF TermInv, ReaderInv
<1> QED
  BY <1>1, TermStart, TermStep, PTL DEF TermSpec

\* Ctrl+C at the prompt of the shell finds no foreground process.
THEOREM PromptIsSafe ==
  ASSUME BgReads = FALSE, BgCreates = FALSE
  PROVE  TermSpec => []PromptHasNoForeground
<1>1. TermInv => PromptHasNoForeground
  BY DEF TermInv, ShellInv, PromptHasNoForeground
<1> QED
  BY <1>1, TermStart, TermStep, PTL DEF TermSpec

\* Ctrl+C kills nothing but the job in the foreground, however the interrupt
\* falls between create, set_fg_pid, waitpid and the set_fg_pid(0) after it.
THEOREM CtrlCIsAimed ==
  ASSUME BgReads = FALSE, BgCreates = FALSE
  PROVE  TermSpec => CtrlCKillsTheJob
<1>1. ASSUME TermInv, KeyPress, NEW p \in Pids,
             state[p] \notin {"NONE", "KILLED"}, state'[p] \in {"NONE", "KILLED"}
      PROVE  kind[p] = "job"
  <2>1. Live(p) /\ ~Live(p)'
    BY <1>1 DEF Live, Dead
  <2> QED
    BY <1>1, <2>1, KeyStep DEF TermInv, JobInv
<1>2. TermInv /\ [TermNext]_termVars =>
        [KeyPress => \A p \in Pids :
           state[p] \notin {"NONE", "KILLED"} /\ state'[p] \in {"NONE", "KILLED"}
             => kind[p] = "job"]_termVars
  BY <1>1
<1> QED
  BY <1>2, TermStart, TermStep, PTL DEF TermSpec, CtrlCKillsTheJob

-----------------------------------------------------------------------------
(* The screen.  A pen is the cursor and the picture between two characters  *)
(* of a sys_write; the lines of a font divide the screen into rows.         *)

Rows == {y \in 0..(ScreenHeight - Height) : \E k \in Nat : y = k * LineHeight}
Places == (0..(ScreenWidth - Width)) \X Rows

Pens == [x : 0..(ScreenWidth + FONT_CHAR_GAP), y : Rows,
         shown : SUBSET Places, placed : Seq(Places)]

\* Tidy for the pen s.
Neat(s) ==
  /\ \A g, h \in s.shown : g # h => Apart(g, h)
  /\ \A g \in s.shown : g[2] < s.y \/ (g[2] = s.y /\ g[1] + Width <= s.x)

\* The inductive invariant: CursorOnScreen, and every character is on a row.
ScreenInv ==
  /\ currentFont \in Fonts
  /\ x_coord \in 0..(ScreenWidth + FONT_CHAR_GAP)
  /\ y_coord \in Rows
  /\ glyphs \subseteq Places

\* Every non-empty set of numbers has a least one.
LEMMA LeastNumber ==
  ASSUME NEW T \in SUBSET Nat, T # {}
  PROVE  \E x \in T : \A y \in T : x <= y
<1>1. PICK x \in T : \A y \in T : ~(<<y, x>> \in OpToRel(<, Nat))
  BY WFMin, NatLessThanWellFounded
<1>2. ASSUME NEW y \in T
      PROVE  x <= y
  <2>1. <<y, x>> \in Nat \X Nat /\ <<y, x>> \notin OpToRel(<, Nat)
    BY <1>1
  <2>2. ~(y < x)
    BY <2>1 DEF OpToRel
  <2>3. x \in Int /\ y \in Int
    OBVIOUS
  <2> QED
    BY <2>2, <2>3
<1> QED
  BY <1>2

\* What holds of lo and, below hi, of n + 1 when it holds of n, holds up to hi.
LEMMA Climb ==
  ASSUME NEW lo \in Nat, NEW hi \in Nat, NEW S, lo \in S,
         \A n \in lo..(hi - 1) : n \in S => n + 1 \in S
  PROVE  lo..hi \subseteq S
<1> DEFINE T == (lo..hi) \ S
<1> SUFFICES ASSUME T # {}
             PROVE  FALSE
  OBVIOUS
<1>1. T \in SUBSET Nat
  OBVIOUS
<1> HIDE DEF T
<1>2. PICK x \in T : \A y \in T : x <= y
  BY <1>1, LeastNumber
<1> USE DEF T
<1>3. x \in Nat /\ x > lo /\ x <= hi
  OBVIOUS
<1>4. x - 1 \notin T
  BY <1>2, <1>3
<1> QED
  BY <1>3, <1>4

LEMMA SmallMod ==
  ASSUME NEW a \in Nat, NEW w \in Nat, a < w
  PROVE  a % w = a
  OBVIOUS

LEMMA TabFacts ==
  ASSUME currentFont \in Fonts
  PROVE  /\ CellWidth \in Nat /\ CellWidth = Width + FONT_CHAR_GAP
         /\ \E tab \in CellWidth..ScreenWidth :
              tab = TAB_SPACES * CellWidth /\ ScreenWidth + FONT_CHAR_GAP + tab < Word
<1>1. Widths[currentFont] \in Nat \ {0}
  BY ScreenAssumption DEF Fonts
<1>2. FONT_CHAR_GAP \in Nat /\ TAB_SPACES \in Nat \ {0} /\ ScreenWidth \in Nat
  BY ScreenAssumption
<1>3. CellWidth \in Nat /\ CellWidth = Width + FONT_CHAR_GAP
  BY <1>1, <1>2 DEF CellWidth, Cell, Width
<1>4. TAB_SPACES * CellWidth >= CellWidth /\ TAB_SPACES * CellWidth \in Nat
  BY <1>2, <1>3
<1>5. /\ TAB_SPACES * CellWidth <= ScreenWidth
      /\ ScreenWidth + FONT_CHAR_GAP + TAB_SPACES * CellWidth < Word
  BY ScreenAssumption DEF CellWidth
<1>6. TAB_SPACES * CellWidth \in CellWidth..ScreenWidth
  BY <1>2, <1>3, <1>4, <1>5
<1> QED
  BY <1>3, <1>5, <1>6

LEMMA FontFacts ==
  ASSUME currentFont \in Fonts
  PROVE  /\ ScreenWidth \in Nat /\ ScreenHeight \in Nat /\ FONT_CHAR_GAP \in Nat
         /\ Width \in Nat \ {0} /\ Height \in Nat \ {0}
         /\ CellWidth = Width + FONT_CHAR_GAP /\ LineHeight = Height + FONT_CHAR_GAP
         /\ Height <= ScreenHeight /\ CellWidth <= ScreenWidth
         /\ ScreenHeight + LineHeight < Word
         /\ Word \in Nat
<1>1. /\ Widths[currentFont] \in Nat \ {0} /\ Heights[currentFont] \in Nat \ {0}
  BY ScreenAssumption DEF Fonts
<1>2. /\ ScreenWidth \in Nat /\ ScreenHeight \in Nat /\ FONT_CHAR_GAP \in Nat
      /\ Height <= ScreenHeight /\ ScreenHeight + LineHeight < Word
  BY ScreenAssumption DEF Height, LineHeight
<1>3. Word \in Nat
  BY DEF Word
<1>4. CellWidth <= ScreenWidth
  BY TabFacts, <1>2
<1> QED
  BY <1>1, <1>2, <1>3, <1>4 DEF Width, Height, CellWidth, LineHeight, Cell, Line

LEMMA RowFacts ==
  ASSUME currentFont \in Fonts
  PROVE  /\ 0 \in Rows
         /\ \A y \in Rows : /\ y \in 0..(ScreenHeight - Height)
                            /\ y % LineHeight = 0
                            /\ y + LineHeight + Height <= ScreenHeight => y + LineHeight \in Rows
                            /\ y > 0 => y - LineHeight \in Rows
         /\ \A y, z \in Rows : y < z => y + LineHeight <= z
<1> DEFINE L == LineHeight
<1>1. /\ L \in Nat \ {0} /\ ScreenHeight \in Nat /\ Height \in Nat /\ Height <= ScreenHeight
  BY FontFacts
<1>2. Rows = {y \in 0..(ScreenHeight - Height) : \E k \in Nat : y = k * L}
  BY DEF Rows
<1> HIDE DEF L
<1>3. \A j, k \in Nat : j < k => j * L + L <= k * L
  <2> SUFFICES ASSUME NEW j \in Nat, NEW k \in Nat, j < k
               PROVE  j * L + L <= k * L
    OBVIOUS
  <2>1. PICK d \in Nat : k = j + 1 + d
    <3>1. k - j - 1 \in Nat /\ k = j + 1 + (k - j - 1)
      OBVIOUS
    <3> QED
      BY <3>1
  <2>2. k * L = j * L + L + d * L /\ d * L >= 0
    BY <1>1, <2>1
  <2>3. j * L \in Nat /\ d * L \in Nat
    BY <1>1
  <2> QED
    BY <1>1, <2>2, <2>3
<1>4. 0 \in Rows
  <2>1. 0 = 0 * L
    BY <1>1
  <2> QED
    BY <1>1, <1>2, <2>1
<1>5. ASSUME NEW y \in Rows
      PROVE  /\ y \in 0..(ScreenHeight - Height)
             /\ y % L = 0
             /\ y + L + Height <= ScreenHeight => y + L \in Rows
             /\ y > 0 => y - L \in Rows
  <2>1. PICK k \in Nat : y = k * L
    BY <1>2
  <2>2. y \in 0..(ScreenHeight - Height)
    BY <1>2
  <2>3. y % L = 0
    BY <1>1, <2>1
  <2>4. y + L = (k + 1) * L
    BY <1>1, <2>1
  <2>5. y > 0 => k - 1 \in Nat /\ y - L = (k - 1) * L /\ y - L >= 0
    <3> HAVE y > 0
    <3>1. k # 0
      BY <1>1, <2>1
    <3>2. 0 < k /\ 0 * L = 0
      BY <1>1, <3>1
    <3>3. 0 * L + L <= k * L
      BY <1>3, <3>2
    <3>4. y - L = (k - 1) * L
      BY <1>1, <2>1
    <3> QED
      BY <1>1, <2>1, <2>2, <3>1, <3>2, <3>3, <3>4
  <2>6. y + L + Height <= ScreenHeight => y + L \in 0..(ScreenHeight - Height)
    BY <1>1, <2>2
  <2>7. y > 0 => y - L \in 0..(ScreenHeight - Height)
    BY <1>1, <2>2, <2>5
  <2> QED
    BY <1>2, <2>2, <2>3, <2>4, <2>5, <2>6, <2>7
<1>6. ASSUME NEW y \in Rows, NEW z \in Rows, y < z
      PROVE  y + L <= z
  <2>1. PICK j \in Nat : y = j * L
    BY <1>2
  <2>2. PICK k \in Nat : z = k * L
    BY <1>2
  <2>3. j < k
    <3>1. k < j => k * L + L <= j * L
      BY <1>3
    <3>2. k = j => y = z
      BY <2>1, <2>2
    <3>3. y \in Nat /\ z \in Nat
      BY <1>1, <1>2
    <3> QED
      BY <1>1, <1>6, <2>1, <2>2, <3>1, <3>2, <3>3
  <2> QED
    BY <1>3, <2>1, <2>2, <2>3
<1> USE DEF L
<1> QED
  BY <1>4, <1>5, <1>6

LEMMA PlaceFacts ==
  ASSUME currentFont \in Fonts, NEW g \in Places
  PROVE  /\ g[1] \in Nat /\ g[1] + Width <= ScreenWidth
         /\ g[2] \in Rows /\ g[2] \in Nat /\ g[2] + Height <= ScreenHeight
         /\ g = <<g[1], g[2]>>
<1>1. g[1] \in 0..(ScreenWidth - Width) /\ g[2] \in Rows /\ g = <<g[1], g[2]>>
  BY DEF Places
<1>2. g[2] \in 0..(ScreenHeight - Height)
  BY <1>1, RowFacts
<1> QED
  BY <1>1, <1>2, FontFacts

LEMMA PenFacts ==
  ASSUME currentFont \in Fonts, NEW s \in Pens
  PROVE  /\ s.x \in Nat /\ s.x <= ScreenWidth + FONT_CHAR_GAP
         /\ s.x \in 0..(ScreenWidth + FONT_CHAR_GAP)
         /\ s.y \in Rows /\ s.y \in Nat /\ s.y + Height <= ScreenHeight
         /\ s.shown \subseteq Places /\ s.placed \in Seq(Places)
<1>1. /\ s.x \in 0..(ScreenWidth + FONT_CHAR_GAP) /\ s.y \in Rows
      /\ s.shown \subseteq Places /\ s.placed \in Seq(Places)
  BY DEF Pens
<1>2. s.y \in 0..(ScreenHeight - Height)
  BY <1>1, RowFacts
<1> QED
  BY <1>1, <1>2, FontFacts

-----------------------------------------------------------------------------
(* The steps of sys_write. *)

LEMMA NewLineKept ==
  ASSUME currentFont \in Fonts, NEW s \in Pens,
         NEW x \in 0..(ScreenWidth + FONT_CHAR_GAP)
  PROVE  /\ NewLine(s, x) \in Pens
         /\ NewLine(s, x).x = x
         /\ NewLine(s, x).placed = s.placed
         /\ Neat(s) => Neat(NewLine(s, x))
<1> DEFINE y == s.y + LineHeight
           t == NewLine(s, x)
<1>0. /\ s.y \in Nat /\ s.y \in Rows /\ s.y + Height <= ScreenHeight
      /\ Height \in Nat /\ LineHeight \in Nat \ {0} /\ ScreenHeight \in Nat /\ Word \in Nat
      /\ ScreenHeight + LineHeight < Word
  BY FontFacts, PenFacts
<1>1. y \in Nat /\ y < Word /\ y % Word = y
  <2>1. y \in Nat /\ y < Word
    BY <1>0
  <2> HIDE DEF y
  <2> QED
    BY <1>0, <2>1, SmallMod
<1>2. CASE y + Height > ScreenHeight
  <2>1. (y - LineHeight) % Word = s.y
    <3>1. y - LineHeight = s.y /\ s.y < Word
      BY <1>0
    <3> QED
      BY <1>0, <3>1, SmallMod
  <2>2. t = [s EXCEPT !.x = x, !.y = s.y, !.shown = scrollScreen(s.shown)]
    BY <1>1, <1>2, <2>1 DEF NewLine
  <2>3. ASSUME NEW g \in scrollScreen(s.shown)
        PROVE  /\ g \in Places
               /\ \E h \in s.shown : g = <<h[1], h[2] - LineHeight>>
    <3>1. PICK h \in s.shown : h[2] >= LineHeight /\ g = <<h[1], h[2] - LineHeight>>
      BY DEF scrollScreen
    <3>2. h \in Places /\ h[2] > 0 /\ h[2] \in Rows
      BY <3>1, FontFacts, PenFacts, PlaceFacts
    <3>3. h[2] - LineHeight \in Rows
      BY <3>2, RowFacts
    <3> QED
      BY <3>1, <3>2, <3>3 DEF Places
  <2>4. /\ t \in Pens /\ t.x = x /\ t.y = s.y /\ t.shown = scrollScreen(s.shown)
        /\ t.placed = s.placed
    <3>1. scrollScreen(s.shown) \in SUBSET Places
      BY <2>3
    <3> QED
      BY <2>2, <3>1, PenFacts DEF Pens
  <2>5. ASSUME Neat(s)
        PROVE  Neat(t)
    <3>1. ASSUME NEW g \in t.shown, NEW h \in t.shown, g # h
          PROVE  Apart(g, h)
      <4>1. PICK a \in s.shown : g = <<a[1], a[2] - LineHeight>>
        BY <2>3, <2>4
      <4>2. PICK b \in s.shown : h = <<b[1], b[2] - LineHeight>>
        BY <2>3, <2>4
      <4>3. a \in Places /\ b \in Places
        BY PenFacts
      <4>4. Apart(a, b)
        BY <2>5, <3>1, <4>1, <4>2 DEF Neat
      <4> QED
        BY <4>1, <4>2, <4>3, <4>4, PlaceFacts, FontFacts DEF Apart
    <3>2. ASSUME NEW g \in t.shown
          PROVE  g[2] < t.y
      <4>1. PICK a \in s.shown : g = <<a[1], a[2] - LineHeight>>
        BY <2>3, <2>4
      <4>2. a \in Places /\ a[2] <= s.y
        BY <2>5, PenFacts, PlaceFacts, RowFacts DEF Neat
      <4> QED
        BY <1>0, <2>4, <4>1, <4>2, PlaceFacts
    <3> QED
      BY <3>1, <3>2 DEF Neat
  <2> QED
    BY <2>4, <2>5
<1>3. CASE ~(y + Height > ScreenHeight)
  <2>1. y \in Rows
    <3>1. s.y + LineHeight + Height <= ScreenHeight
      BY <1>0, <1>3
    <3> QED
      BY <1>0, <3>1, RowFacts
  <2>2. t = [s EXCEPT !.x = x, !.y = y]
    BY <1>1, <1>3 DEF NewLine
  <2>3. /\ t \in Pens /\ t.x = x /\ t.y = y /\ t.shown = s.shown
        /\ t.placed = s.placed
    <3> HIDE DEF y
    <3> QED
      BY <2>1, <2>2, PenFacts DEF Pens
  <2>4. ASSUME Neat(s)
        PROVE  Neat(t)
    <3>1. ASSUME NEW g \in t.shown
          PROVE  g[2] < t.y
      <4>1. g \in Places /\ g[2] <= s.y
        BY <2>3, <2>4, PenFacts, PlaceFacts, RowFacts DEF Neat
      <4> QED
        BY <1>0, <2>3, <4>1, PlaceFacts
    <3> QED
      BY <2>3, <2>4, <3>1 DEF Neat
  <2> QED
    BY <2>3, <2>4
<1> QED
  BY <1>2, <1>3

LEMMA TabKept ==
  ASSUME currentFont \in Fonts, NEW s \in Pens
  PROVE  Tab(s) \in Pens /\ (Neat(s) => Neat(Tab(s)))
<1> DEFINE x == s.x + TAB_SPACES * CellWidth
<1>1. PICK tab \in CellWidth..ScreenWidth :
        tab = TAB_SPACES * CellWidth /\ ScreenWidth + FONT_CHAR_GAP + tab < Word
  BY TabFacts
<1>2. /\ s.x \in Nat /\ s.x <= ScreenWidth + FONT_CHAR_GAP
      /\ ScreenWidth \in Nat /\ FONT_CHAR_GAP \in Nat /\ Word \in Nat /\ CellWidth \in Nat \ {0}
  BY PenFacts, FontFacts
<1>3. x = s.x + tab /\ x \in Nat /\ x < Word /\ x > s.x /\ ScreenWidth > 0
  BY <1>1, <1>2
<1> HIDE DEF x
<1>4. x % Word = x
  BY <1>2, <1>3, SmallMod
<1>5. CASE x >= ScreenWidth
  <2>1. Tab(s) = NewLine(s, x % ScreenWidth)
    BY <1>4, <1>5 DEF Tab, x
  <2>2. x % ScreenWidth \in 0..(ScreenWidth + FONT_CHAR_GAP)
    <3>1. x % ScreenWidth \in 0..(ScreenWidth - 1)
      BY <1>2, <1>3
    <3> QED
      BY <1>2, <3>1
  <2> QED
    BY <2>1, <2>2, NewLineKept
<1>6. CASE ~(x >= ScreenWidth)
  <2>1. Tab(s) = [s EXCEPT !.x = x]
    BY <1>4, <1>6 DEF Tab, x
  <2>2. x \in 0..(ScreenWidth + FONT_CHAR_GAP)
    BY <1>2, <1>3, <1>6
  <2>3. Tab(s) \in Pens /\ Tab(s).x = x /\ Tab(s).y = s.y /\ Tab(s).shown = s.shown
    BY <2>1, <2>2, PenFacts DEF Pens
  <2>4. ASSUME Neat(s)
        PROVE  Neat(Tab(s))
    <3>1. ASSUME NEW g \in s.shown, g[2] = s.y, g[1] + Width <= s.x
          PROVE  g[1] + Width <= x
      <4>1. g \in Places
        BY PenFacts
      <4>2. g[1] \in Nat /\ Width \in Nat
        BY <4>1, PlaceFacts, FontFacts
      <4> QED
        BY <1>2, <1>3, <3>1, <4>2
    <3> QED
      BY <2>3, <2>4, <3>1 DEF Neat
  <2> QED
    BY <2>3, <2>4
<1> QED
  BY <1>5, <1>6

LEMMA BackspaceKept ==
  ASSUME currentFont \in Fonts, NEW s \in Pens
  PROVE  Backspace(s) \in Pens
<1> DEFINE b == Back(s)
<1>1. PICK tab \in CellWidth..ScreenWidth :
        tab = TAB_SPACES * CellWidth /\ ScreenWidth + FONT_CHAR_GAP + tab < Word
  BY TabFacts
<1>2. /\ s.x \in Nat /\ s.x <= ScreenWidth + FONT_CHAR_GAP
      /\ ScreenWidth \in Nat /\ FONT_CHAR_GAP \in Nat /\ Word \in Nat /\ CellWidth \in Nat \ {0}
      /\ s.y \in Nat /\ s.y \in Rows /\ s.y + Height <= ScreenHeight
      /\ Height \in Nat /\ LineHeight \in Nat \ {0} /\ ScreenHeight \in Nat
      /\ ScreenHeight + LineHeight < Word
  <2>1. /\ s.x \in Nat /\ s.x <= ScreenWidth + FONT_CHAR_GAP
        /\ s.y \in Nat /\ s.y \in Rows /\ s.y + Height <= ScreenHeight
    BY PenFacts
  <2>2. CellWidth \in Nat \ {0} /\ LineHeight \in Nat \ {0}
    BY FontFacts
  <2> QED
    BY <2>1, <2>2, FontFacts
<1>3. b \in Pens
  <2>1. CASE s.x > CellWidth
    <3>1. b = [s EXCEPT !.x = s.x - CellWidth]
      BY <2>1 DEF Back
    <3>2. s.x - CellWidth \in 0..(ScreenWidth + FONT_CHAR_GAP)
      BY <1>2, <2>1
    <3> QED
      BY <3>1, <3>2, PenFacts DEF Pens
  <2>2. CASE ~(s.x > CellWidth) /\ s.y > 0
    <3> DEFINE x == ScreenWidth - tab + s.x
               y == s.y - LineHeight
    <3>1. y \in Rows
      BY <1>2, <2>2, RowFacts
    <3>2. y \in Nat /\ y < Word /\ y % Word = y
      <4>1. y \in Nat /\ y < Word
        BY <1>2, <3>1, RowFacts
      <4> HIDE DEF y
      <4> QED
        BY <1>2, <4>1, SmallMod
    <3>3. x \in 0..(ScreenWidth + FONT_CHAR_GAP) /\ x % Word = x
      <4>1. x \in Nat /\ x <= ScreenWidth /\ x < Word
        BY <1>1, <1>2, <2>2
      <4> HIDE DEF x
      <4> QED
        BY <1>2, <4>1, SmallMod
    <3>4. b = [s EXCEPT !.x = x % Word, !.y = y % Word]
      BY <1>1, <2>2 DEF Back
    <3> HIDE DEF x, y
    <3> QED
      BY <3>1, <3>2, <3>3, <3>4, PenFacts DEF Pens
  <2>3. CASE ~(s.x > CellWidth) /\ ~(s.y > 0)
    <3>1. b = [s EXCEPT !.x = 0]
      BY <2>3 DEF Back
    <3>2. 0 \in 0..(ScreenWidth + FONT_CHAR_GAP)
      BY <1>2
    <3> QED
      BY <3>1, <3>2, PenFacts DEF Pens
  <2> QED
    BY <2>1, <2>2, <2>3
<1>4. Backspace(s) = [b EXCEPT !.shown = b.shown \ {<<b.x, b.y>>}]
  BY DEF Backspace
<1> HIDE DEF b
<1>5. b.shown \ {<<b.x, b.y>>} \in SUBSET Places
  BY <1>3 DEF Pens
<1> QED
  BY <1>3, <1>4, <1>5 DEF Pens

\* Drawing at the cursor when there is room for the character.
LEMMA DrawKept ==
  ASSUME currentFont \in Fonts, NEW s \in Pens, s.x + Width <= ScreenWidth, NEW c
  PROVE  /\ PutChar(s, c) \in Pens
         /\ PutChar(s, c).x = s.x + CellWidth /\ PutChar(s, c).y = s.y
         /\ PutChar(s, c).placed = Append(s.placed, <<s.x, s.y>>)
         /\ Neat(s) => Neat(PutChar(s, c))
<1> DEFINE t == PutChar(s, c)
           p == <<s.x, s.y>>
           shown == IF c # " " /\ isValidScreenPrint(s) THEN s.shown \union {p} ELSE s.shown
<1>1. /\ s.x \in Nat /\ s.y \in Rows /\ s.y \in Nat
      /\ ScreenWidth \in Nat /\ FONT_CHAR_GAP \in Nat
      /\ Width \in Nat \ {0} /\ CellWidth = Width + FONT_CHAR_GAP
      /\ Height \in Nat /\ LineHeight = Height + FONT_CHAR_GAP
      /\ s.shown \subseteq Places /\ s.placed \in Seq(Places)
  BY PenFacts, FontFacts
<1>2. p \in Places
  BY <1>1 DEF Places
<1>3. t = [s EXCEPT !.x = s.x + CellWidth, !.shown = shown, !.placed = Append(s.placed, p)]
  <2>1. ~(s.x + Width > ScreenWidth)
    BY <1>1
  <2> QED
    BY <2>1 DEF PutChar
<1>4. shown \in SUBSET Places /\ shown \subseteq s.shown \union {p}
  BY <1>1, <1>2
<1>5. s.x + CellWidth \in 0..(ScreenWidth + FONT_CHAR_GAP)
  BY <1>1
<1>6. Append(s.placed, p) \in Seq(Places)
  BY <1>1, <1>2
<1> HIDE DEF shown, p
<1>7. /\ t \in Pens /\ t.x = s.x + CellWidth /\ t.y = s.y /\ t.shown = shown
      /\ t.placed = Append(s.placed, p)
  BY <1>1, <1>3, <1>4, <1>5, <1>6 DEF Pens
<1> HIDE DEF t
<1>8. ASSUME Neat(s)
      PROVE  Neat(t)
  <2>1. ASSUME NEW g \in s.shown
        PROVE  Apart(g, p) /\ Apart(p, g) /\ (g[2] < s.y \/ (g[2] = s.y /\ g[1] + Width <= s.x))
    <3>1. g \in Places /\ (g[2] < s.y \/ (g[2] = s.y /\ g[1] + Width <= s.x))
      BY <1>1, <1>8, <2>1 DEF Neat
    <3>2. CASE g[2] < s.y
      <4>1. g[2] + LineHeight <= s.y
        BY <1>1, <3>1, <3>2, PlaceFacts, RowFacts
      <4>2. g[2] + Height <= s.y
        <5>1. g[2] \in Nat
          BY <3>1, PlaceFacts
        <5> QED
          BY <1>1, <4>1, <5>1
      <4> QED
        BY <3>1, <4>2 DEF Apart, p
    <3>3. CASE g[2] = s.y /\ g[1] + Width <= s.x
      BY <3>1, <3>3 DEF Apart, p
    <3> QED
      BY <3>1, <3>2, <3>3
  <2>2. ASSUME NEW g \in t.shown, NEW h \in t.shown, g # h
        PROVE  Apart(g, h)
    <3>1. g \in s.shown \union {p} /\ h \in s.shown \union {p}
      BY <1>4, <1>7
    <3> QED
      BY <1>8, <2>1, <2>2, <3>1 DEF Neat
  <2>3. ASSUME NEW g \in t.shown
        PROVE  g[2] < t.y \/ (g[2] = t.y /\ g[1] + Width <= t.x)
    <3>1. CASE g \in s.shown
      <4>1. g \in Places
        BY <1>1, <3>1
      <4>2. g[2] = s.y /\ g[1] + Width <= s.x => g[1] + Width <= s.x + CellWidth
        BY <1>1, <4>1, PlaceFacts
      <4> QED
        BY <1>7, <2>1, <3>1, <4>2
    <3>2. CASE g = p
      <4>1. g[1] = s.x /\ g[2] = s.y
        BY <3>2 DEF p
      <4>2. s.x + Width <= s.x + CellWidth
        BY <1>1
      <4> QED
        BY <1>7, <4>1, <4>2
    <3> QED
      BY <1>4, <1>7, <3>1, <3>2
  <2> QED
    BY <2>2, <2>3 DEF Neat
<1> QED
  BY <1>7, <1>8 DEF t, p

LEMMA PutCharKept ==
  ASSUME currentFont \in Fonts, NEW s \in Pens, NEW c
  PROVE  /\ PutChar(s, c) \in Pens
         /\ \E p \in Places : PutChar(s, c).placed = Append(s.placed, p)
         /\ Neat(s) => Neat(PutChar(s, c))
<1>1. CASE s.x + Width <= ScreenWidth
  <2>1. /\ PutChar(s, c) \in Pens
        /\ PutChar(s, c).placed = Append(s.placed, <<s.x, s.y>>)
        /\ Neat(s) => Neat(PutChar(s, c))
    BY <1>1, DrawKept
  <2>2. <<s.x, s.y>> \in Places
    BY <1>1, PenFacts, FontFacts DEF Places
  <2> QED
    BY <2>1, <2>2
<1>2. CASE ~(s.x + Width <= ScreenWidth)
  <2> DEFINE t == NewLine(s, 0)
  <2>1. s.x + Width > ScreenWidth
    BY <1>2, PenFacts, FontFacts
  <2>2. 0 \in 0..(ScreenWidth + FONT_CHAR_GAP) /\ Width <= ScreenWidth /\ 0 + Width <= ScreenWidth
    BY FontFacts
  <2>3. /\ t \in Pens /\ t.x = 0 /\ t.placed = s.placed /\ (Neat(s) => Neat(t))
    BY <2>2, NewLineKept
  <2>4. PutChar(s, c) = PutChar(t, c)
    <3>1. ~(t.x + Width > ScreenWidth)
      BY <2>2, <2>3, FontFacts
    <3> QED
      BY <2>1, <3>1 DEF PutChar
  <2> HIDE DEF t
  <2>5. /\ PutChar(t, c) \in Pens
        /\ PutChar(t, c).placed = Append(t.placed, <<t.x, t.y>>)
        /\ Neat(t) => Neat(PutChar(t, c))
    BY <2>2, <2>3, DrawKept
  <2>6. <<t.x, t.y>> \in Places
    <3>1. t.x = 0 /\ t.y \in Rows
      BY <2>3, PenFacts
    <3>2. 0 \in 0..(ScreenWidth - Width)
      BY <2>2, FontFacts
    <3> QED
      BY <3>1, <3>2 DEF Places
  <2> QED
    BY <2>3, <2>4, <2>5, <2>6
<1> QED
  BY <1>1, <1>2

LEMMA WrapWordKept ==
  ASSUME currentFont \in Fonts, NEW s \in Pens, NEW str, NEW i
  PROVE  /\ WrapWord(s, str, i) \in Pens
         /\ WrapWord(s, str, i).placed = s.placed
         /\ Neat(s) => Neat(WrapWord(s, str, i))
<1>1. WrapWord(s, str, i) \in {s, NewLine(s, 0)}
  BY DEF WrapWord
<1>2. 0 \in 0..(ScreenWidth + FONT_CHAR_GAP)
  BY FontFacts
<1>3. /\ NewLine(s, 0) \in Pens /\ NewLine(s, 0).placed = s.placed
      /\ Neat(s) => Neat(NewLine(s, 0))
  BY <1>2, NewLineKept
<1> QED
  BY <1>1, <1>3

\* What one character of a string does to the pen.
LEMMA WriteCharKept ==
  ASSUME currentFont \in Fonts, NEW s \in Pens, NEW str, NEW i
  PROVE  /\ WriteChar(s, str, i) \in Pens
         /\ str[i] \notin {"return", "backspace"} /\ Neat(s) => Neat(WriteChar(s, str, i))
         /\ str[i] \notin Special =>
              /\ WriteChar(s, str, i) = PutChar(WrapWord(s, str, i), str[i])
              /\ \E p \in Places : WriteChar(s, str, i).placed = Append(s.placed, p)
<1> DEFINE t == WriteChar(s, str, i)
<1>0. 0 \in 0..(ScreenWidth + FONT_CHAR_GAP)
  BY FontFacts
<1>1. CASE str[i] = "newline"
  <2>1. t = NewLine(s, 0)
    BY <1>1 DEF WriteChar
  <2> QED
    BY <1>0, <1>1, <2>1, NewLineKept DEF Special
<1>2. CASE str[i] = "return"
  <2>1. t = [s EXCEPT !.x = 0]
    BY <1>2 DEF WriteChar
  <2>2. t \in Pens
    BY <1>0, <2>1, PenFacts DEF Pens
  <2> QED
    BY <1>2, <2>2 DEF Special
<1>3. CASE str[i] = "tab"
  <2>1. t = Tab(s)
    BY <1>3 DEF WriteChar
  <2> QED
    BY <1>3, <2>1, TabKept DEF Special
<1>4. CASE str[i] = "backspace"
  <2>1. t = Backspace(s)
    BY <1>4 DEF WriteChar
  <2> QED
    BY <1>4, <2>1, BackspaceKept DEF Special
<1>5. CASE str[i] \notin Special
  <2>1. t = PutChar(WrapWord(s, str, i), str[i])
    BY <1>5 DEF WriteChar, Special
  <2>2. /\ WrapWord(s, str, i) \in Pens
        /\ WrapWord(s, str, i).placed = s.placed
        /\ Neat(s) => Neat(WrapWord(s, str, i))
    BY WrapWordKept
  <2>3. /\ PutChar(WrapWord(s, str, i), str[i]) \in Pens
        /\ \E p \in Places :
             PutChar(WrapWord(s, str, i), str[i]).placed = Append(WrapWord(s, str, i).placed, p)
        /\ Neat(WrapWord(s, str, i)) => Neat(PutChar(WrapWord(s, str, i), str[i]))
    BY <2>2, PutCharKept
  <2> QED
    BY <2>1, <2>2, <2>3
<1> QED
  BY <1>1, <1>2, <1>3, <1>4, <1>5 DEF Special

LEMMA PlainChar ==
  ASSUME currentFont \in Fonts, NEW s \in Pens, NEW str, NEW i, str[i] \notin Special
  PROVE  /\ WriteChar(s, str, i) = PutChar(WrapWord(s, str, i), str[i])
         /\ \E p \in Places : WriteChar(s, str, i).placed = Append(s.placed, p)
  BY WriteCharKept

-----------------------------------------------------------------------------
(* The characters of a string. *)

\* The pens after each character of a string, as in sys_write.
Pass(f, str) == f = [i \in 0..Len(str) |-> IF i = 0 THEN Now ELSE WriteChar(f[i - 1], str, i)]

LEMMA PassExists ==
  ASSUME NEW str, Len(str) \in Nat
  PROVE  \E f : Pass(f, str) /\ Written(str) = f[Len(str)]
<1> DEFINE N == Len(str)
           Upto(f, n) == /\ DOMAIN f = 0..n
                         /\ f[0] = Now
                         /\ \A k \in 1..n : f[k] = WriteChar(f[k - 1], str, k)
           S == {n \in 0..N : \E f : Upto(f, n)}
<1>1. 0 \in S
  <2> DEFINE f == [k \in 0..0 |-> Now]
  <2>1. Upto(f, 0)
    OBVIOUS
  <2> HIDE DEF Upto, f
  <2> QED
    BY <2>1
<1>2. ASSUME NEW n \in 0..(N - 1), n \in S
      PROVE  n + 1 \in S
  <2>1. PICK f : Upto(f, n)
    BY <1>2
  <2> DEFINE g == [k \in 0..(n + 1) |-> IF k = n + 1 THEN WriteChar(f[n], str, k) ELSE f[k]]
  <2>2. n \in Nat /\ n + 1 \in 0..N /\ n + 1 # 0 /\ 0 \in 0..(n + 1)
    OBVIOUS
  <2>3. DOMAIN g = 0..(n + 1)
    OBVIOUS
  <2>4. g[0] = Now
    BY <2>1, <2>2
  <2>5. ASSUME NEW k \in 1..(n + 1)
        PROVE  g[k] = WriteChar(g[k - 1], str, k)
    <3>1. /\ k \in 0..(n + 1) /\ k - 1 \in 0..(n + 1) /\ k - 1 # n + 1
          /\ (k = n + 1 => k - 1 = n) /\ (k # n + 1 => k \in 1..n)
      BY <2>2
    <3>2. g[k - 1] = f[k - 1]
      BY <3>1
    <3>3. CASE k = n + 1
      <4>1. g[k] = WriteChar(f[n], str, k)
        BY <3>1, <3>3
      <4> HIDE DEF g
      <4> QED
        BY <3>1, <3>2, <3>3, <4>1
    <3>4. CASE k # n + 1
      <4>1. g[k] = f[k]
        BY <3>1, <3>4
      <4>2. f[k] = WriteChar(f[k - 1], str, k)
        BY <2>1, <3>1, <3>4
      <4> HIDE DEF g
      <4> QED
        BY <3>2, <4>1, <4>2
    <3> QED
      BY <3>3, <3>4
  <2> HIDE DEF g
  <2>6. Upto(g, n + 1)
    BY <2>3, <2>4, <2>5
  <2> HIDE DEF Upto
  <2> QED
    BY <2>2, <2>6
<1>3. N \in S
  <2> HIDE DEF S
  <2>1. 0..N \subseteq S
    BY <1>1, <1>2, Climb
  <2> QED
    BY <2>1
<1>4. PICK f : Upto(f, N)
  <2> HIDE DEF Upto
  <2> QED
    BY <1>3
<1> DEFINE Body(h) == [i \in 0..Len(str) |-> IF i = 0 THEN Now ELSE WriteChar(h[i - 1], str, i)]
           F == [i \in 0..N |-> f[i]]
<1>5. /\ DOMAIN F = 0..N /\ F[0] = Now
      /\ \A k \in 1..N : F[k] = WriteChar(F[k - 1], str, k)
  <2>1. \A k \in 1..N : k \in 0..N /\ k - 1 \in 0..N
    OBVIOUS
  <2>2. ASSUME NEW k \in 1..N
        PROVE  F[k] = WriteChar(F[k - 1], str, k)
    <3>1. F[k] = f[k] /\ F[k - 1] = f[k - 1]
      BY <2>1
    <3>2. f[k] = WriteChar(f[k - 1], str, k)
      BY <1>4
    <3> HIDE DEF F
    <3> QED
      BY <3>1, <3>2
  <2> QED
    BY <1>4, <2>2
<1>6. F = Body(F)
  <2> DEFINE B == Body(F)
  <2>1. DOMAIN B = 0..N
    OBVIOUS
  <2>2. ASSUME NEW k \in 0..N
        PROVE  F[k] = B[k]
    <3>1. B[k] = IF k = 0 THEN Now ELSE WriteChar(F[k - 1], str, k)
      OBVIOUS
    <3>2. k # 0 => k \in 1..N
      OBVIOUS
    <3> HIDE DEF F, B
    <3> QED
      BY <1>5, <3>1, <3>2
  <2>3. F = [i \in 0..N |-> F[i]] /\ B = [i \in 0..N |-> B[i]]
    OBVIOUS
  <2> HIDE DEF F, B, Body
  <2> QED
    BY <2>2, <2>3
<1> HIDE DEF F
<1> DEFINE C == CHOOSE h : h = Body(h)
<1>7. C = Body(C)
  <2> HIDE DEF Body
  <2> QED
    BY <1>6
<1>8. Written(str) = C[Len(str)]
  BY DEF Written
<1>9. Pass(C, str)
  <2> HIDE DEF C
  <2> QED
    BY <1>7 DEF Pass
<1> HIDE DEF C
<1> QED
  BY <1>8, <1>9

LEMMA PassStep ==
  ASSUME NEW str, Len(str) \in Nat, NEW f, Pass(f, str)
  PROVE  /\ f[0] = Now
         /\ \A i \in 0..(Len(str) - 1) : f[i + 1] = WriteChar(f[i], str, i + 1)
<1>1. f = [i \in 0..Len(str) |-> IF i = 0 THEN Now ELSE WriteChar(f[i - 1], str, i)]
  BY DEF Pass
<1>2. 0 \in 0..Len(str)
  OBVIOUS
<1>3. ASSUME NEW i \in 0..(Len(str) - 1)
      PROVE  f[i + 1] = WriteChar(f[i], str, i + 1)
  <2>1. i + 1 \in 0..Len(str) /\ i + 1 # 0 /\ (i + 1) - 1 = i
    OBVIOUS
  <2>2. f[i + 1] = WriteChar(f[(i + 1) - 1], str, i + 1)
    BY <1>1, <2>1
  <2> QED
    BY <2>1, <2>2
<1> QED
  BY <1>1, <1>2, <1>3

LEMMA NowIsPen ==
  ASSUME ScreenInv
  PROVE  Now \in Pens /\ (Tidy => Neat(Now))
<1>1. <<>> \in Seq(Places)
  OBVIOUS
<1> QED
  BY <1>1 DEF ScreenInv, Now, Pens, Neat, Tidy

\* The pen stays on the screen, and neat when nothing in the string goes back.
LEMMA PassKept ==
  ASSUME ScreenInv, NEW str, Len(str) \in Nat, NEW f, Pass(f, str)
  PROVE  /\ \A i \in 0..Len(str) : f[i] \in Pens
         /\ Tidy /\ (\A i \in 1..Len(str) : str[i] \notin {"return", "backspace"}) =>
              \A i \in 0..Len(str) : Neat(f[i])
<1> DEFINE N == Len(str)
           P == {i \in 0..N : f[i] \in Pens}
           Q == {i \in 0..N : f[i] \in Pens /\ Neat(f[i])}
<1>1. currentFont \in Fonts
  BY DEF ScreenInv
<1>2. f[0] = Now /\ \A i \in 0..(N - 1) : f[i + 1] = WriteChar(f[i], str, i + 1)
  BY PassStep
<1>3. \A i \in 0..(N - 1) : i \in 0..N /\ i + 1 \in 0..N /\ i + 1 \in 1..N
  OBVIOUS
<1>4. \A i \in 0..N : f[i] \in Pens
  <2>1. 0 \in P
    BY <1>2, NowIsPen
  <2>2. ASSUME NEW i \in 0..(N - 1), i \in P
        PROVE  i + 1 \in P
    <3>1. f[i + 1] = WriteChar(f[i], str, i + 1) /\ f[i] \in Pens
      BY <1>2, <2>2
    <3>2. f[i + 1] \in Pens
      BY <1>1, <3>1, WriteCharKept
    <3> QED
      BY <1>3, <3>2
  <2> HIDE DEF P
  <2>3. 0..N \subseteq P
    BY <2>1, <2>2, Climb
  <2> QED
    BY <2>3 DEF P
<1>5. ASSUME Tidy, \A i \in 1..N : str[i] \notin {"return", "backspace"}
      PROVE  \A i \in 0..N : Neat(f[i])
  <2>1. 0 \in Q
    BY <1>2, <1>5, NowIsPen
  <2>2. ASSUME NEW i \in 0..(N - 1), i \in Q
        PROVE  i + 1 \in Q
    <3>1. f[i + 1] = WriteChar(f[i], str, i + 1) /\ f[i] \in Pens /\ Neat(f[i])
      BY <1>2, <2>2
    <3>2. str[i + 1] \notin {"return", "backspace"}
      BY <1>3, <1>5
    <3>3. f[i + 1] \in Pens /\ Neat(f[i + 1])
      BY <1>1, <3>1, <3>2, WriteCharKept
    <3> QED
      BY <1>3, <3>3
  <2> HIDE DEF Q
  <2>3. 0..N \subseteq Q
    BY <2>1, <2>2, Climb
  <2> QED
    BY <2>3 DEF Q
<1> QED
  BY <1>4, <1>5

LEMMA StringFacts ==
  ASSUME NEW str \in Strings
  PROVE  Len(str) \in Nat /\ \A i \in 1..Len(str) : str[i] \in Characters
<1>1. str \in Seq(Characters)
  BY ScreenAssumption
<1> QED
  BY <1>1

LEMMA WrittenKept ==
  ASSUME ScreenInv, NEW str \in Strings
  PROVE  /\ Written(str) \in Pens
         /\ Tidy /\ str \in Forward => Neat(Written(str))
<1>1. Len(str) \in Nat
  BY StringFacts
<1>2. PICK f : Pass(f, str) /\ Written(str) = f[Len(str)]
  BY <1>1, PassExists
<1>3. Len(str) \in 0..Len(str)
  BY <1>1
<1> QED
  BY <1>1, <1>2, <1>3, PassKept DEF Forward

-----------------------------------------------------------------------------
(* The invariant. *)

LEMMA ScreenInitInv == ScreenInit => ScreenInv
<1> SUFFICES ASSUME ScreenInit
             PROVE  ScreenInv
  OBVIOUS
<1>1. currentFont \in Fonts
  BY ScreenAssumption DEF ScreenInit, Fonts
<1> QED
  BY <1>1, FontFacts, RowFacts DEF ScreenInit, ScreenInv

LEMMA WriteKeepsInv ==
  ASSUME ScreenInv, NEW str \in Strings, sys_write(str)
  PROVE  ScreenInv'
<1>1. PICK s \in Pens : s = Written(str)
  BY WrittenKept
<1>2. /\ x_coord' = s.x /\ y_coord' = s.y /\ glyphs' = s.shown
      /\ currentFont' = currentFont
  BY <1>1 DEF sys_write
<1>3. Rows' = Rows /\ Places' = Places
  BY <1>2 DEF Rows, Places, Height, Width, LineHeight
<1> QED
  BY <1>2, <1>3 DEF ScreenInv, Pens

LEMMA CornerOnScreen ==
  currentFont \in Fonts => 0 \in 0..(ScreenWidth + FONT_CHAR_GAP) /\ 0 \in Rows
  BY FontFacts, RowFacts

LEMMA ClearKeepsInv ==
  ASSUME currentFont' \in Fonts, clearScreen
  PROVE  ScreenInv'
<1> SUFFICES (0 \in 0..(ScreenWidth + FONT_CHAR_GAP) /\ 0 \in Rows)'
  BY DEF ScreenInv, clearScreen
<1>1. (currentFont \in Fonts => 0 \in 0..(ScreenWidth + FONT_CHAR_GAP) /\ 0 \in Rows)'
  BY CornerOnScreen, PTL
<1> QED
  BY <1>1

LEMMA ScreenNextInv == ScreenInv /\ [ScreenNext]_screenVars => ScreenInv'
<1> SUFFICES ASSUME ScreenInv, [ScreenNext]_screenVars
             PROVE  ScreenInv'
  OBVIOUS
<1>1. ASSUME NEW str \in Strings, sys_write(str)
      PROVE  ScreenInv'
  BY <1>1, WriteKeepsInv
<1>2. CASE Zoom
  <2>1. currentFont' \in Fonts
    <3>1. Len(Widths) \in Nat
      BY ScreenAssumption
    <3> QED
      BY <1>2, <3>1 DEF Zoom, ScreenInv, Fonts
  <2> QED
    BY <1>2, <2>1, ClearKeepsInv DEF Zoom
<1>3. CASE clearScreen /\ UNCHANGED currentFont
  BY <1>3, ClearKeepsInv DEF ScreenInv
<1>4. CASE UNCHANGED screenVars
  BY <1>4 DEF screenVars, ScreenInv, Rows, Places, Width, Height, LineHeight
<1> QED
  BY <1>1, <1>2, <1>3, <1>4 DEF ScreenNext

\* The line at the cursor that sys_write leaves is all inside the frame buffer,
\* the cursor at most a gap past its end, and so is every character shown,
\* whatever is written, with any tabs and backspaces, and however the text
\* scrolls and the font changes.
THEOREM CursorStaysOnScreen == ScreenSpec => []CursorOnScreen
<1>1. ScreenInv => CursorOnScreen
  <2> SUFFICES ASSUME ScreenInv
               PROVE  CursorOnScreen
    OBVIOUS
  <2>1. y_coord \in 0..(ScreenHeight - Height) /\ y_coord % LineHeight = 0
    BY RowFacts DEF ScreenInv
  <2>2. ASSUME NEW g \in glyphs
        PROVE  g[1] \in 0..(ScreenWidth - Width) /\ g[2] \in 0..(ScreenHeight - Height)
    <3>1. g \in Places
      BY DEF ScreenInv
    <3> QED
      BY <3>1, RowFacts DEF Places, ScreenInv
  <2> QED
    BY <2>1, <2>2 DEF ScreenInv, CursorOnScreen
<1> QED
  BY <1>1, ScreenInitInv, ScreenNextInv, PTL DEF ScreenSpec

\* A sys_write without backspaces and carriage returns writes no character over another one: on a
\* screen whose characters are all before the cursor it leaves them so, also
\* where it wraps, skips a tab or scrolls.
THEOREM TextIsNotOverwritten == ScreenSpec => NeverWritesOver
<1>1. ASSUME ScreenInv, Tidy, NEW str \in Forward, sys_write(str)
      PROVE  Tidy'
  <2>1. str \in Strings
    BY DEF Forward
  <2>2. PICK s : s = Written(str)
    OBVIOUS
  <2>3. Neat(s)
    BY <1>1, <2>1, <2>2, WrittenKept
  <2>4. /\ x_coord' = s.x /\ y_coord' = s.y /\ glyphs' = s.shown
        /\ Width' = Width /\ Height' = Height
    BY <1>1, <2>2 DEF sys_write, Width, Height
  <2> QED
    BY <2>3, <2>4 DEF Neat, Tidy, Apart
<1>2. ScreenInv => (Tidy => \A str \in Forward : sys_write(str) => Tidy')
  BY <1>1
<1> QED
  BY <1>2, ScreenInitInv, ScreenNextInv, PTL DEF ScreenSpec, NeverWritesOver

-----------------------------------------------------------------------------
(* Words. *)

\* The characters counted by WordLength are those from i on, none missing.
LEMMA WordLengthIs ==
  ASSUME NEW str, Len(str) \in Nat, NEW i \in 1..Len(str)
  PROVE  /\ WordLength(str, i) \in Nat
         /\ \A k \in 0..(WordLength(str, i) - 1) : i + k <= Len(str) /\ InWord(str[i + k])
         /\ InWord(str[i]) => WordLength(str, i) >= 1
<1> DEFINE N == Len(str)
           D == {j \in i..N : \A k \in i..j : InWord(str[k])}
           T == {j \in i..(N + 1) : j \notin D}
<1>1. N + 1 \in T /\ T \in SUBSET Nat
  OBVIOUS
<1>2. PICK e \in T : \A y \in T : e <= y
  <2> HIDE DEF T
  <2> QED
    BY <1>1, LeastNumber
<1>3. e \in Nat /\ i <= e /\ e <= N + 1 /\ i \in Nat /\ N \in Nat
  OBVIOUS
<1>4. D = i..(e - 1)
  <2>1. ASSUME NEW j \in D
        PROVE  j \in i..(e - 1)
    <3>1. j \in Nat /\ i <= j /\ j <= N /\ \A k \in i..j : InWord(str[k])
      OBVIOUS
    <3>2. e <= j => e \in D
      <4>1. HAVE e <= j
      <4>2. e \in i..N /\ i..e \subseteq i..j
        BY <1>3, <3>1, <4>1
      <4> QED
        BY <3>1, <4>2
    <3>3. e \notin D
      BY <1>2
    <3> QED
      BY <1>3, <3>1, <3>2, <3>3
  <2>2. ASSUME NEW j \in i..(e - 1)
        PROVE  j \in D
    <3>1. j \in i..(N + 1) /\ ~(e <= j)
      BY <1>3
    <3>2. j \notin T
      BY <1>2, <3>1
    <3> QED
      BY <3>1, <3>2
  <2> QED
    BY <2>1, <2>2
<1> HIDE DEF T
<1>5. Cardinality(D) = e - i
  <2>1. i \in Int /\ e - 1 \in Int
    BY <1>3
  <2>2. Cardinality(i..(e - 1)) = IF i > e - 1 THEN 0 ELSE (e - 1) - i + 1
    BY <2>1, FS_Interval
  <2> HIDE DEF D
  <2>3. CASE i > e - 1
    BY <1>3, <1>4, <2>2, <2>3
  <2>4. CASE ~(i > e - 1)
    BY <1>3, <1>4, <2>2, <2>4
  <2> QED
    BY <2>3, <2>4
<1>6. WordLength(str, i) = e - i
  BY <1>5 DEF WordLength
<1>7. ASSUME NEW k \in 0..(e - i - 1)
      PROVE  i + k <= N /\ InWord(str[i + k])
  <2>1. i + k \in i..(e - 1)
    BY <1>3
  <2>2. i + k \in D
    BY <1>4, <2>1
  <2> QED
    BY <2>2, <1>3
<1>8. ASSUME InWord(str[i])
      PROVE  e - i >= 1
  <2>1. i \in i..N /\ \A k \in i..i : k = i
    BY <1>3
  <2>2. i \in D
    BY <1>8, <2>1
  <2>3. i \in i..(e - 1)
    BY <1>4, <2>2
  <2> QED
    BY <1>3, <2>3
<1> QED
  BY <1>3, <1>6, <1>7, <1>8

\* A string without special characters places all its characters in turn.
LEMMA PlacesInTurn ==
  ASSUME ScreenInv, NEW str, Len(str) \in Nat, NEW f, Pass(f, str),
         \A i \in 1..Len(str) : str[i] \notin Special
  PROVE  \A i \in 0..Len(str) :
           /\ Len(f[i].placed) = i
           /\ \A j \in 1..i : Written(str) = f[Len(str)] => f[i].placed[j] = Written(str).placed[j]
<1> DEFINE N == Len(str)
<1>1. currentFont \in Fonts
  BY DEF ScreenInv
<1>2. \A i \in 0..N : f[i] \in Pens
  BY PassKept
<1>3. f[0] = Now /\ \A i \in 0..(N - 1) : f[i + 1] = WriteChar(f[i], str, i + 1)
  BY PassStep
<1>4. \A i \in 0..N : f[i].placed \in Seq(Places)
  BY <1>1, <1>2, PenFacts
<1>5. ASSUME NEW i \in 0..(N - 1)
      PROVE  \E p \in Places : f[i + 1].placed = Append(f[i].placed, p)
  <2>1. f[i] \in Pens /\ f[i + 1] = WriteChar(f[i], str, i + 1) /\ str[i + 1] \notin Special
    BY <1>2, <1>3
  <2>2. \E p \in Places : WriteChar(f[i], str, i + 1).placed = Append(f[i].placed, p)
    BY <1>1, <2>1, PlainChar
  <2> QED
    BY <2>1, <2>2
<1> DEFINE P == {i \in 0..N : Len(f[i].placed) = i}
<1>6. \A i \in 0..N : Len(f[i].placed) = i
  <2>1. 0 \in P
    BY <1>3 DEF Now
  <2>2. ASSUME NEW i \in 0..(N - 1), i \in P
        PROVE  i + 1 \in P
    <3>1. PICK p \in Places : f[i + 1].placed = Append(f[i].placed, p)
      BY <1>5
    <3>2. i \in 0..N /\ i + 1 \in 0..N /\ f[i].placed \in Seq(Places) /\ Len(f[i].placed) = i
      BY <1>4, <2>2
    <3>3. Len(f[i + 1].placed) = i + 1
      BY <3>1, <3>2
    <3> QED
      BY <3>2, <3>3
  <2> HIDE DEF P
  <2>3. 0..N \subseteq P
    BY <2>1, <2>2, Climb
  <2> QED
    BY <2>3 DEF P
<1>7. ASSUME NEW i \in 0..N, NEW j \in 1..i
      PROVE  f[i].placed[j] = f[N].placed[j]
  <2> DEFINE Q == {n \in i..N : f[n].placed[j] = f[i].placed[j]}
  <2>1. i \in Q
    OBVIOUS
  <2>2. ASSUME NEW n \in i..(N - 1), n \in Q
        PROVE  n + 1 \in Q
    <3>1. n \in 0..(N - 1) /\ n \in 0..N /\ n + 1 \in i..N /\ j \in 1..n
      OBVIOUS
    <3>2. PICK p \in Places : f[n + 1].placed = Append(f[n].placed, p)
      BY <1>5, <3>1
    <3>3. f[n].placed \in Seq(Places) /\ Len(f[n].placed) = n
      BY <1>4, <1>6, <3>1
    <3>4. f[n + 1].placed[j] = f[n].placed[j]
      BY <3>1, <3>2, <3>3
    <3> QED
      BY <2>2, <3>1, <3>4
  <2> HIDE DEF Q
  <2>3. i..N \subseteq Q
    <3>1. i \in Nat /\ N \in Nat
      OBVIOUS
    <3> HIDE DEF N
    <3> QED
      BY <2>1, <2>2, <3>1, Climb
  <2>4. N \in i..N
    OBVIOUS
  <2>5. N \in Q
    BY <2>3, <2>4
  <2> QED
    BY <2>5 DEF Q
<1> QED
  BY <1>6, <1>7

\* There is room for a cell in what is left of n of them.
LEMMA RoomForCell ==
  ASSUME NEW x \in Nat, NEW z \in Nat, NEW c \in Nat, NEW q \in Nat,
         NEW px \in Nat, NEW end \in Nat, px = z + c + q, x + px <= end
  PROVE  x + z + c <= end
  OBVIOUS

LEMMA RoomToDraw ==
  ASSUME NEW x \in Nat, NEW z \in Nat, NEW c \in Nat, NEW px \in Nat, NEW end \in Nat,
         px <= c, x + z + c <= end
  PROVE  (x + z) + px <= end
  OBVIOUS

\* The n characters from i on are placed side by side.
SideBySide(f, i, n) ==
  \E x \in Nat, y \in Nat :
    \A k \in 0..(n - 1) : f[i + k].placed[i + k] = <<x + k * CellWidth, y>>

\* A word of n cells that begins with character i, fits in a line.
LEMMA WordIsWhole ==
  ASSUME ScreenInv, NEW str, Len(str) \in Nat, NEW f, Pass(f, str),
         \A i \in 1..Len(str) : str[i] \notin Special,
         NEW i \in 1..Len(str), StartsWord(str, i),
         NEW n \in Nat, n = WordLength(str, i), n * CellWidth <= ScreenWidth
  PROVE  SideBySide(f, i, n)
<1> DEFINE N == Len(str)
           C == CellWidth
           w == WrapWord(f[i - 1], str, i)
<1>1. /\ currentFont \in Fonts
      /\ C \in Nat \ {0} /\ Width \in Nat \ {0} /\ Width <= C /\ ScreenWidth \in Nat
  BY FontFacts DEF ScreenInv
<1>2. /\ \A j \in 0..N : f[j] \in Pens
      /\ \A j \in 0..(N - 1) : f[j + 1] = WriteChar(f[j], str, j + 1)
  BY PassKept, PassStep
<1>3. \A j \in 0..N : Len(f[j].placed) = j
  BY PlacesInTurn
<1>4. /\ \A k \in 0..(n - 1) : i + k <= N /\ InWord(str[i + k])
      /\ n >= 1
  BY WordLengthIs DEF StartsWord
<1>5. w \in Pens /\ w.placed = f[i - 1].placed /\ f[i - 1] \in Pens
  <2>1. i - 1 \in 0..N
    OBVIOUS
  <2> QED
    BY <1>1, <1>2, <2>1, WrapWordKept
<1>6. PICK px \in Nat : px = n * C /\ px <= ScreenWidth
  <2>1. n * C \in Nat
    BY <1>1
  <2> QED
    BY <2>1
<1>7. w.x \in Nat /\ w.y \in Nat /\ w.x + px <= ScreenWidth
  <2>1. w.x \in Nat /\ w.y \in Nat
    BY <1>1, <1>5, PenFacts
  <2>2. CASE f[i - 1].x + px > ScreenWidth
    <3>1. w = NewLine(f[i - 1], 0)
      BY <1>6, <2>2 DEF WrapWord
    <3>2. 0 \in 0..(ScreenWidth + FONT_CHAR_GAP)
      BY <1>1, FontFacts
    <3>3. w.x = 0
      BY <1>1, <1>5, <3>1, <3>2, NewLineKept
    <3> QED
      BY <1>6, <2>1, <3>3
  <2>3. CASE ~(f[i - 1].x + px > ScreenWidth)
    <3>1. w = f[i - 1]
      BY <1>6, <2>3 DEF WrapWord
    <3> QED
      BY <1>1, <1>6, <2>1, <2>3, <3>1
  <2> QED
    BY <2>2, <2>3
<1> HIDE DEF w
<1>8. ASSUME NEW k \in 0..(n - 1)
      PROVE  \E z \in Nat : /\ z = k * C /\ (k + 1) * C = z + C
                            /\ w.x + z + C <= ScreenWidth
  <2>1. PICK r \in Nat : n = k + 1 + r
    <3>1. n - k - 1 \in Nat /\ n = k + 1 + (n - k - 1)
      OBVIOUS
    <3> QED
      BY <3>1
  <2>2. k * C \in Nat /\ r * C \in Nat /\ (k + 1) * C = k * C + C
    <3>1. k \in Nat /\ C \in Nat
      BY <1>1
    <3> HIDE DEF C
    <3> QED
      BY <3>1
  <2>3. px = k * C + C + r * C
    <3>1. k \in Nat /\ C \in Nat
      BY <1>1
    <3> HIDE DEF C
    <3>2. (k + 1 + r) * C = k * C + C + r * C
      BY <3>1
    <3> QED
      BY <1>6, <2>1, <3>2
  <2>4. PICK z \in Nat, q \in Nat : z = k * C /\ q = r * C
    BY <2>2
  <2>5. w.x + z + C <= ScreenWidth
    <3>1. px = z + C + q
      BY <2>3, <2>4
    <3> QED
      <4> HIDE DEF C
      <4> QED
        BY <1>1, <1>6, <1>7, <2>4, <3>1, RoomForCell
  <2> QED
    BY <2>2, <2>4, <2>5
<1> DEFINE At(k) == /\ f[i + k].x = w.x + k * C + C
                    /\ f[i + k].y = w.y
                    /\ f[i + k].placed[i + k] = <<w.x + k * C, w.y>>
           P == {k \in 0..(n - 1) : At(k)}
\* Drawing in the word: there is room, so the pen moves one cell.
<1>9. ASSUME NEW k \in 0..(n - 1), NEW s \in Pens, s.x = w.x + k * C, s.y = w.y,
             Len(s.placed) = i + k - 1, f[i + k] = PutChar(s, str[i + k])
      PROVE  At(k)
  <2>1. PICK z \in Nat : z = k * C /\ w.x + z + C <= ScreenWidth
    BY <1>8
  <2>2. s.x + Width <= ScreenWidth /\ s.placed \in Seq(Places)
    <3>1. s.x = w.x + z
      BY <1>9, <2>1
    <3>2. s.placed \in Seq(Places)
      BY <1>1, <1>9, PenFacts
    <3> QED
      <4>1. (w.x + z) + Width <= ScreenWidth
        <5> HIDE DEF C
        <5> QED
          BY <1>1, <1>7, <2>1, RoomToDraw
      <4> QED
        BY <3>1, <3>2, <4>1
  <2>3. /\ f[i + k].x = s.x + C /\ f[i + k].y = s.y
        /\ f[i + k].placed = Append(s.placed, <<s.x, s.y>>)
    <3>1. s \in Pens
      BY <1>9
    <3> DEFINE t == PutChar(s, str[i + k])
    <3>2. t.x = s.x + CellWidth /\ t.y = s.y /\ t.placed = Append(s.placed, <<s.x, s.y>>)
      BY <1>1, <2>2, <3>1, DrawKept
    <3> HIDE DEF t
    <3>3. f[i + k] = t
      BY <1>9 DEF t
    <3> QED
      BY <3>2, <3>3
  <2>4. f[i + k].placed[i + k] = <<s.x, s.y>>
    <3>1. i + k = Len(s.placed) + 1
      BY <1>9
    <3> QED
      BY <2>2, <2>3, <3>1
  <2> QED
    BY <1>9, <2>3, <2>4
<1>10. 0 \in P
  <2>1. /\ 0 \in 0..(n - 1) /\ i - 1 \in 0..(N - 1) /\ i - 1 \in 0..N
        /\ (i - 1) + 1 = i /\ i + 0 = i /\ i + 0 - 1 = i - 1
    BY <1>4
  <2>2. f[i] = WriteChar(f[i - 1], str, i) /\ str[i] \notin Special
    BY <1>2, <2>1
  <2>3. f[i] = PutChar(w, str[i])
    BY <1>1, <1>5, <2>2, PlainChar DEF w
  <2>4. 0 * C = 0
    BY <1>1
  <2>5. w.x = w.x + 0 * C
    BY <1>7, <2>4
  <2>6. Len(w.placed) = i - 1
    BY <1>3, <1>5, <2>1
  <2> HIDE DEF At, w
  <2>7. At(0)
    BY <1>5, <1>9, <2>1, <2>3, <2>5, <2>6
  <2> QED
    BY <2>1, <2>7
<1>11. ASSUME NEW k \in 0..((n - 1) - 1), k \in P
       PROVE  k + 1 \in P
  <2>1. /\ k \in 0..(n - 1) /\ k + 1 \in 0..(n - 1) /\ i + (k + 1) = (i + k) + 1
        /\ (i + (k + 1)) - 1 = i + k
    BY <1>4
  <2>2. i + k + 1 <= N /\ InWord(str[i + k]) /\ InWord(str[i + (k + 1)])
    BY <1>4, <2>1
  <2>3. i + k \in 0..(N - 1) /\ i + k \in 0..N /\ i + (k + 1) \in 1..N /\ i + (k + 1) # 1
    BY <2>1, <2>2
  <2>4. f[i + (k + 1)] = WriteChar(f[i + k], str, i + (k + 1)) /\ f[i + k] \in Pens
    BY <1>2, <2>1, <2>3
  <2>5. f[i + (k + 1)] = PutChar(WrapWord(f[i + k], str, i + (k + 1)), str[i + (k + 1)])
    BY <1>1, <2>3, <2>4, PlainChar
  <2>6. ~StartsWord(str, i + (k + 1))
    BY <2>1, <2>2, <2>3 DEF StartsWord, InWord
  <2>7. f[i + (k + 1)] = PutChar(f[i + k], str[i + (k + 1)])
    BY <2>5, <2>6 DEF WrapWord
  <2>8. (k + 1) * C = k * C + C /\ k * C \in Nat
    BY <1>1, <2>1
  <2>9. f[i + k].x = w.x + (k + 1) * C /\ f[i + k].y = w.y
    <3>1. f[i + k].x = w.x + k * C + C /\ f[i + k].y = w.y
      BY <1>11
    <3>2. PICK z \in Nat : z = k * C /\ (k + 1) * C = z + C
      BY <2>8
    <3>3. w.x + z + C = w.x + (z + C)
      BY <1>1, <1>7
    <3> QED
      BY <3>1, <3>2, <3>3
  <2>10. Len(f[i + k].placed) = i + (k + 1) - 1
    BY <1>3, <2>1, <2>3
  <2> HIDE DEF At, w
  <2>11. At(k + 1)
    BY <1>9, <2>1, <2>4, <2>7, <2>9, <2>10
  <2> QED
    BY <2>1, <2>11
<1>12. 0..(n - 1) \subseteq P
  <2> HIDE DEF P
  <2>1. n - 1 \in Nat /\ 0 \in Nat
    BY <1>4
  <2> QED
    BY <1>10, <1>11, <2>1, Climb
<1>13. \A k \in 0..(n - 1) : f[i + k].placed[i + k] = <<w.x + k * C, w.y>>
  BY <1>12
<1> QED
  BY <1>7, <1>13 DEF SideBySide

\* A word that fits in a line is not cut by the end of the line: sys_write
\* puts its characters side by side on one row, as its comments say, for every
\* font, width of the screen and gap.
THEOREM WordsAreWhole == ScreenSpec => []WordsStayWhole
<1>1. ASSUME ScreenInv
      PROVE  WordsStayWhole
  <2> SUFFICES ASSUME NEW str \in Strings, \A i \in 1..Len(str) : str[i] \notin Special,
                      NEW i \in 1..Len(str), StartsWord(str, i),
                      WordLength(str, i) * CellWidth <= ScreenWidth,
                      NEW k \in 1..(WordLength(str, i) - 1)
               PROVE  Written(str).placed[i + k] =
                        <<Written(str).placed[i][1] + k * CellWidth,
                          Written(str).placed[i][2]>>
    BY DEF WordsStayWhole
  <2>1. Len(str) \in Nat
    BY StringFacts
  <2>2. PICK f : Pass(f, str) /\ Written(str) = f[Len(str)]
    BY <2>1, PassExists
  <2>3. PICK n \in Nat : n = WordLength(str, i)
    BY <2>1, WordLengthIs
  <2>11. n * CellWidth <= ScreenWidth
    BY <2>3
  <2>4. PICK x \in Nat, y \in Nat :
          \A l \in 0..(n - 1) : f[i + l].placed[i + l] = <<x + l * CellWidth, y>>
    <3>1. SideBySide(f, i, n)
      BY <1>1, <2>1, <2>2, <2>3, <2>11, WordIsWhole
    <3> QED
      BY <3>1 DEF SideBySide
  <2>5. \A l \in 0..(n - 1) : i + l \in 1..Len(str)
    BY <2>1, <2>3, WordLengthIs
  <2>6. \A l \in 0..(n - 1) : Written(str).placed[i + l] = <<x + l * CellWidth, y>>
    <3> TAKE l \in 0..(n - 1)
    <3>1. i + l \in 0..Len(str) /\ i + l \in 1..(i + l)
      BY <2>5
    <3>2. f[i + l].placed[i + l] = Written(str).placed[i + l]
      BY <1>1, <2>1, <2>2, <3>1, PlacesInTurn
    <3> QED
      BY <2>4, <3>2
  <2>7. 0 \in 0..(n - 1) /\ k \in 0..(n - 1) /\ i + 0 = i
    BY <2>3
  <2>8. CellWidth \in Nat /\ x + 0 * CellWidth = x
    <3>1. CellWidth \in Nat
      BY <1>1, FontFacts DEF ScreenInv
    <3> QED
      BY <3>1
  <2>9. Written(str).placed[i] = <<x, y>>
    BY <2>6, <2>7, <2>8
  <2>10. Written(str).placed[i + k] = <<x + k * CellWidth, y>>
    BY <2>6, <2>7
  <2> QED
    BY <2>9, <2>10
<1> QED
  BY <1>1, ScreenInitInv, ScreenNextInv, PTL DEF ScreenSpec

=============================================================================
