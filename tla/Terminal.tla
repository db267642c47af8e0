------------------------------ MODULE Terminal -------------------------------
(***************************************************************************)
(* The keyboard (Kernel/keyboardDriver.c), sys_read of Kernel/syscalls.c   *)
(* and the foreground and background jobs of the shell (Terminal/shell.c)  *)
(* over the scheduler.  The shell is the first process.                    *)
(*                                                                         *)
(* IRQ1 interrupts whoever runs.  sys_read sleeps inside the kernel until  *)
(* a key arrives; a reader that is dispatched again looks at the keyboard  *)
(* before anything else can happen, since its interrupts are still off.    *)
(***************************************************************************)
EXTENDS Scheduler, Sequences

CONSTANTS
  KEYBOARD_BUFFER_SIZE,  \* 256 in the code
  BUFFER,                \* characters of a line of the shell
  Keys,                  \* the keys the user presses
  Letters,               \* those that caps lock acts on
  Victims,               \* the pids programs kill
  BgReads,               \* may a program that is not the job read the keyboard?
  BgCreates              \* may a program that is not the job create processes?

Shell == 2
Printable == Keys \ {"enter", "backspace"}
Modifiers == {"lshift", "rshift", "caps", "ctrl", "alt"}

ASSUME TerminalAssumption ==
  /\ KEYBOARD_BUFFER_SIZE \in Nat \ {0} /\ BUFFER \in Nat \ {0}
  /\ Letters \subseteq Keys
  /\ Victims \subseteq Pids \ {1, Shell}
  /\ BgReads \in BOOLEAN /\ BgCreates \in BOOLEAN

VARIABLES
  modifiers,        \* the fields of kbd_modifier_state that are 1
  keyboard_buffer,  \* the characters of the ring, oldest first
  kbd_waiting_pid,  \* the process loadCharToBuffer wakes, 0 for none
  fg_pid,           \* the process Ctrl+C kills, 0 for none
  reading,          \* is the process inside sys_read?
  shell_pc,         \* the statement the shell is at
  typed,            \* limit, in readInput
  job,              \* pid, in run_as_process_fg
  kind              \* how the process came to be: "shell", "job" or "other"

kbdVars == <<modifiers, keyboard_buffer, kbd_waiting_pid, fg_pid>>
shellVars == <<shell_pc, typed, job>>
termVars == <<vars, kbdVars, reading, shellVars, kind>>

TermInit ==
  /\ Init
  /\ modifiers = {}
  /\ keyboard_buffer = <<>>
  /\ kbd_waiting_pid = 0
  /\ fg_pid = 0
  /\ reading = [p \in Pids |-> FALSE]
  /\ shell_pc = "read"
  /\ typed = 0
  /\ job = 0
  /\ kind = [p \in Pids |-> IF p = Shell THEN "shell" ELSE "other"]

\* The current process was dispatched inside sys_read.
InRead == current_process # 0 /\ reading[current_process]

InProgram == ProgramRuns /\ ~InRead

\* A slot that is reaped belongs to nobody.
KeepSlots ==
  /\ reading' = [p \in Pids |-> state'[p] # "NONE" /\ reading[p]]
  /\ kind' = [p \in Pids |-> IF state'[p] = "NONE" THEN "other" ELSE kind[p]]

-----------------------------------------------------------------------------
(* IRQ1 *)

ModifiersAfter(k, press) ==
  IF k = "caps"
    THEN IF ~press THEN modifiers
         ELSE IF k \in modifiers THEN modifiers \ {k} ELSE modifiers \union {k}
  ELSE IF k \in Modifiers
    THEN IF press THEN modifiers \union {k} ELSE modifiers \ {k}
  ELSE modifiers

\* The two maps of the driver: a key gives one character, or another with
\* shift; caps lock turns that around for letters.
Shifted(k) ==
  LET shift == modifiers \intersect {"lshift", "rshift"} # {}
  IN  IF k \in Letters /\ "caps" \in modifiers THEN ~shift ELSE shift

\* What the driver sends for Ctrl+C and Ctrl+D, instead of the letter.
CTRL_C == <<"etx", FALSE>>
CTRL_D == <<"eot", FALSE>>

\* Mutant: the character is stored and the reader is not woken.
LoadQuietly(c) ==
  /\ Len(keyboard_buffer) < KEYBOARD_BUFFER_SIZE
  /\ keyboard_buffer' = Append(keyboard_buffer, c)
  /\ ReturnToCaller(state, waiting_for_pid)
  /\ UNCHANGED <<kbd_waiting_pid, fg_pid>>

\* A full ring drops the character and wakes nobody.
loadCharToBuffer(c) ==
  /\ \/ /\ Len(keyboard_buffer) < KEYBOARD_BUFFER_SIZE
        /\ keyboard_buffer' = Append(keyboard_buffer, c)
        /\ kbd_waiting_pid' = 0
        /\ ReturnToCaller(unblock_process(state, {kbd_waiting_pid}), waiting_for_pid)
     \/ /\ Len(keyboard_buffer) = KEYBOARD_BUFFER_SIZE
        /\ ReturnToCaller(state, waiting_for_pid)
        /\ UNCHANGED <<keyboard_buffer, kbd_waiting_pid>>
  /\ UNCHANGED fg_pid

ForegroundExists == fg_pid # 0 /\ state[fg_pid] # "NONE"

\* Mutant: the process dies and those that wait for it are not told.
CtrlCKillsOnly ==
  /\ ForegroundExists
  /\ fg_pid' = 0
  /\ schedule_tick([state EXCEPT ![fg_pid] = "KILLED"], waiting_for_pid)
  /\ UNCHANGED <<keyboard_buffer, kbd_waiting_pid>>

\* Ctrl+C with a foreground process: it dies inside the handler.
CtrlCKills ==
  /\ ForegroundExists
  /\ fg_pid' = 0
  /\ schedule_tick(exit_process(state, fg_pid), StopWaiting(fg_pid))
  /\ UNCHANGED <<keyboard_buffer, kbd_waiting_pid>>

\* A key that gives no character, and Ctrl+R, which keeps the registers.
NoChar(k, press) ==
  k \in Modifiers \/ ~press \/ ("ctrl" \in modifiers /\ k = "r")

keyboard_handler(k, press) ==
  /\ current_process # 0 /\ ~InRead
  /\ modifiers' = ModifiersAfter(k, press)
  /\ \/ /\ NoChar(k, press)
        /\ ReturnToCaller(state, waiting_for_pid)
        /\ UNCHANGED <<keyboard_buffer, kbd_waiting_pid, fg_pid>>
     \/ /\ ~NoChar(k, press) /\ "ctrl" \in modifiers /\ k = "c"
        /\ CtrlCKills \/ (~ForegroundExists /\ loadCharToBuffer(CTRL_C))
     \/ /\ ~NoChar(k, press) /\ "ctrl" \in modifiers /\ k = "d"
        /\ loadCharToBuffer(CTRL_D)
     \/ /\ ~NoChar(k, press) /\ ("ctrl" \in modifiers => k \notin {"c", "d"})
        /\ loadCharToBuffer(<<k, Shifted(k)>>)
  /\ KeepSlots
  /\ UNCHANGED shellVars

KeyPress ==
  \E k \in Keys, press \in BOOLEAN : keyboard_handler(k, press)

-----------------------------------------------------------------------------
(* sys_read of one character; Then says what the caller does with it *)

ReadSleeps ==
  /\ keyboard_buffer = <<>>
  /\ kbd_waiting_pid' = current_process
  /\ schedule_tick(block_process(state, current_process), waiting_for_pid)
  /\ reading' = [p \in Pids |-> p = current_process
                                \/ (state'[p] # "NONE" /\ reading[p])]
  /\ kind' = [p \in Pids |-> IF state'[p] = "NONE" THEN "other" ELSE kind[p]]
  /\ UNCHANGED <<modifiers, keyboard_buffer, fg_pid, shellVars>>

ReadTakes ==
  /\ keyboard_buffer # <<>>
  /\ keyboard_buffer' = Tail(keyboard_buffer)
  /\ ReturnToCaller(state, waiting_for_pid)
  /\ reading' = [reading EXCEPT ![current_process] = FALSE]
  /\ UNCHANGED <<modifiers, kbd_waiting_pid, fg_pid, kind>>

\* readInput on the character it got.  A backspace moves back in the line and
\* leaves `limit' as it is.
readInput(c) ==
  /\ \/ c = CTRL_C /\ shell_pc' = "read" /\ typed' = 0
     \/ c = CTRL_D /\ shell_pc' = "exit" /\ typed' = 0
     \/ c[1] = "backspace" /\ UNCHANGED <<shell_pc, typed>>
     \/ /\ c[1] = "enter" \/ (typed = BUFFER /\ c[1] \in Printable)
        /\ shell_pc' = "execute" /\ typed' = 0
     \/ /\ c[1] \in Printable /\ typed < BUFFER
        /\ typed' = typed + 1 /\ UNCHANGED shell_pc
  /\ UNCHANGED job

ReadStep ==
  \/ ReadSleeps
  \/ /\ ReadTakes
     /\ \/ current_process = Shell /\ readInput(Head(keyboard_buffer))
        \/ current_process # Shell /\ UNCHANGED shellVars

\* A reader that was woken finds a character, or sleeps again.
ReadResumes == InRead /\ ReadStep

-----------------------------------------------------------------------------
(* The shell *)

ShellAt(pc) == InProgram /\ current_process = Shell /\ shell_pc = pc
ShellGoes(pc) == shell_pc' = pc /\ UNCHANGED typed

ShellReads == ShellAt("read") /\ ReadStep

CreateKind(new, k) ==
  /\ CreateIn(new)
  /\ reading' = [p \in Pids |-> p # new /\ state'[p] # "NONE" /\ reading[p]]
  /\ kind' = [p \in Pids |-> IF p = new THEN k
                             ELSE IF state'[p] = "NONE" THEN "other" ELSE kind[p]]

Creates(k, new) ==
  /\ CreateKind(new, k)
  /\ idle_pcb' = ReapedIdle(state)
  /\ UNCHANGED <<current_process, last_run_index, kbdVars>>

CreatesNothing ==
  /\ CreateFails /\ KeepSlots
  /\ idle_pcb' = ReapedIdle(state)
  /\ UNCHANGED <<current_process, last_run_index, kbdVars>>

\* An empty line, a command that is not found or one that runs in the shell.
ShellRunsBuiltin ==
  /\ ShellAt("execute") /\ ShellGoes("read")
  /\ ReturnToCaller(state, waiting_for_pid)
  /\ UNCHANGED <<kbdVars, reading, kind, job>>

\* The exit command.
ShellRunsExit ==
  /\ ShellAt("execute") /\ ShellGoes("exit")
  /\ ReturnToCaller(state, waiting_for_pid)
  /\ UNCHANGED <<kbdVars, reading, kind, job>>

\* run_as_process_fg: create, set_fg_pid, waitpid, set_fg_pid(0).
ShellRunsJob ==
  /\ ShellAt("execute")
  /\ \/ \E new \in Pids : Creates("job", new) /\ job' = new /\ ShellGoes("set_fg")
     \/ CreatesNothing /\ UNCHANGED job /\ ShellGoes("read")

ShellSetsFg ==
  /\ ShellAt("set_fg") /\ ShellGoes("wait")
  /\ fg_pid' = job
  /\ ReturnToCaller(state, waiting_for_pid)
  /\ UNCHANGED <<modifiers, keyboard_buffer, kbd_waiting_pid, reading, kind, job>>

ShellWaits ==
  /\ ShellAt("wait") /\ ShellGoes("clear_fg")
  /\ \/ SysWaitpid(job)
     \/ state[job] \in {"NONE", "KILLED"} /\ ReturnToCaller(state, waiting_for_pid)
  /\ KeepSlots
  /\ UNCHANGED <<kbdVars, job>>

\* Mutant: the foreground is left to the next job.
ShellKeepsFg ==
  /\ ShellAt("clear_fg") /\ ShellGoes("read")
  /\ job' = 0
  /\ ReturnToCaller(state, waiting_for_pid)
  /\ UNCHANGED <<kbdVars, reading, kind>>

ShellClearsFg ==
  /\ ShellAt("clear_fg") /\ ShellGoes("read")
  /\ fg_pid' = 0
  /\ job' = 0
  /\ ReturnToCaller(state, waiting_for_pid)
  /\ UNCHANGED <<modifiers, keyboard_buffer, kbd_waiting_pid, reading, kind>>

\* run_as_process_bg
ShellRunsInBackground ==
  /\ ShellAt("execute") /\ ShellGoes("read")
  /\ CreatesNothing \/ \E new \in Pids : Creates("other", new)
  /\ UNCHANGED job

ShellExits ==
  /\ ShellAt("exit") /\ SysExit /\ KeepSlots
  /\ UNCHANGED <<kbdVars, shellVars>>

ShellStep ==
  \/ ShellReads \/ ShellRunsBuiltin \/ ShellRunsExit
  \/ ShellRunsJob \/ ShellSetsFg \/ ShellWaits \/ ShellClearsFg
  \/ ShellRunsInBackground \/ ShellExits

-----------------------------------------------------------------------------
(* The other programs and the kernel *)

IsJob == kind[current_process] = "job"

CommandStep ==
  /\ InProgram /\ current_process # Shell
  /\ \/ (IsJob \/ BgReads) /\ ReadStep
     \/ /\ IsJob \/ BgCreates
        /\ CreatesNothing \/ \E new \in Pids : Creates("other", new)
        /\ UNCHANGED shellVars
     \/ SysExit /\ KeepSlots /\ UNCHANGED <<kbdVars, shellVars>>
     \/ /\ \E p \in Victims : SysKill(p)
        /\ KeepSlots /\ UNCHANGED <<kbdVars, shellVars>>

TermTimer == ~InRead /\ TimerTick /\ KeepSlots /\ UNCHANGED <<kbdVars, shellVars>>

KernelStep == TermTimer \/ ReadResumes

TermNext == KeyPress \/ ShellStep \/ CommandStep \/ KernelStep

TermSpec == TermInit /\ [][TermNext]_termVars

\* The timer interrupts for ever and a reader goes on when it is dispatched; the
\* shell, dispatched again and again, gets to its next system call.
FairTermSpec ==
  TermSpec /\ WF_termVars(KernelStep) /\ SF_termVars(ShellStep)

-----------------------------------------------------------------------------
(* Properties *)

AsleepReading(p) == reading[p] /\ state[p] = "BLOCKED"

TermTypeOK ==
  /\ TypeOK
  /\ modifiers \subseteq Modifiers
  /\ keyboard_buffer \in Seq((Keys \union {"etx", "eot"}) \X BOOLEAN)
  /\ Len(keyboard_buffer) <= KEYBOARD_BUFFER_SIZE
  /\ kbd_waiting_pid \in 0..MAX_PROCESSES
  /\ fg_pid \in 0..MAX_PROCESSES
  /\ reading \in [Pids -> BOOLEAN]
  /\ shell_pc \in {"read", "execute", "set_fg", "wait", "clear_fg", "exit"}
  /\ typed \in 0..BUFFER
  /\ job \in 0..MAX_PROCESSES
  /\ kind \in [Pids -> {"shell", "job", "other"}]

\* Nobody sleeps at the keyboard beside a character, and whoever sleeps there is
\* the one the next character wakes: kbd_waiting_pid is a single slot, written by
\* each reader over the one before.
SleepingReaderIsHeard ==
  \A p \in Pids : AsleepReading(p) =>
    kbd_waiting_pid = p /\ keyboard_buffer = <<>>

\* While the shell is at its prompt there is no foreground process, so Ctrl+C
\* there cancels the line and kills nobody.
PromptHasNoForeground ==
  state[Shell] # "NONE" /\ shell_pc \in {"read", "execute", "exit"} => fg_pid = 0

\* A process dies at the keyboard only if it is the job the shell runs in the
\* foreground (README: Ctrl+C "Mata al proceso en foreground").
CtrlCKillsTheJob ==
  [][KeyPress => \A p \in Pids :
       state[p] \notin {"NONE", "KILLED"} /\ state'[p] \in {"NONE", "KILLED"}
         => kind[p] = "job"]_termVars

\* However the job ends (by itself, killed, or by Ctrl+C at any point of
\* run_as_process_fg), the shell gets back to its prompt.
PromptReturns ==
  job # 0 /\ state[job] \in {"NONE", "KILLED"} ~> shell_pc = "read"

=============================================================================
