------------------------------ MODULE Pipeline -------------------------------
(***************************************************************************)
(* `left | right' typed at the shell (Terminal/shell.c): the shell, which  *)
(* is the first process, opens a pipe, creates the two commands with it as *)
(* output and input, waits for both and closes it.  The commands read,     *)
(* write, die, kill, create, block, unblock, yield, wait and nice as they  *)
(* like (cat, wc and filter of Terminal/cmd_ipc.c and block and nice of    *)
(* Terminal/cmd_proc.c among them), and the timer interleaves everything.  *)
(***************************************************************************)
EXTENDS Pipes

CONSTANTS
  Modes,      \* the ways pipelines are launched: "fg", and "bg" with a final &
  Counts,     \* the n programs pass to reads and writes
  KillsIn,    \* pids that programs kill (not idle nor the shell)
  SharesIds   \* may programs use by its id a pipe they are not an end of, as
              \* the two of test_pipe do?

Shell == 2

ASSUME PipelineAssumption ==
  /\ Modes \subseteq {"fg", "bg"}
  /\ Counts \subseteq Nat \ {0}
  /\ KillsIn \subseteq Pids \ {1, Shell}
  /\ SharesIds \in BOOLEAN

VARIABLES
  shell_pc,  \* the statement of execute_line the shell is at
  job,       \* its locals: pipe_id, pid_l, pid_r, is_bg
  fg_pid     \* the process Ctrl+C kills, 0 for none

lineVars == <<allPipeVars, shell_pc, job, fg_pid>>

NoJob == [pipe |-> 0, l |-> 0, r |-> 0, mode |-> "fg"]

LineInit ==
  /\ PipeInit
  /\ shell_pc = "prompt"
  /\ job = NoJob
  /\ fg_pid = 0

ShellAt(pc) == InProgram /\ current_process = Shell /\ shell_pc = pc
ShellGoes(pc) == shell_pc' = pc

\* sys_alloc_pipe; on failure the line is given up and nothing has changed.
ShellAllocates ==
  /\ ShellAt("prompt")
  /\ \E id \in Ids, m \in Modes :
       AllocPipe(id) /\ job' = [NoJob EXCEPT !.pipe = id, !.mode = m]
  /\ ShellGoes("left")
  /\ UNCHANGED fg_pid

ShellCreatesLeft ==
  /\ ShellAt("left")
  /\ \/ \E new \in Pids : /\ PipeCreateProcess(0, job.pipe, new)
                          /\ job' = [job EXCEPT !.l = new]
                          /\ ShellGoes("right")
     \/ PipeCreateFails /\ UNCHANGED job /\ ShellGoes("close")
  /\ UNCHANGED fg_pid

\* Mutant: the shell forgets the pid of the second command.
RightThenClose ==
  /\ ShellAt("right")
  /\ \E new \in Pids : /\ PipeCreateProcess(job.pipe, 0, new)
                       /\ job' = [job EXCEPT !.r = 0]
                       /\ ShellGoes("fg_left")
  /\ UNCHANGED fg_pid

AfterRight == IF job.mode = "bg" THEN "close" ELSE "fg_left"

\* When the second command cannot be created the shell goes on without it.
ShellCreatesRight ==
  /\ ShellAt("right")
  /\ \/ \E new \in Pids : /\ PipeCreateProcess(job.pipe, 0, new)
                          /\ job' = [job EXCEPT !.r = new]
     \/ PipeCreateFails /\ UNCHANGED job
  /\ ShellGoes(AfterRight)
  /\ UNCHANGED fg_pid

\* set_fg_pid; it is skipped for a command that was not created.
ShellSetsFg(p) ==
  /\ fg_pid' = p
  /\ ReturnToCaller(state, waiting_for_pid)
  /\ KeepPcbs(call)
  /\ UNCHANGED <<pipeVars, job>>

\* waitpid, with its early returns; there is nothing to wait for when p = 0.
ShellWaits(p) ==
  /\ \/ p # 0 /\ SysWaitpid(p)
     \/ /\ p # 0 => state[p] \in {"NONE", "KILLED"}
        /\ ReturnToCaller(state, waiting_for_pid)
  /\ KeepPcbs(call)
  /\ UNCHANGED <<pipeVars, job, fg_pid>>

ShellWaitsLeft ==
  \/ ShellAt("fg_left") /\ ShellSetsFg(job.l) /\ ShellGoes("wait_left")
  \/ ShellAt("wait_left") /\ ShellWaits(job.l) /\ ShellGoes("fg_right")

ShellWaitsRight ==
  \/ /\ ShellAt("fg_right") /\ ShellGoes("wait_right")
     /\ ShellSetsFg(IF job.r = 0 THEN fg_pid ELSE job.r)
  \/ ShellAt("wait_right") /\ ShellWaits(job.r) /\ ShellGoes("fg_none")

ShellClearsFg == ShellAt("fg_none") /\ ShellSetsFg(0) /\ ShellGoes("close")

ShellCloses ==
  /\ ShellAt("close")
  /\ ClosePipeId(job.pipe)
  /\ job' = NoJob
  /\ ShellGoes("prompt")
  /\ UNCHANGED fg_pid

ShellStep ==
  \/ ShellAllocates \/ ShellCreatesLeft \/ ShellCreatesRight
  \/ ShellWaitsLeft \/ ShellWaitsRight \/ ShellClearsFg \/ ShellCloses

\* A program other than the shell, and the pipes it may use by their id.
OtherProgram == InProgram /\ current_process # Shell
KnowsId(id) ==
  \/ pipe_table[id] \in {pipe_in[current_process], pipe_out[current_process]}
  \/ SharesIds

CommandStep ==
  /\ OtherProgram
  /\ \/ \E n \in Counts : SysRead(n) \/ SysWrite(n)
     \/ \E id \in Ids, n \in Counts :
          KnowsId(id) /\ (PipeReadId(id, n) \/ PipeWriteId(id, n))
     \/ PipeExit
     \/ \E p \in KillsIn : PipeKill(p)
     \/ \E new \in Pids : PipeCreateProcess(0, 0, new)
     \/ \E p \in BlockTargets : PipeBlock(p)
     \/ PipeCall
  /\ UNCHANGED <<shell_pc, job, fg_pid>>

\* Ctrl+C, whoever it interrupts (keyboard_handler).
CtrlC ==
  /\ current_process # 0 /\ ~InCall
  /\ fg_pid # 0 /\ state[fg_pid] # "NONE"
  /\ pipe_close(EndsOf(fg_pid))
  /\ schedule_tick(
       exit_process(unblock_process(state, AsleepOn(EndsOf(fg_pid))), fg_pid),
       StopWaiting(fg_pid))
  /\ KeepPcbs(call)
  /\ fg_pid' = 0
  /\ UNCHANGED <<pipe_table, shell_pc, job>>

KernelStep == (PipeTimer \/ PipeResume) /\ UNCHANGED <<shell_pc, job, fg_pid>>

LineNext == ShellStep \/ CommandStep \/ CtrlC \/ KernelStep

\* The timer interrupts for ever, and a process that is dispatched inside a
\* transfer goes on with it.
LineSpec == LineInit /\ [][LineNext]_lineVars
FairLineSpec == LineSpec /\ WF_lineVars(KernelStep)

-----------------------------------------------------------------------------
(* Properties *)

Holding(p) == {pipe_in[p], pipe_out[p], call[p].page} \ {0}

\* The live processes in the middle of a transfer.
Transferring(g, op) ==
  {p \in Pids : /\ state[p] \notin {"NONE", "KILLED"}
                /\ call[p].op = op /\ call[p].page = g}

PipeTypeOK ==
  /\ TypeOK
  /\ pipe_table \in [Ids -> Pages \union {0}]
  /\ buffer \in [Pages -> [Slots -> Chars]]
  /\ read_pos \in [Pages -> Slots]
  /\ write_pos \in [Pages -> Slots]
  /\ active \in [Pages -> BOOLEAN]
  /\ status \in [Pages -> [Sems -> Int]]
  /\ blocked_pids \in [Pages -> [Sems -> Seq(Pids)]]
  /\ pipe_in \in [Pids -> Pages \union {0}]
  /\ pipe_out \in [Pids -> Pages \union {0}]
  /\ call \in [Pids -> [op : {"none", "read", "write"}, page : Pages \union {0}, left : Nat]]
  /\ stopped \in SUBSET {p \in Pids : state[p] = "BLOCKED"}

\* Bytes in the ring: those posted, less those taken by readers that have not
\* read yet.
Stored(g) == status[g]["full"] + Cardinality(Transferring(g, "read"))
Room(g) == status[g]["empty"] + Cardinality(Transferring(g, "write"))

\* The two semaphores, the positions of the ring and the transfers under way
\* agree on what an open pipe holds, through partial transfers, wake-ups and
\* deaths: no byte is counted twice and no slot is lost.
RingConserved ==
  \A g \in Pages : active[g] =>
    /\ Stored(g) \in 0..PIPE_BUFFER_SIZE
    /\ Stored(g) + Room(g) = PIPE_BUFFER_SIZE
    /\ write_pos[g] = Advance(read_pos[g], Stored(g))

\* A process asleep in a transfer is in the queue of the semaphore it waits
\* for, the queues hold nobody else, and a status below zero counts them: every
\* post that should wake somebody does, and nobody sleeps beside a token.  Who
\* was put to sleep by block on top of that is in no queue.
QueuesAreSleepers ==
  \A g \in Pages, op \in {"read", "write"} :
    /\ ToSet(blocked_pids[g][WaitsOn(op)]) =
         {p \in Transferring(g, op) : SleepsInCall(p)}
    /\ Len(blocked_pids[g][WaitsOn(op)]) = Sleepers(g, WaitsOn(op))

\* A pipe's page is freed only when no process will use it again: neither a
\* standard input or output nor a transfer under way points to a free page,
\* which another pipe or process could be using.
NoDanglingPipe ==
  \A p \in Pids : \A g \in Holding(p) : \E id \in Ids : pipe_table[id] = g

\* Closing a pipe, by its id or by the death of a process at one end, gets
\* every command out of its transfer, unless somebody stops it with block.  The
\* idle process and the shell transfer nothing.
ClosedTransfersEnd ==
  \A p \in Pids \ {1, Shell} :
    call[p].op # "none" /\ ~active[call[p].page]
      ~> call[p].op = "none" \/ p \in stopped

\* The bytes of an open pipe, in order.
Content(g) ==
  IF active[g]
    THEN [i \in 1..Stored(g) |-> buffer[g][Advance(read_pos[g], i - 1)]]
    ELSE <<>>

Channel == INSTANCE AbstractPipe WITH
  Capacity <- PIPE_BUFFER_SIZE,
  open <- active,
  content <- [g \in Pages |-> Content(g)]

\* The ring, its semaphores and all their sleeps and wake-ups implement a
\* bounded FIFO channel: bytes come out in order, once, and never overwritten.
ImplementsChannel == Channel!Spec

=============================================================================
