-------------------------------- MODULE Pipes --------------------------------
(***************************************************************************)
(* The pipes of the kernel (Kernel/pipe.c) over its scheduler: rings in a  *)
(* page of their own, each with the semaphores full and empty, and the     *)
(* standard input and output of a process that sys_read and sys_write turn *)
(* into a pipe.  Who calls them is said by the module that EXTENDS this    *)
(* one.                                                                    *)
(*                                                                         *)
(* A transfer of n bytes sleeps in the kernel whenever its semaphore has   *)
(* no token.  From one sleep to the next it runs with interrupts off, so   *)
(* that stretch is one action; `call' keeps what is left of the transfer.  *)
(* A process that is dispatched inside a transfer goes on with it before   *)
(* anything else can happen.  The semaphore mutex is taken and given back  *)
(* inside one stretch, so it always finds its token and is not a variable. *)
(***************************************************************************)
EXTENDS Scheduler, Sequences, SequencesExt

CONSTANTS
  MAX_PIPES,         \* ids are 1..MAX_PIPES (16 in the code)
  PIPE_BUFFER_SIZE,  \* 1024 in the code
  Pages,             \* pages that allocate_page may give to a pipe
  Chars,             \* the bytes programs write
  WaitsIn,           \* the pids programs pass to waitpid
  Nices,             \* the priorities programs give to nice
  UnblocksSleepers   \* may unblock hit a process asleep in a transfer or in waitpid?

Ids == 1..MAX_PIPES
Slots == 0..(PIPE_BUFFER_SIZE - 1)

ASSUME PipeAssumption ==
  /\ MAX_PIPES \in Nat
  /\ PIPE_BUFFER_SIZE \in Nat \ {0}
  /\ Pages \subseteq Nat \ {0}
  /\ WaitsIn \subseteq Pids /\ Nices \subseteq Priorities
  /\ UnblocksSleepers \in BOOLEAN

VARIABLES
  pipe_table,    \* the page of each id, 0 for NULL
  buffer,        \* of each page, as the other fields of pipe_t
  read_pos,
  write_pos,
  active,
  status,        \* of each page, the status of its semaphores full and empty
  blocked_pids,  \* and their queues
  pipe_in,       \* the page a process reads as its standard input, 0 for NULL
  pipe_out,      \* the page it writes as its standard output
  call,          \* the transfer a process is in the middle of
  stopped        \* history: who sleeps because somebody called block

ringVars == <<buffer, read_pos, write_pos>>
pipeVars == <<pipe_table, ringVars, active, status, blocked_pids>>
pcbVars == <<pipe_in, pipe_out, call, stopped>>
allPipeVars == <<vars, pipeVars, pcbVars>>

Sems == {"full", "empty"}
NoCall == [op |-> "none", page |-> 0, left |-> 0]

\* The semaphore a transfer waits on for each byte, and the one it posts.
WaitsOn(op) == IF op = "read" THEN "full" ELSE "empty"
Posts(op) == IF op = "read" THEN "empty" ELSE "full"

PipeInit ==
  /\ Init
  /\ pipe_table = [id \in Ids |-> 0]
  /\ buffer \in [Pages -> {[i \in Slots |-> c] : c \in Chars}]
  /\ read_pos = [g \in Pages |-> 0]
  /\ write_pos = [g \in Pages |-> 0]
  /\ active = [g \in Pages |-> FALSE]
  /\ status = [g \in Pages |-> [s \in Sems |-> 0]]
  /\ blocked_pids = [g \in Pages |-> [s \in Sems |-> <<>>]]
  /\ pipe_in = [p \in Pids |-> 0]
  /\ pipe_out = [p \in Pids |-> 0]
  /\ call = [p \in Pids |-> NoCall]
  /\ stopped = {}

\* The current process was dispatched in the middle of a transfer.
InCall == current_process # 0 /\ call[current_process].op # "none"

\* A program on the CPU, in its own code.
InProgram == ProgramRuns /\ ~InCall

\* A PCB that is reaped takes its pipe pointers and its stack with it.
PcbFields(cl) ==
  /\ pipe_in' = [p \in Pids |-> IF state'[p] = "NONE" THEN 0 ELSE pipe_in[p]]
  /\ pipe_out' = [p \in Pids |-> IF state'[p] = "NONE" THEN 0 ELSE pipe_out[p]]
  /\ call' = [p \in Pids |-> IF state'[p] = "NONE" THEN NoCall ELSE cl[p]]

\* The history: those of S that are asleep after the step.
Stopped(S) == stopped' = {p \in S : state'[p] = "BLOCKED"}

KeepPcbs(cl) == PcbFields(cl) /\ Stopped(stopped)

-----------------------------------------------------------------------------
(* Transfers *)

Tokens(g, s) == IF status[g][s] > 0 THEN status[g][s] ELSE 0
Sleepers(g, s) == IF status[g][s] < 0 THEN 0 - status[g][s] ELSE 0

\* Bytes that move before the transfer sleeps or ends: it finds `held' tokens
\* in its hands (the one it was woken with) and takes those of the semaphore.
Moved(g, op, n, held) == Min({n, held + Tokens(g, WaitsOn(op))})

\* Mutant: a write wakes nobody.
WriteWakesNobody(g, op, k) ==
  IF op = "write" THEN 0 ELSE Min({k, Sleepers(g, Posts(op))})

\* Each byte moved posts the other semaphore once.
Woken(g, op, k) == Min({k, Sleepers(g, Posts(op))})

Advance(pos, k) == (pos + k) % PIPE_BUFFER_SIZE

\* Mutant: the position is advanced before the byte is stored.
PutAhead(g, k) ==
  /\ \E bs \in [1..k -> Chars] :
       buffer' = [buffer EXCEPT ![g] = [i \in Slots |->
         IF \E d \in 1..k : i = Advance(write_pos[g], d)
           THEN bs[CHOOSE d \in 1..k : i = Advance(write_pos[g], d)] ELSE @[i]]]
  /\ write_pos' = [write_pos EXCEPT ![g] = Advance(@, k)]
  /\ UNCHANGED read_pos

\* k bytes of the user's, whatever they are, go into the ring.
PutBytes(g, k) ==
  /\ \E bs \in [1..k -> Chars] :
       buffer' = [buffer EXCEPT ![g] = [i \in Slots |->
         IF \E d \in 1..k : i = Advance(write_pos[g], d - 1)
           THEN bs[CHOOSE d \in 1..k : i = Advance(write_pos[g], d - 1)] ELSE @[i]]]
  /\ write_pos' = [write_pos EXCEPT ![g] = Advance(@, k)]
  /\ UNCHANGED read_pos

\* Mutant: a read gives back the slots and leaves the position.
TakeInPlace(g, k) == UNCHANGED ringVars

\* k bytes go to the user.
TakeBytes(g, k) ==
  /\ read_pos' = [read_pos EXCEPT ![g] = Advance(@, k)]
  /\ UNCHANGED <<buffer, write_pos>>

\* One stretch of pipe_read or pipe_write with n > 0 bytes to go.
Stretch(g, op, n, held) ==
  LET k    == Moved(g, op, n, held)
      own  == WaitsOn(op)
      peer == Posts(op)
      w    == Woken(g, op, k)
      st   == unblock_process(state, ToSet(SubSeq(blocked_pids[g][peer], 1, w)))
      peers == SubSeq(blocked_pids[g][peer], w + 1, Len(blocked_pids[g][peer]))
  IN
  /\ \/ op = "write" /\ PutBytes(g, k)
     \/ op = "read" /\ TakeBytes(g, k)
  /\ \/ /\ k = n                          \* the transfer is complete
        /\ status' = [status EXCEPT ![g][own] = @ - (k - held), ![g][peer] = @ + k]
        /\ blocked_pids' = [blocked_pids EXCEPT ![g][peer] = peers]
        /\ ReturnToCaller(st, waiting_for_pid)
        /\ KeepPcbs([call EXCEPT ![current_process] = NoCall])
     \/ /\ k < n                          \* it sleeps for the next byte
        /\ status' = [status EXCEPT ![g][own] = @ - (k - held) - 1, ![g][peer] = @ + k]
        /\ blocked_pids' = [blocked_pids EXCEPT
             ![g][own] = Append(@, current_process), ![g][peer] = peers]
        /\ schedule_tick(block_process(st, current_process), waiting_for_pid)
        /\ KeepPcbs([call EXCEPT
             ![current_process] = [op |-> op, page |-> g, left |-> n - k]])
  /\ UNCHANGED <<pipe_table, active>>

\* pipe_read and pipe_write on a pipe that is open; on a closed one they
\* return 0 and change nothing.
Transfer(g, op, n) == g # 0 /\ active[g] /\ Stretch(g, op, n, 0)

\* Back from force_schedule inside sem_wait_on: leave if the pipe was closed in
\* the meantime, otherwise go on with the token in hand.
PipeResume ==
  /\ InCall
  /\ \/ /\ ~active[call[current_process].page]
        /\ ReturnToCaller(state, waiting_for_pid)
        /\ KeepPcbs([call EXCEPT ![current_process] = NoCall])
        /\ UNCHANGED pipeVars
     \/ /\ active[call[current_process].page]
        /\ Stretch(call[current_process].page, call[current_process].op,
                   call[current_process].left, 1)

\* sys_read and sys_write of a process whose standard input or output is a pipe.
SysRead(n) == InProgram /\ Transfer(pipe_in[current_process], "read", n)
SysWrite(n) == InProgram /\ Transfer(pipe_out[current_process], "write", n)

\* 0x39 and 0x3A
PipeReadId(id, n) == InProgram /\ Transfer(pipe_table[id], "read", n)
PipeWriteId(id, n) == InProgram /\ Transfer(pipe_table[id], "write", n)

-----------------------------------------------------------------------------
(* Opening and closing *)

\* pipe_create in page g.
PipeCreate(g) ==
  /\ read_pos' = [read_pos EXCEPT ![g] = 0]
  /\ write_pos' = [write_pos EXCEPT ![g] = 0]
  /\ active' = [active EXCEPT ![g] = TRUE]
  /\ status' = [status EXCEPT ![g] =
       [s \in Sems |-> IF s = "empty" THEN PIPE_BUFFER_SIZE ELSE 0]]
  /\ blocked_pids' = [blocked_pids EXCEPT ![g] = [s \in Sems |-> <<>>]]
  /\ UNCHANGED buffer

FreePages == {g \in Pages : \A id \in Ids : pipe_table[id] # g}

\* 0x37; it fails, with no effect, if the id is in use or no page is left.
CreatePipeId(id) ==
  /\ InProgram
  /\ pipe_table[id] = 0
  /\ \E g \in FreePages :
       pipe_table' = [pipe_table EXCEPT ![id] = g] /\ PipeCreate(g)
  /\ ReturnToCaller(state, waiting_for_pid)
  /\ KeepPcbs(call)

\* 0x47: the first id that is free.
AllocPipe(id) == (\A j \in 1..(id - 1) : pipe_table[j] # 0) /\ CreatePipeId(id)

\* Mutant: the second loop of pipe_close is left out.
AsleepReading(G) == UNION {ToSet(blocked_pids[g]["full"]) : g \in G}

\* Who sleeps on the pages of G.
AsleepOn(G) ==
  UNION {ToSet(blocked_pids[g][s]) : g \in G, s \in Sems}

\* pipe_close on the pages of G: whoever sleeps there is posted awake.
pipe_close(G) ==
  /\ active' = [g \in Pages |-> active[g] /\ g \notin G]
  /\ status' = [g \in Pages |-> [s \in Sems |->
       IF g \in G THEN status[g][s] + Len(blocked_pids[g][s]) ELSE status[g][s]]]
  /\ blocked_pids' = [g \in Pages |-> [s \in Sems |->
       IF g \in G THEN <<>> ELSE blocked_pids[g][s]]]
  /\ UNCHANGED ringVars

\* 0x3B on an id in use: close and free the page, whoever still points at it.
ClosePipeId(id) ==
  /\ InProgram
  /\ pipe_table[id] # 0
  /\ pipe_close({pipe_table[id]})
  /\ pipe_table' = [pipe_table EXCEPT ![id] = 0]
  /\ ReturnToCaller(unblock_process(state, AsleepOn({pipe_table[id]})),
                    waiting_for_pid)
  /\ KeepPcbs(call)

\* The pipes exit_process closes.
EndsOf(p) == {pipe_in[p], pipe_out[p]} \ {0}

\* exit_process: the pipes are closed before the process is marked.
PipeExit ==
  /\ InProgram
  /\ pipe_close(EndsOf(current_process))
  /\ schedule_tick(
       exit_process(unblock_process(state, AsleepOn(EndsOf(current_process))),
                    current_process),
       StopWaiting(current_process))
  /\ KeepPcbs(call)
  /\ UNCHANGED pipe_table

PipeKill(p) ==
  /\ InProgram
  /\ p # current_process /\ state[p] # "NONE"
  /\ pipe_close(EndsOf(p))
  /\ ReturnToCaller(exit_process(unblock_process(state, AsleepOn(EndsOf(p))), p),
                    StopWaiting(p))
  /\ KeepPcbs(call)
  /\ UNCHANGED pipe_table

\* The page of an id, NULL for 0 and for an id that is not in use.
pipe_table_get(id) == IF id = 0 THEN 0 ELSE pipe_table[id]

\* create_process with the ids of its standard input and output.
PipeCreateProcess(in, out, new) ==
  /\ InProgram
  /\ CreateIn(new)
  /\ idle_pcb' = ReapedIdle(state)
  /\ UNCHANGED <<current_process, last_run_index, pipeVars>>
  /\ pipe_in' = [p \in Pids |-> IF p = new THEN pipe_table_get(in)
                                ELSE IF state'[p] = "NONE" THEN 0 ELSE pipe_in[p]]
  /\ pipe_out' = [p \in Pids |-> IF p = new THEN pipe_table_get(out)
                                 ELSE IF state'[p] = "NONE" THEN 0 ELSE pipe_out[p]]
  /\ call' = [p \in Pids |-> IF p = new \/ state'[p] = "NONE" THEN NoCall ELSE call[p]]
  /\ Stopped(stopped)

PipeCreateFails ==
  /\ InProgram
  /\ CreateFails
  /\ idle_pcb' = ReapedIdle(state)
  /\ UNCHANGED <<current_process, last_run_index, pipeVars>>
  /\ KeepPcbs(call)

\* The handlers that do not touch pipes.
PipeTimer == ~InCall /\ TimerTick /\ KeepPcbs(call) /\ UNCHANGED pipeVars

PipeBlock(p) ==
  /\ InProgram
  /\ SysBlock(p)
  /\ PcbFields(call)
  /\ Stopped(IF state[p] = "BLOCKED" THEN stopped ELSE stopped \union {p})
  /\ UNCHANGED pipeVars

\* Asleep in a transfer or in waitpid, and not because of block.
SleepsInCall(p) == state[p] = "BLOCKED" /\ p \notin stopped

PipeCall ==
  /\ InProgram
  /\ \/ SysYield
     \/ \E p \in WaitsIn : SysWaitpid(p)
     \/ \E p \in Pids, new_priority \in Nices : SysNice(p, new_priority)
     \/ \E p \in BlockTargets : SysUnblock(p) /\ (SleepsInCall(p) => UnblocksSleepers)
  /\ KeepPcbs(call)
  /\ UNCHANGED pipeVars

=============================================================================
