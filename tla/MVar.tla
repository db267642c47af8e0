-------------------------------- MODULE MVar --------------------------------
(***************************************************************************)
(* The mvar command (Terminal/cmd_ipc.c): processes that write and read    *)
(* one variable, kept in step by three semaphores, over the semaphores and *)
(* the scheduler of the kernel.  The shell launches the command again and  *)
(* again, and kills any of its processes at any point.                     *)
(*                                                                         *)
(* The busy wait at the head of each loop, the calls to open_sem (which    *)
(* change nothing) and the printing of a value take time only.  The shell  *)
(* does not wait for the command: it runs in the background, or Ctrl+C     *)
(* stands for the kill.                                                    *)
(***************************************************************************)
EXTENDS Semaphores

CONSTANTS
  Writers,            \* argv[1], 1..MAX_WR
  Readers,            \* argv[2], 1..MAX_RD
  ConcurrentLaunches  \* may the command be launched while another is starting?

EMPTY == 10
FULL == 11
MUTEX == 12
Shell == 2

ASSUME MVarAssumption ==
  /\ Writers \in 1..8 /\ Readers \in 1..8
  /\ ConcurrentLaunches \in BOOLEAN
  /\ {EMPTY, FULL, MUTEX} \subseteq Sems

VARIABLES
  program,     \* the name of a process: "mvar", "mvar_wr", "mvar_rd" or other
  pc,          \* the statement it is at
  local,       \* a writer's letter, the c of a reader, the i of the command
  doomed,      \* the workers in the ps snapshot that are still to be killed
  mvar_value   \* the shared variable, 0 at the start

localVars == <<program, pc, local, doomed>>
mvarVars == <<allVars, localVars, mvar_value>>

MVarInit ==
  /\ SemInit
  /\ program = [p \in Pids |-> "other"]
  /\ pc = [p \in Pids |-> "none"]
  /\ local = [p \in Pids |-> 0]
  /\ doomed = [p \in Pids |-> {}]
  /\ mvar_value = 0

At(name, label) ==
  ProgramRuns /\ program[current_process] = name /\ pc[current_process] = label

\* The locals of a step that leaves them at pc1, local1 and doomed1; those of a
\* slot that is reaped are gone.
Slots(program1, pc1, local1, doomed1) ==
  /\ program' = [p \in Pids |-> IF state'[p] = "NONE" THEN "other" ELSE program1[p]]
  /\ pc' = [p \in Pids |-> IF state'[p] = "NONE" THEN "none" ELSE pc1[p]]
  /\ local' = [p \in Pids |-> IF state'[p] = "NONE" THEN 0 ELSE local1[p]]
  /\ doomed' = [p \in Pids |-> IF state'[p] = "NONE" THEN {} ELSE doomed1[p]]

KeepSlots == Slots(program, pc, local, doomed)

SetsLocal(label, n) ==
  Slots(program, [pc EXCEPT ![current_process] = label],
        [local EXCEPT ![current_process] = n], doomed)

Goes(label) == SetsLocal(label, local[current_process])

Waits(s, label) ==
  (SemWaitTakes(s) \/ SemWaitBlocks(s)) /\ Goes(label) /\ UNCHANGED mvar_value
Posts(s, label) ==
  (SemPostAdds(s) \/ SemPostWakes(s)) /\ Goes(label) /\ UNCHANGED mvar_value

-----------------------------------------------------------------------------
(* mvar_writer *)

WriterWaits ==
  \/ At("mvar_wr", "wait_empty") /\ Waits(EMPTY, "wait_mutex")
  \/ At("mvar_wr", "wait_mutex") /\ Waits(MUTEX, "write")

WriterWrites ==
  /\ At("mvar_wr", "write")
  /\ mvar_value' = local[current_process]
  /\ UNCHANGED allVars
  /\ Goes("post_mutex")

\* Mutant: the value is written and nobody is told.
WriterPostsMutexOnly ==
  At("mvar_wr", "post_mutex") /\ Posts(MUTEX, "wait_empty")

WriterPosts ==
  \/ At("mvar_wr", "post_mutex") /\ Posts(MUTEX, "post_full")
  \/ At("mvar_wr", "post_full") /\ Posts(FULL, "wait_empty")

-----------------------------------------------------------------------------
(* mvar_reader *)

ReaderWaits ==
  \/ At("mvar_rd", "wait_full") /\ Waits(FULL, "wait_mutex")
  \/ At("mvar_rd", "wait_mutex") /\ Waits(MUTEX, "read")

ReaderReads ==
  /\ At("mvar_rd", "read")
  /\ UNCHANGED <<allVars, mvar_value>>
  /\ SetsLocal("post_mutex", mvar_value)

ReaderPosts ==
  \/ At("mvar_rd", "post_mutex") /\ Posts(MUTEX, "post_empty")
  \/ At("mvar_rd", "post_empty") /\ Posts(EMPTY, "wait_full")

WorkerStep ==
  WriterWaits \/ WriterWrites \/ WriterPosts \/ ReaderWaits \/ ReaderReads \/ ReaderPosts

-----------------------------------------------------------------------------
(* cmd_mvar *)

Workers(st) ==
  {p \in Pids : st[p] \notin {"NONE", "KILLED"} /\ program[p] \in {"mvar_wr", "mvar_rd"}}

\* The next statement of the clean-up with S still to be killed.
Cleaning(S) ==
  LET label == IF S = {} THEN "delete" ELSE "kill"
  IN  Slots(program, [pc EXCEPT ![current_process] = label],
            [local EXCEPT ![current_process] = 1],
            [doomed EXCEPT ![current_process] = S])

\* The snapshot of ps has the live processes only.
CleanupLists ==
  /\ At("mvar", "ps")
  /\ UNCHANGED <<allVars, mvar_value>>
  /\ Cleaning(Workers(state))

\* One round of the loop of kills; a pid that is gone by then is refused.
CleanupKills ==
  /\ At("mvar", "kill")
  /\ LET p == CHOOSE q \in doomed[current_process] :
                \A r \in doomed[current_process] : q <= r
     IN  /\ \/ SemKill(p)
            \/ state[p] = "NONE" /\ UNCHANGED allVars
         /\ Cleaning(doomed[current_process] \ {p})
  /\ UNCHANGED mvar_value

MVarSems == <<EMPTY, FULL, MUTEX>>

\* Mutant: the cell starts full.
StartsFull == <<1, 1, 1>>

\* Mutant: two writers are let in.
StartsWithRoomForTwo == <<2, 0, 1>>

InitialStatus == <<1, 0, 1>>

Loop(label, next) ==
  LET i == local[current_process]
  IN  IF i < Len(MVarSems) THEN SetsLocal(label, i + 1) ELSE SetsLocal(next, 1)

\* Mutant: the old semaphores are kept.
CleanupKeepsSems ==
  /\ At("mvar", "delete")
  /\ UNCHANGED <<allVars, mvar_value>>
  /\ Loop("delete", "create")

CleanupDeletes ==
  /\ At("mvar", "delete")
  /\ DeleteSem(MVarSems[local[current_process]])
  /\ Loop("delete", "create")
  /\ UNCHANGED mvar_value

CommandCreatesSems ==
  /\ At("mvar", "create")
  /\ LET s == MVarSems[local[current_process]] IN
       \/ CreateSem(s, InitialStatus[local[current_process]])
       \/ created[s] /\ UNCHANGED allVars
  /\ Loop("create", "clear")
  /\ UNCHANGED mvar_value

CommandClears ==
  /\ At("mvar", "clear")
  /\ mvar_value' = 0
  /\ UNCHANGED allVars
  /\ SetsLocal("spawn", 1)

\* sys_create_process of a program that starts at label with the argument n;
\* the caller goes on with its locals at next and i.
Spawns(name, label, n, next, i) ==
  /\ \/ /\ CreateFails
        /\ SetsLocal(next, i)
     \/ \E new \in Pids :
          /\ CreateIn(new)
          /\ Slots([program EXCEPT ![new] = name],
                   [pc EXCEPT ![new] = label, ![current_process] = next],
                   [local EXCEPT ![new] = n, ![current_process] = i],
                   [doomed EXCEPT ![new] = {}])
  /\ idle_pcb' = ReapedIdle(state)
  /\ UNCHANGED <<current_process, last_run_index, semVars, mvar_value>>

\* The two loops that create the writers and then the readers; a process that
\* is not created is not missed.
CommandSpawns ==
  /\ At("mvar", "spawn")
  /\ LET i    == local[current_process]
         next == IF i = Writers + Readers THEN "exit" ELSE "spawn"
     IN  \/ i <= Writers /\ Spawns("mvar_wr", "wait_empty", i, next, i + 1)
         \/ i > Writers /\ Spawns("mvar_rd", "wait_full", 0, next, i + 1)

CommandExits ==
  At("mvar", "exit") /\ SemExit /\ KeepSlots /\ UNCHANGED mvar_value

CommandStep ==
  \/ CleanupLists \/ CleanupKills \/ CleanupDeletes
  \/ CommandCreatesSems \/ CommandClears \/ CommandSpawns \/ CommandExits

-----------------------------------------------------------------------------
(* The shell and the timer *)

ShellTurn == ProgramRuns /\ current_process = Shell

Starting == \E p \in Pids : state[p] \notin {"NONE", "KILLED"} /\ program[p] = "mvar"

ShellLaunches ==
  /\ ShellTurn
  /\ Starting => ConcurrentLaunches
  /\ Spawns("mvar", "ps", 0, "none", 0)

ShellKills ==
  /\ ShellTurn
  /\ \E p \in KillTargets : SemKill(p)
  /\ KeepSlots /\ UNCHANGED mvar_value

MVarTimer == TimerTick /\ KeepSlots /\ UNCHANGED <<semVars, mvar_value>>

MVarNext == WorkerStep \/ CommandStep \/ ShellLaunches \/ ShellKills \/ MVarTimer

MVarSpec == MVarInit /\ [][MVarNext]_mvarVars

\* The timer interrupts for ever, and not every turn of a worker is spent in
\* its busy wait.
FairMVarSpec ==
  MVarSpec /\ WF_mvarVars(MVarTimer) /\ SF_mvarVars(WorkerStep)

-----------------------------------------------------------------------------
(* Properties *)

MVarTypeOK ==
  /\ TypeOK /\ SemTypeOK
  /\ program \in [Pids -> {"other", "mvar", "mvar_wr", "mvar_rd"}]
  /\ local \in [Pids -> 0..(Writers + Readers + 1)]
  /\ doomed \in [Pids -> SUBSET Pids]
  /\ mvar_value \in 0..Writers
  /\ \A p \in Pids : program[p] = "mvar_rd" => local[p] \in 0..Writers

QueuedAt(s, p) == Contains(blocked_pids[s], p)

\* A worker past its first wait holds the token until its last post.
InHand(p) ==
  /\ p \in Workers(state)
  /\ pc[p] \notin {"wait_empty", "wait_full"}
  /\ ~QueuedAt(EMPTY, p) /\ ~QueuedAt(FULL, p)

DataTokens ==
  Tokens[EMPTY] + Tokens[FULL] + Cardinality({p \in Pids : InHand(p)})

\* Whatever is killed and however often the command runs, there is one token
\* at most, in EMPTY, in FULL or in the hands of one worker: two workers are
\* never inside at once and a value is never overwritten or read twice.
OneToken == DataTokens <= 1

\* However the last run ended (workers killed inside, the command killed half
\* way), the next one starts empty and clean (the comment on mvar_cleanup).
FreshStart ==
  \A p \in Pids : state[p] \notin {"NONE", "KILLED"} /\ program[p] = "mvar"
                  /\ pc[p] = "spawn" /\ local[p] = 1
    => /\ Workers(state) = {}
       /\ \A i \in 1..Len(MVarSems) :
            status[MVarSems[i]] = InitialStatus[i] /\ blocked_pids[MVarSems[i]] = <<>>
       /\ mvar_value = 0

\* The token is lost only with a worker that dies inside, or when the command
\* is run again (README: "matar a un proceso justo dentro de su seccion
\* critica puede perder el token"); killing a worker that sleeps loses nothing.
LostOnlyByKill ==
  [][DataTokens = 1 /\ DataTokens' = 0 =>
       \/ created' # created
       \/ \E p \in Pids : InHand(p) /\ state'[p] \in {"NONE", "KILLED"}]_mvarVars

Waiting(p) == QueuedAt(EMPTY, p) \/ QueuedAt(FULL, p)

\* Some worker could still hand the token over to p.
PeersLive(p) ==
  /\ DataTokens = 1
  /\ \E q \in Workers(state) : program[q] # program[p]

\* While the token is not lost and the other side has a worker alive, everyone
\* who waits gets in: nobody is starved by its peers.
WaitersGetIn ==
  \A p \in Pids \ {1, Shell} : Waiting(p) ~> ~Waiting(p) \/ ~PeersLive(p)

\* The value is there from the write until the read.
HasValue ==
  \/ Tokens[FULL] = 1
  \/ \E p \in Pids : InHand(p) /\
       \/ program[p] = "mvar_wr" /\ pc[p] \in {"post_mutex", "post_full"}
       \/ program[p] = "mvar_rd" /\ pc[p] \in {"wait_mutex", "read"}

Cell == INSTANCE AbstractCell WITH
  Procs <- Pids,
  Values <- 1..Writers,
  Nothing <- 0,
  cell <- IF HasValue THEN mvar_value ELSE 0,
  taken <- [p \in Pids |-> IF program[p] = "mvar_rd" THEN local[p] ELSE 0]

\* The three semaphores make the shared variable a cell that is empty or full.
ImplementsCell == Cell!Spec

=============================================================================
