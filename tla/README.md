# A TLA+ model of the TP2-SO-G12 kernel

`x64BareBones/` is a small x86-64 kernel booted by Pure64: preemptive
round-robin processes with priorities, semaphores, pipes, two interchangeable
memory managers, a keyboard driver, text on a frame buffer, and a shell with its
commands in user space. This directory holds TLA+ modules for its parts, the TLC
configurations that check them on small instances and TLAPS proofs for every
instance.

In what follows a path is relative to `x64BareBones/Kernel/` unless it says
`Userland/`, `Terminal/` (which is `Userland/SampleCodeModule/Terminal/`) or
`Bootloader/`.

## Inventory

| Component | State it keeps | Operations | Talks to | What makes it correct |
|---|---|---|---|---|
| Process table and scheduler (`process.c`) | `process_table` with state, priority, `ticks_remaining`, `waiting_for_pid` per PCB; `current_process`, `idle_pcb`, `last_run_index` | `schedule_tick`, `scheduler`, `create_process`, `exit_process`, `waitpid`, `block_process`, `unblock_process`, `set_priority` | entered by IRQ0 and by `force_schedule` from system calls, semaphores and the keyboard | one RUNNING process, which is the current one; nobody starves; turns as long as the priority; idle only as a fallback; waits end; dead slots are reaped |
| System calls (`syscalls.c`, `asm/interrupts.asm`) | the text cursor | the dispatcher, `sys_read`, `sys_write` | everything below | validation, whole call atomic up to `force_schedule` |
| Semaphores (`sem.c`) | `sem_arr`: id, status, `blocked_pids` | `create_sem`, `delete_sem`, `sem_wait`, `sem_post`, `open_sem`, `sem_remove_pid` | block and unblock processes; called at a process's death | counting semaphores, FIFO, no lost or invented token, no phantom sleeper |
| Pipes (`pipe.c`) | ring of 1024 bytes, three semaphores, `active`; `pipe_table` of ids | create, open, alloc, read, write, close | semaphores, page allocator, `exit_process` | bytes in order and once; no reader or writer asleep on a closed pipe; no use of a freed page |
| Memory managers (`bitmapmm.c` or `buddymm.c`) | bitmap or free lists; free counter; headers in blocks | page and block allocation and release, `get_mem_stats` | process creation, pipes, `malloc` system calls | allocations disjoint; counters exact; full merging |
| Keyboard (`keyboardDriver.c`) | ring of 256 chars, modifiers, `fg_pid`, `kbd_waiting_pid` | `keyboard_handler` (IRQ1), `kbd_get_char`, `procesScanCode` | `exit_process` (Ctrl+C), unblock of the reader, `sys_read` | a sleeping reader is woken; Ctrl+C kills the job in the foreground and nobody else |
| Timer (`timeLib.c`) | `ticks` | `timer_handler`, `sleep` | called by `schedule_tick` | a sleep lasts what it should |
| Screen (`videoDriver.c`, `fonts.c`, `sys_write`) | cursor, font, frame buffer | text, zoom, clear, scroll, drawing | | the cursor stays on the screen; words are whole; text is not written over |
| Shell and commands (`Terminal/`) | line buffer, pids of the jobs | foreground, background, `a \| b`, commands | system calls | the prompt comes back; pipes are closed after both ends; `mvar` is a cell |
| Disk image tool (`Bootloader/BMFS/bmfs.c`) | the directory of a disk | format, initialize, create, write, delete | | files do not overlap; the directory is a set of named files |
| Test programs, user library | counters of the tests | `test_sync`, `test_prio`, `test_proc`, `test_mm` | system calls | |
| Boot loader, image packer, IDT set-up | | | | third-party or hardware set-up |

What is hard here: a handler runs to its end with interrupts off, so the
difficult behaviours are not data races but orders of handlers. A process can
be killed while it sleeps in a queue; slots (and with them pids) are reused; one
BLOCKED state serves four different sleeps; the tick handler is entered by
the timer and by system calls alike; a pipe transfer sleeps several times in the
middle; Ctrl+C kills from an interrupt, at any point of what the shell does.
`PROJECT.json` lists the hazards at their lines.

## Modules

| Module | Models | Extends or instantiates |
|---|---|---|
| `Scheduler` | process table, scheduler and process system calls | |
| `SchedulerTurns` | `Scheduler` plus history variables: how long a process has been READY, the ticks of a turn | `Scheduler` |
| `AbstractSemaphores` | what semaphores promise, with no scheduler | |
| `Semaphores` | `sem.c` composed with the whole of `Scheduler` | `Scheduler`; implements `AbstractSemaphores` |
| `AbstractPipe` | what a pipe promises: a bounded FIFO channel that can be closed | |
| `Pipes` | `pipe.c` over `Scheduler` | `Scheduler` |
| `Pipeline` | `left \| right` at the shell: `execute_line` composed with `Pipes` | `Pipes`; implements `AbstractPipe` |
| `Terminal` | keyboard, `sys_read`, and the shell's foreground and background jobs | `Scheduler` |
| `AbstractCell` | a variable that is empty or full | |
| `MVar` | the `mvar` command, its workers and its clean-up | `Semaphores`; implements `AbstractCell` |
| `PageAllocator` | what the kernel expects of either memory manager | |
| `BitmapMM` | `bitmapmm.c` | implements `PageAllocator` |
| `BitmapScan` | the search loop of `bitmapmm.c`, one action per iteration | `BitmapMM` |
| `BuddyMM` | `buddymm.c` | implements `PageAllocator` |
| `Screen` | text on the frame buffer | |
| `AbstractFiles` | a flat set of named files | |
| `BMFS` | the disk image tool | implements `AbstractFiles` |
| `MC...` | the inputs of the runs | the module they are named after |
| `SchedulerProofs` | theorems on `Scheduler` and `SchedulerTurns` | `SchedulerTurns` |
| `TerminalProofs` | theorems on `Terminal` and `Screen` | `Terminal`, `Screen`, `SchedulerProofs` |
| other `...Proofs` | theorems | the module they are named after |

A definition whose comment starts with "Mutant:" is a plausible bug in the
definition that follows it. No specification uses it; putting it in the place of
the right one makes a property fail, which shows that the property depends on
that piece of the code.

### Scheduler

A pid is its slot plus one (`create_process` sets `pid = i + 1`), so the
variables are functions of `Pids`; `"NONE"` is a NULL slot. One action is one
handler, up to the `force_schedule` that ends it: interrupt gates keep
interrupts off, and no handler modelled here does anything after
`force_schedule` returns. Handlers chain operators that take the state function
they work on (`exit_process(st, p)`, `block_process(st, p)`), then end in
`schedule_tick` or `ReturnToCaller`. `scheduler` does what the C function does in
its order: reap, preempt, scan from `last_run_index`, fall back to idle, or
leave `current_process` NULL. In that last case the code reads through NULL on
its way out; the model stops there and `NeverNoProcess` says when it cannot happen.

`create_process` may fail for lack of a page at any time (the memory manager is
not part of this module), and reaps zombies whether it fails or not.

`KillTargets` and `BlockTargets` are the pids programs aim at;
`BlocksZombies` says whether a block may hit a process that is dead and not yet
reaped. They state assumptions about programs where the code needs them, and a
violation run shows why it does.

### SchedulerTurns

Observes `Scheduler` without restricting it: every step of it is a step of
`Scheduler` with new values for `waited`, `granted` and `used`.

### Semaphores

`Semaphores` EXTENDS `Scheduler` and gives every process handler its effect on
the queues: `exit_process` also runs `sem_remove_pid`. `status` keeps the
code's convention (minus the number of sleepers when negative). The queue is
the used prefix of `blocked_pids`. `create_sem` stores any `int`; a post of a
semaphore with a negative status and an empty queue, which the code answers by writing
before its queue, is no action of the model (see the assumptions below).
`UnblocksSleepers` and `WaitsOnClosed` say
whether programs unblock a process asleep in the kernel, and wait on ids that
are not created. `AbstractSemaphores` is the specification it is
shown to implement (`ImplementsSemaphores`): `value` is the status when positive,
`waiters` the queues, `exists` the created ids and `alive` the processes that are
neither dead nor a free slot.

### Pipes and pipelines

A pipe lives in a page. `pipe_read` and `pipe_write` move one byte per round and
may sleep in `sem_wait_on` at each; from one sleep to the next they run with
interrupts off, so that stretch (`Stretch`) is one action, and `call` keeps what is
left of a transfer that sleeps. A process that is dispatched inside a transfer
goes on with it (`PipeResume`) before anything else, and looks at `active` again
as the code does. The semaphore `mutex` is taken and given back inside a stretch and is
never contended, so it is not a variable. `exit_process` here closes both ends of
the process; `Holding(p)` are the pages it could still touch.

`Pipeline` is the shell at `execute_line`: the statements of the `|` branch are
the values of `shell_pc`. The two commands are arbitrary programs: at any time they
read and write any number of bytes through their standard input and output or by id,
exit, kill, create, block and unblock (`BlockTargets`), yield, wait (`WaitsIn`) and
nice (`Nices`). That covers `cat`, `wc` and `filter`, and `kill`, `nice` and `block`,
which may be an end of a pipe too. `stopped` is a history variable: who sleeps because
somebody called block. `SleepsInCall` are then those asleep in a transfer or in
`waitpid`; `UnblocksSleepers` says whether an unblock may hit one of them, and
`SharesIds` whether programs use by its id a pipe they are no end of. Ctrl+C may
come at any point. The bytes of a channel (`Content`) are what the ring
holds between the two positions.

### Terminal

`KeyPress` is IRQ1 with a key going down or up; `procesScanCode` is reduced to which
of its two characters a key gives (`Shifted`). `sys_read` sleeps when the ring is empty
(`ReadSleeps`), after registering its caller in `kbd_waiting_pid`; a reader that
is dispatched again looks at the ring first (`ReadResumes`). The shell goes through
`readInput`, `execute_line`, `run_as_process_fg` and `run_as_process_bg`, one
action per system call. `kind` is a history variable: what each process was
created as. `BgReads` and `BgCreates` say whether programs other than the job in
the foreground read the keyboard and create processes.

### MVar

Each statement of `mvar_writer`, `mvar_reader`, `mvar_cleanup` and `cmd_mvar` that is a
system call or touches the shared variable is a label of `pc`. The command may be
launched again, and any process but the shell and idle killed, at any step. The
worker loops' busy waits take time only. `Cell` maps the variable to a cell that
is full from the write of a value until its read.

### Memory managers

The kernel is linked with one of the two. Both modules keep `held`, the blocks
the kernel and the programs have, so that a release is always of something that
was allocated (the code trusts its callers here), and both are shown to implement
`PageAllocator`: an allocation is a run of pages nobody has, a release gives it
back, and the free counter is exact. Memory is its page numbers and the header
word of each page; arithmetic on sizes is modulo `WORD`, as `uint64_t` is.

In `BitmapMM` `bitmap` is the set of bits at 1. The search is the definition
`find_consecutive_pages` (the lowest run that fits), and `BitmapScan` shows that
the loop of the code computes that definition, between any two calls.

In `BuddyMM` a free list is the sequence of its blocks and addresses are
counted in pages from `buddy_base`. The nodes of the lists lie in the free
blocks themselves, over the word where a block in use keeps its order: `header`
is that word, and holds `LINK` where a list operation wrote last. The loops of
`get_block` and `put_block` are given by what they compute: `get_block` pushes
the upper halves at the orders between the one asked for and the one found;
`put_block` takes out the buddies up to `MergedOrder` and pushes the block that
encloses them all.

### Screen

A call of `sys_write` runs with interrupts off, so it is one action: `Written` is the
result of `WriteChar` at each character of the string in turn; the steps are functions
of the cursor and of the places where a character is shown. Coordinates are 16 bits
wide. `ScreenAssumption`
asks for a screen that is as high as a line, as wide as a tab, and smaller than what
16 bits can count by a line and a tab, which the VBE modes are by far.

### BMFS

A command is one run of the tool, which reads the directory and writes it back.
`num_used_entries` is what the code computes, that is 0 when no entry is marked as
the end. `Sorted` are the orders `qsort` may leave; its comparison subtracts two
starting blocks into an `int`, which is taken as exact (disks of less than 2^31 blocks).
Numbers wrap at `Word`, the end of a file and the length of a gap included, and a gap
that starts at 0 is none for the code (`Areas`). Block 0 and the last block of a disk
belong to the file system. A write at blocks beyond the end of the image makes it
longer, as far as the host lets it (`MAX_IMAGE`); a file is not placed behind
`LAST_BLOCK`, which stands for the reach of `fseek`. The commands but `format` and
`initialize` refuse a disk without the tag (`ValidDisk`), which is what `ready` is in
`AbstractFiles`: an untagged disk has no files.

## Runs

| Run | Shows | Bounds, and why they are enough |
|---|---|---|
| `turns` | `TypeOK`, `OnlyCurrentRuns`, `WaitTargetAlive`, `NeverNoProcess`, `IdleOnlyWhenNoneReady`, `BoundedWait`, `TurnMatchesPriority`, `ReleasedWaitersRun` under every mix of handlers | 4 slots: idle and three others, so two waiters for one target, a full table and slot reuse all occur; turns of 1 or 2 ticks, so that the bound of `BoundedWait` is 6; idle and another process are blocked, two are killed |
| `scheduler_zombie` | violation of `KilledIsFinal` when a zombie is blocked | as above |
| `semaphores` | `QueueMatchesStatus`, `NoPhantoms`, `WaitHasRoom`, `ImplementsSemaphores` | idle and 3 programs: two can sleep in one queue while the third posts, kills or deletes; 2 semaphores, so that a process could be in two queues; initial values 0 and 1; one priority, which the semaphores do not read; at most 2 tokens by post (`MAX_STATUS`) |
| `semaphores_phantom` | violation of `NoDeadInQueues` when a sleeper is unblocked | as above |
| `pipes` | `RingConserved`, `QueuesAreSleepers`, `NoDanglingPipe`, `ClosedTransfersEnd`, `ImplementsChannel` | idle, the shell, two commands; a ring of 2 bytes that is filled, wraps and is written 3 at a time; one page, so that a pipe is followed by another in the same page; ids of 2 pipes; the second command is blocked and unblocked, the first one waited for |
| `terminal` | `SleepingReaderIsHeard`, `CtrlCKillsTheJob`, `PromptReturns`, `ZombiesReaped` | idle, the shell and two programs, so that a job and its child, or a job and a background process, live at once and slots are reused; a ring of 2 characters, which is filled; lines of 1 character; a key of every sort the driver tells apart but the shifts and Ctrl+R |
| `mvar` | `OneToken`, `FreshStart`, `LostOnlyByKill`, `ImplementsCell`, `WaitersGetIn` | the command with two writers and a reader: two workers compete for the token and a third hands it back; anyone but the shell and idle is killed |
| `bitmap` | `Accounting`, `BlockHoldsRequest`, `FindsFirstFit`, `ImplementsAllocator` | 4 managed pages (5 with the one that bitmap and counter take), a size at each boundary, run lengths of 0 to 5: holes, runs that end at the last page and refusals all occur |
| `buddy` | `Partition`, `FailsOnlyIfNoFit`, `BlockHoldsRequest`, `ImplementsAllocator` | 9 pages and orders 0 to 2: two blocks of the largest order, which must not merge with each other, and a page without a buddy; a size at each boundary and one too large |
| `screen` | `CursorOnScreen`, `WordsStayWhole`, `NeverWritesOver` | two fonts and a screen of 2 lines of 4 or 2 cells with a rest; strings with every special character, and words that fit in the rest of a line, in a line, or in none |
| `bmfs` | `RoomIsFound`, `CreatePlacesWell`, `ImplementsFiles` | 3 entries, so that the directory fills; images cut short at any block, of 3 blocks and a rest, of 5 blocks, and of 5 that come from a size that wrapped; files of 1 and 2 blocks, so that gaps too small for the larger one occur; images that grow up to 5 blocks (`MAX_IMAGE`, `LAST_BLOCK`); names are symmetric |
| `bmfs_overlap` | violation of `NoOverlap` after deletions | as above |

Deadlock is checked in every run: the timer, a request or a release is always possible.

Fairness is stated where a run needs it, and as weakly as the code justifies.

- `FairLineSpec`: weak fairness of `KernelStep`, the timer and the continuation of
  a transfer. The PIT interrupts for ever, every process runs with interrupts on
  (RFLAGS 0x202 in `create_process`), and a process that is dispatched in the
  kernel goes on there. Nothing is assumed of programs, which may never make a
  system call.
- `FairTermSpec`: the same and strong fairness of `ShellStep`. The shell does not loop
  between two system calls, so when it is dispatched again and again it gets to the
  next one; strong, since the timer may take the CPU away from it each time.
- `FairMVarSpec`: weak fairness of the timer and strong fairness of `WorkerStep`. A worker
  between two system calls is in a finite busy wait.

What the violation runs show about the code:

- `scheduler_zombie`: `block` writes BLOCKED over KILLED, so a killed process
  that is not reaped yet comes back to life.
- `semaphores_phantom`: a process that is unblocked by system call while it
  sleeps in `sem_wait` keeps its place in the queue, can queue again, and leaves
  an entry behind when it is killed, against the comment at `sem.c:114`.
- `bmfs_overlap`: the search for room takes the end of a deleted file for the
  beginning of a gap, so a new file may be placed over another.

### What the models assume, and the code does not enforce

These are the places where a constant or a guard keeps the passing runs and the
theorems away from behaviour that breaks a property. Each was met by running the model
without the assumption, and can be met again by giving the constant its other value in
the .cfg of the run.

| Assumption | Constant | What fails without it |
|---|---|---|
| programs do not kill idle | `1 \notin KillTargets` | `NeverNoProcess` |
| nobody unblocks a process asleep in the kernel | `UnblocksSleepers = FALSE` | `NoDeadInQueues` (run `semaphores_phantom`); `QueuesAreSleepers` and `ImplementsChannel` of the pipes |
| nobody blocks a dead process (`pipes`, `DeathIsFinal`) | `BlocksZombies = FALSE` | `KilledIsFinal` (run `scheduler_zombie`) |
| semaphores start at 0 or above | `InitialValues`, `NonNegativeStarts` | `QueueMatchesStatus` |
| programs wait on semaphores that exist | `WaitsOnClosed = FALSE` | `ImplementsSemaphores` |
| pipelines run in the foreground | `Modes = {"fg"}`, `Foreground` | `NoDanglingPipe` |
| a pipe is used by its two ends only | `SharesIds = FALSE`, `OwnPipes` | `QueuesAreSleepers` |
| turns of one tick in pipelines | `MIN_PRIORITY = 1`, `Nices = {1}` | `NoDanglingPipe` |
| one program reads the keyboard at a time | `BgReads = FALSE` | `SleepingReaderIsHeard` |
| only the job in the foreground creates processes | `BgCreates = FALSE` | `CtrlCKillsTheJob` |
| one `mvar` starts at a time | `ConcurrentLaunches = FALSE` | `FreshStart` |
| sizes do not wrap around with their header | `Sizes`, `NoWrap` | `BlockHoldsRequest` |
| create is not used in a full directory | `CreatesWhenFull = FALSE` | `ImplementsFiles` |

What happens in the code then, and other behaviour worth knowing:

- `kill 1` is accepted and removes idle, of which `process.c:123-124` says that it is
  never killed; when everybody else sleeps `current_process` is NULL.
- `malloc` of a size within a header of 2^64 succeeds with a block of one page at most,
  since size plus header wraps around, in both memory managers.
- A process that is killed while it sleeps on a pipe it knows by its id only, as those
  of `test_pipe`, stays in the queue of the pipe: `sem_remove_pid` walks the public
  semaphores, and `exit_process` closes standard input and output. A later post is lost
  on it.
- The shell closes the pipe of a background pipeline as soon as it has launched it, and
  frees its page under both commands.
- Two programs that read the keyboard at once share one `kbd_waiting_pid`, and the
  first sleeps on when a character arrives.
- When other programs create processes, the slot of a job that ended can be reused
  before the shell forgets it, and Ctrl+C kills the new owner.
- `bmfs create` in a directory with no entry marked as the end sees an empty disk, since
  `num_used_entries` stays 0: the new file is placed over the others, and if it takes
  over the first entry the second becomes the end of the directory.
- `create_sem` does not check the value. After `create_sem(id, -1)` a
  `sem_post` finds a status of 0 and an empty queue: it takes a pid out of it all the
  same, decrements the count of an empty queue and unblocks pid 0. `QueueMatchesStatus`
  fails at the create; what follows the post is outside the model.
- The `block` command toggles on what `ps` showed it, and can itself be an end of a pipe.
  If its target has fallen asleep in `pipe_read` in the meantime, it goes on as if it had
  a token: `QueuesAreSleepers` and `ImplementsChannel` fail (`UnblocksSleepers`). The
  runs leave out the unblock of a process asleep in a transfer or in `waitpid`, and the
  block of a dead one.
- `yield` enters `schedule_tick` exactly as the timer does: a process with ticks left
  loses one of them and keeps the CPU, though the comment at `syscalls.c:312`
  says that it lets go of it.
- `sem_wait` does not check that the semaphore exists, and a later `create_sem`
  forgets who waits there (`WaitsOnClosed`).
- A pipe is closed when either end exits, so the last bytes its reader has not read
  yet are lost (`AbstractPipe` allows it).
- A process that `nice` gave turns of more than a tick is not reaped at once when it
  is killed, and neither is anybody else during its turn: a dead process may then
  point to a page that the shell has freed (`MIN_PRIORITY` above 1, or 2 in `Nices`, in `pipes`), and a
  second `kill` of it would close the pipe that is there by then.
- Two `mvar` commands that start at once clean each other's workers away
  (`ConcurrentLaunches`).

Three lines of `src/README.md` do not match the commands, outside what is modelled:
`ps | wc` (line 187) is refused, since `ps` runs inside the shell and cannot be an end of a
pipe (`shell.c:150`); `test_sync 3 1000 1` (line 195) ends at once, since the test takes
two arguments (`test_sync.c:58`); `filter` (line 128) prints the vowels and drops the rest.

## Proofs

Every theorem holds for every value of the constants that satisfies the named
ASSUMEs of the module: at least two slots, `1 <= MIN_PRIORITY <= MAX_PRIORITY`,
room in a queue for every process, a ring that holds a character, a page at
least as large as a header, a screen with room for a line and a tab, a disk of which ten
times the least size can be counted.

| Theorem | States | Assumes besides |
|---|---|---|
| `TypeCorrect`, `CurrentRuns`, `WaitsAreAlive` | `TypeOK`, `OnlyCurrentRuns`, `WaitTargetAlive` always | |
| `WaitersAreReleased` | `ReleasedWaitersRun` for every step | |
| `KernelAlwaysRuns` | `NeverNoProcess` | programs do not kill idle (`1 \notin KillTargets`) |
| `DeathIsFinal` | `KilledIsFinal` for every step | nobody blocks a dead process (`BlocksZombies = FALSE`) |
| `ResponseTime` | `BoundedWait` | |
| `IdleIsFallback`, `TurnLength` | `IdleOnlyWhenNoneReady`, `TurnMatchesPriority` | |
| `SemTypeCorrect` | `SemTypeOK` | |
| `CountsSleepers` | `QueueMatchesStatus` | no semaphore is created with a negative value (`NonNegativeStarts`) |
| `QueuedAreAsleep`, `OneQueueEach`, `RoomToWait` | `NoPhantoms`, `InOneQueue`, `WaitHasRoom` | the same, and `UnblocksSleepers = FALSE` |
| `SemaphoresRefine`, `NobodyForgotten` | `ImplementsSemaphores`, `LeavesQueueAwake` | `NonNegativeStarts`, `UnblocksSleepers = FALSE`, `WaitsOnClosed = FALSE` |
| `ReadersAreHeard`, `CtrlCIsAimed` | `SleepingReaderIsHeard`, `CtrlCKillsTheJob` | `BgReads = FALSE`, `BgCreates = FALSE` |
| `TermTypeCorrect`, `PromptIsSafe` | `TermTypeOK`, `PromptHasNoForeground` | the same |
| `OneTokenAlways`, `TokenLostOnlyByKill`, `StartsFresh`, `MVarRefinesCell` | `OneToken`, `LostOnlyByKill`, `FreshStart`, `ImplementsCell` | `MVarUse` |
| `PipesTyped`, `RingsConserve`, `QueuesSleep`, `PipesImplementChannel` | `PipeTypeOK`, `RingConserved`, `QueuesAreSleepers`, `ImplementsChannel` | pipelines run in the foreground (`Foreground`); nobody unblocks a process asleep in the kernel or blocks a dead one (`BlocksFairly`); a pipe is used by its two ends only (`OwnPipes`) |
| `NoPipeDangles` | `NoDanglingPipe` | the same, `MIN_PRIORITY = 1` and `Nices \subseteq {1}` |
| `CursorStaysOnScreen`, `TextIsNotOverwritten`, `WordsAreWhole` | `CursorOnScreen`, `NeverWritesOver`, `WordsStayWhole` | |
| `ScanFindsFirstFit` | `FindsFirstFit` | |
| `BitmapTypeCorrect`, `BitmapAccounts`, `BitmapImplements` | `MMTypeOK`, `Accounting`, `ImplementsAllocator` | |
| `BlocksAreLargeEnough` | `BlockHoldsRequest` of `BitmapMM` | no size is within a header and a page of `2^w` (`NoWrap`) |
| `BuddyTypeCorrect`, `BuddyPartitions`, `BuddyFindsFit`, `BuddyImplements` | `MMTypeOK`, `Partition`, `FailsOnlyIfNoFit`, `ImplementsAllocator` | |
| `BuddyBlocksAreLargeEnough` | `BlockHoldsRequest` of `BuddyMM` | no size is within a header of `2^w` (`NoWrap` of `BuddyProofs`) |
| `CreatePlacesFilesWell`, `RoomIsAlwaysFound` | `CreatePlacesWell`, `RoomIsFound` | |
| `DirectoryIsFiles` | `ImplementsFiles` | create is not used when every entry is used or deleted (`CreatesWhenFull = FALSE`) |

`MVarUse` says how the command is used: nobody unblocks its processes from outside,
the shell launches it again only when the last launch has created its workers, the
shell kills anybody but idle and itself, and `create_sem` may start at 0 and 1 and never
below 0.

`KilledIsFinal` is what `scheduler_zombie` refutes without its assumption. The types of
`Semaphores`, `Terminal` and `BitmapMM`, `InOneQueue`, `LeavesQueueAwake` and
`PromptHasNoForeground` are proved and no longer part of a run.

The arguments, and why the invariants have to be stronger than the properties:

- `TableInv` (types, one RUNNING process, live wait targets) is inductive by
  itself. `HandlerTable` says what a handler hands over to `scheduler`, so
  `schedule_tick` is treated once for all of them.
- `ResponseTime` is a budget argument. What a READY process has waited, plus the
  ticks left of the current turn, plus a whole turn for each slot between
  `last_run_index` and its own never exceeds `(MAX_PROCESSES - 1) * MAX_PRIORITY`
  (`BudgetInv`). It needs `ScanInv`: the scan resumes after the process that runs.
- The types of `Semaphores` need no assumption (`SemTypeNext`). `CountInv` (types and
  `QueueMatchesStatus`) is inductive as soon as values start at 0 or above: a value below
  counts sleepers that are in no queue.
- `SleepInv` relates the queues, the waits and the states: who is queued or waits
  is asleep, and never idle. "Once in one queue" is not inductive without it: only
  a process that runs can join a queue, and a process that runs is in none.
- `RefInv` adds that an id that is not created has no sleepers, without which
  `create_sem` would drop them.
- `TermInv` says where the shell is in `run_as_process_fg` (`ShellInv`), that
  the job it waits for is the only live process of its kind and is dead by the time
  `fg_pid` is cleared (`JobInv`), and that the job and the shell never read at once
  (`ReaderInv`). A process that sleeps in `sys_read` is then the one registered in
  `kbd_waiting_pid`, and the pid Ctrl+C kills cannot have passed to another
  program. Idle must be alive (`IdleUp`), for the shell to find a job to wait for.
- `MVarInv` is `SemInv`, `RefInv` and what the command adds. A step of the command is
  a step of `SemNext` and a step of locals (`KernelStep`), so the lemmas of the
  refinement of `Semaphores` say what it does to tokens and queues, and most steps
  are `Quiet`: they give nobody a token and put nobody in a queue. `HandInv` places
  the token and `QueueInv` ties a queue to the statement its sleepers are at; a
  post then hands the token to a worker that comes out of its first wait.
  `CommandInv` follows the clean-up: whom it still has to kill, then which of the
  three semaphores are gone and which are new, with no worker alive. Without it
  the token of the last run could survive next to the new one.
  `LostOnlyByKill` comes out of the same case analysis: `TokenKept` says of each step
  that the token is still somewhere, or that who held it is dead, or that the
  semaphores changed.
- `LineInv` of `PipelineProofs` says what the two semaphores of a ring are worth:
  a status plus the transfers on its side (`Units`) is the bytes, or the room, of the
  ring. A stretch of a transfer moves `k` of them from one side to the other, and
  queues, sleepers and wake-ups must follow (`StretchNumbers`): a process that was woken
  and has not run yet is in a transfer, awake and not in a queue, and the token it will
  find (`TokenInHand`) is one its status no longer counts. `RingConserved` alone
  is not inductive: the transfers have to be those of pages that live processes
  have as their standard input or output (`PcbInv`), which only the two commands do
  (`HolderInv`), which in turn needs the shell's place (`ShellInv`, `WaitInv`): it
  frees the page only when it has waited for both. With block among the calls,
  asleep is not yet asleep in a transfer: `stopped` tells the two apart, waits are those
  of processes that are not stopped (`WaitersSleep`), and idle may be BLOCKED and still
  is dispatched.
- `NoDanglingPipe` is not about the living, but about PCBs: a dead process keeps its two
  pointers until it is reaped. `DeadInv` says that nobody is dead and not reaped
  while the shell runs. It needs turns of one tick (`OneTick`), so that every
  `schedule_tick` gets to `scheduler`: that is what `create_process` gives everybody, and
  only `nice` changes it, hence `Nices \subseteq {1}`. TLC finds the
  property violated with turns of two ticks.
- `PipesImplementChannel` maps a step that opens, closes, writes or reads a ring to
  the same on its `Content`; sleeping, waking, dying and everything the shell does
  in between are stutters. Bytes written go after those that are there
  (`PutKeepsBytes`), those read leave from the front.
- `ScanInv` of `BitmapProofs` is the loop invariant: the last `consecutive` pages
  are free and no run that fits starts before them.
- `BitmapInv` adds to `Accounting` that the blocks held are disjoint and inside
  the managed memory; a release of one would otherwise clear bits of another.

- `BuddyProofs` looks at a block, free or held, as a tile: an order and a multiple of
  its size. `BuddyInv` says that the tiles are disjoint and cover the memory, that no
  two free ones are buddies and that `free_bytes` counts the free pages. A split takes
  one tile away and puts the halves (`Parts`) in its place, a merge does the
  opposite, and `PartsTile` shows once, by climbing the orders, that both have the same
  pages; `Retile` does the rest. That an owner's header word is not overwritten follows
  from the tiles as well: every node written lies in a tile that is not the owner's.
  `FailsOnlyIfNoFit` needs no more: in an aligned run with nothing in use take a
  smallest free block; its buddy is in the run too, and can neither be free nor be
  in a larger free block.
- On the screen a pen is the cursor and the picture between two characters of a
  `sys_write`. `ScreenInv` strengthens `CursorOnScreen`: the cursor and every
  character are on a row, a multiple of the height of a line that leaves room for one.
  Without the rows the bound on the cursor is not kept by a scroll, which goes back by
  one line, nor by a backspace at the beginning of one. Each step of `WriteChar` takes a
  pen to a pen and, if it does not go back, a neat one to a neat one (`Neat` is `Tidy` of
  a pen): two characters on different rows are apart since rows are a line apart.
- A word is whole because the test made once, at its first character, implies the one made
  at each of the others. From where `WrapWord` left the cursor all of the word fits
  (`x + k * CellWidth` is at most the width), so `PutChar` never goes to the next line
  inside it. When the word does not fit in a line the code cuts it, and the property
  leaves it out.
- In `bmfs.c`, `DirInv` says that an entry starts at a block from 1 on, with the blocks of
  one of the sizes that were asked for, and that the image is smaller than `Word`
  although the test for overflow of `DiskSize` lets some products wrap (`DiskSizeFacts`).
- `CreatePlacesFilesWell`: the sorted copy is a permutation of the entries, so each
  live file is before or behind the gap that was chosen. Those before it end, one after
  another, before the gap starts, because live files do not overlap; this is the
  step that fails when a deleted entry is among them, and the reason the property asks for
  `NoDeleted`. It also asks that no file ends beyond `Word` (`NoneWraps`): `create`
  bounds the size of a file by a difference that wraps, so only files inside the disk are
  known to end before it.
- `RoomIsAlwaysFound`: given a run of free blocks, take the first entry of the sorted copy that
  is deleted or starts behind the run, or the end of the copy. The entries before it are
  live, start before the end of the run and hold no block of it, so they end before the run
  starts; the gap before it then holds the run. The search stops there or at an earlier gap
  that is large enough. Deleted entries are sorted last, so none is between two live ones.
- `DirectoryIsFiles` needs `FilesInv`: no two live entries have the same name, which
  `create` keeps because it looks the name up first; an entry that is taken over is the
  first free one, and the end of the directory only moves away from live entries.
- Induction: the library's induction rules take an operator, which the provers cannot
  instantiate, but its rule on well-founded orders is about sets. `Climb` follows from
  it (what holds at `lo` and passes from `n` to `n + 1` holds up to `hi`, for a set
  in place of a predicate). It gives the facts on `Span`, which is `1ULL << order`
  written as a recursive function because there are no rules for `2^k`; it follows a
  string character by character (`Written`) and the digits of a size (`DiskSize`), both
  written as recursive functions too; and it walks the sorted copy of a directory.

Every safety property and every refinement of the passing runs has its theorem. Only
model-checked are the liveness properties `PromptReturns`, `ZombiesReaped`,
`ClosedTransfersEnd` and `WaitersGetIn`: their fairness needs ENABLED, for which the
prover has no rule.

## Not modelled, and why

- Contents of pages: the stack frame `create_process` builds, argv and names.
  The models follow who owns a page and not what is written in it, except for
  the header words that the memory managers read back and the bytes of a pipe.
- `foreground` and `text_color` of a PCB: nothing that a handler decides reads them.
- Pixels, shapes and colours, the VGA text console of the boot, the RTC, the register
  snapshot and the exception screens: I/O with no control of interest.
- `sleep` and `ticks`: a sleep is a busy wait, which the scheduler cannot tell
  from a program that spends its turns.
- Parsing of the command line, `printf` and the line editor's buffer: data. The
  models keep how many characters were typed.
- The test programs make system calls that the models already let programs
  make in any order; the user library is made of stubs.
- The boot loader, the image packer and the IDT set-up. Of the last one the models
  use that every gate is an interrupt gate.
- The three parts of the kernel that wake and kill processes (semaphores, pipes,
  keyboard) are each composed with the scheduler, and not with one another: they
  share no state but the process table, and one module with all of them is out
  of TLC's reach on an instance where anything happens.
